------------------------- MODULE DeviceReads_proofs -------------------------
(***************************************************************************)
(* DeviceReads for every instance, table, store and bound: the on/off an   *)
(* advertisement shows is the device's own; what a setter left stays; the  *)
(* segments are the device's pieces; a scene is of the device's own set.   *)
(***************************************************************************)
EXTENDS DeviceReads, SequenceTheorems, WellFoundedInduction, TLAPS

LEMMA LeastOf ==
    ASSUME NEW S \in SUBSET Nat, S # {}
    PROVE  \E i \in S : \A j \in S : i <= j
<1>1. PICK i \in S : \A j \in S : <<j, i>> \notin OpToRel(<, Nat)
  BY NatLessThanWellFounded, WFMin
<1>2. \A j \in S : ~(j < i)
  BY <1>1 DEF OpToRel
<1> QED BY <1>2

-----------------------------------------------------------------------------
(* Records: one entry for a key, in the order the keys were first heard.   *)

Frame == [key : OwnKeys \cup ForeignKeys, pact : AirPacts, on : {"on", "off"}]
Keyed(r) == r \in Seq(Frame) /\ \A i, j \in DOMAIN r : r[i].key = r[j].key => i = j

LEMMA EntryFacts ==
    ASSUME NEW r, Keyed(r)
    PROVE  /\ \A e \in Entries(r) : e \in Frame /\ e.key \in HeldKeys(r) /\ EntryOf(r, e.key) = e
           /\ \A key \in HeldKeys(r) : EntryOf(r, key) \in Entries(r) /\ EntryOf(r, key).key = key
<1>1. r \in Seq(Frame)
  BY DEF Keyed
<1>2. ASSUME NEW e \in Entries(r) PROVE e \in Frame /\ e.key \in HeldKeys(r)
  BY <1>1 DEF Entries, HeldKeys
<1>3. ASSUME NEW e \in Entries(r), NEW x \in Entries(r), e.key = x.key PROVE e = x
  BY <1>3 DEF Entries, Keyed
<1>4. ASSUME NEW e \in Entries(r) PROVE EntryOf(r, e.key) = e
  <2>1. \A x \in Entries(r) : x.key = e.key => x = e
    BY <1>3
  <2> QED BY <2>1, <1>4 DEF EntryOf
<1>5. ASSUME NEW key \in HeldKeys(r) PROVE EntryOf(r, key) \in Entries(r) /\ EntryOf(r, key).key = key
  <2>1. \E e \in Entries(r) : e.key = key
    BY DEF HeldKeys, Entries
  <2> QED BY <2>1 DEF EntryOf
<1> QED BY <1>2, <1>4, <1>5

\* A scanner's merge puts in the entry and leaves the others.
LEMMA MergeFacts ==
    ASSUME NEW r, Keyed(r), NEW e \in Frame
    PROVE  /\ Keyed(Merge(r, e))
           /\ Entries(Merge(r, e)) = {x \in Entries(r) : x.key # e.key} \cup {e}
           /\ HeldKeys(Merge(r, e)) = HeldKeys(r) \cup {e.key}
<1>1. r \in Seq(Frame) /\ Len(r) \in Nat /\ DOMAIN r = 1 .. Len(r) /\ \A i \in DOMAIN r : r[i] \in Frame
  BY DEF Keyed
<1>2. CASE e.key \in HeldKeys(r)
  <2> DEFINE m == [i \in DOMAIN r |-> IF r[i].key = e.key THEN e ELSE r[i]]
  <2>1. m \in Seq(Frame) /\ DOMAIN m = DOMAIN r
    BY <1>1
  <2>2. \A i \in DOMAIN r : m[i].key = r[i].key /\ (m[i] = IF r[i].key = e.key THEN e ELSE r[i])
    BY <1>1
  <2>3. Merge(r, e) = m
    BY <1>2 DEF Merge
  <2> HIDE DEF m
  <2>4. PICK k \in DOMAIN r : r[k].key = e.key
    BY <1>2 DEF HeldKeys
  <2>5. Keyed(m)
    BY <2>1, <2>2 DEF Keyed
  <2>6. Entries(m) \subseteq {x \in Entries(r) : x.key # e.key} \cup {e}
    BY <2>1, <2>2 DEF Entries
  <2>7. {x \in Entries(r) : x.key # e.key} \cup {e} \subseteq Entries(m)
    <3>1. e \in Entries(m)
      BY <2>1, <2>2, <2>4 DEF Entries
    <3>2. ASSUME NEW i \in DOMAIN r, r[i].key # e.key PROVE r[i] \in Entries(m)
      <4>1. m[i] = r[i]
        BY <2>2, <3>2
      <4> QED BY <4>1, <2>1 DEF Entries
    <3> QED BY <3>1, <3>2 DEF Entries
  <2>8. HeldKeys(m) = HeldKeys(r) /\ e.key \in HeldKeys(r)
    BY <2>1, <2>2, <2>4 DEF HeldKeys
  <2> QED BY <2>3, <2>5, <2>6, <2>7, <2>8
<1>3. CASE e.key \notin HeldKeys(r)
  <2> DEFINE m == Append(r, e)
  <2>1. /\ m \in Seq(Frame) /\ DOMAIN m = 1 .. Len(r) + 1
        /\ \A i \in DOMAIN r : m[i] = r[i]
        /\ m[Len(r) + 1] = e
    BY <1>1
  <2>2. Merge(r, e) = m
    BY <1>3 DEF Merge
  <2> HIDE DEF m
  <2>3. \A i \in DOMAIN r : r[i].key # e.key
    BY <1>3 DEF HeldKeys
  <2>4. \A i \in DOMAIN m : i \in DOMAIN r \/ i = Len(r) + 1
    BY <2>1, <1>1
  <2>5. DOMAIN r \subseteq DOMAIN m /\ Len(r) + 1 \in DOMAIN m
    BY <2>1, <1>1
  <2>6. Keyed(m)
    <3>1. ASSUME NEW i \in DOMAIN m, NEW j \in DOMAIN m, m[i].key = m[j].key PROVE i = j
      <4>1. CASE i \in DOMAIN r /\ j \in DOMAIN r
        BY <4>1, <3>1, <2>1 DEF Keyed
      <4>2. CASE i = Len(r) + 1 /\ j = Len(r) + 1
        BY <4>2
      <4>3. CASE i \in DOMAIN r /\ j = Len(r) + 1
        BY <4>3, <3>1, <2>1, <2>3
      <4>4. CASE i = Len(r) + 1 /\ j \in DOMAIN r
        BY <4>4, <3>1, <2>1, <2>3
      <4> QED BY <4>1, <4>2, <4>3, <4>4, <2>4
    <3> QED BY <3>1, <2>1 DEF Keyed
  <2>7. Entries(m) = Entries(r) \cup {e}
    BY <2>1, <2>4, <2>5 DEF Entries
  <2>8. \A x \in Entries(r) : x.key # e.key
    BY <2>3 DEF Entries
  <2>9. HeldKeys(m) = HeldKeys(r) \cup {e.key}
    BY <2>1, <2>4, <2>5 DEF HeldKeys
  <2> QED BY <2>2, <2>6, <2>7, <2>8, <2>9
<1> QED BY <1>2, <1>3

\* The first of some entries is one of them.
LEMMA FirstFacts ==
    ASSUME NEW r, Keyed(r), NEW E
    PROVE  /\ First(r, E) \subseteq E \cap Entries(r)
           /\ E \cap Entries(r) # {} => First(r, E) # {}
<1>1. r \in Seq(Frame) /\ Len(r) \in Nat /\ DOMAIN r = 1 .. Len(r)
  BY DEF Keyed
<1>2. First(r, E) \subseteq E \cap Entries(r)
  BY DEF First, Entries
<1>3. ASSUME E \cap Entries(r) # {} PROVE First(r, E) # {}
  <2> DEFINE hits == {i \in DOMAIN r : r[i] \in E}
  <2>1. hits # {} /\ hits \in SUBSET Nat
    BY <1>1, <1>3 DEF Entries
  <2>2. PICK i \in hits : \A j \in hits : i <= j
    BY <2>1, LeastOf
  <2>3. \A k \in 1 .. i - 1 : r[k] \notin E
    BY <2>2, <1>1
  <2>4. r[i] \in First(r, E)
    BY <2>2, <2>3 DEF First
  <2> QED BY <2>4
<1> QED BY <1>2, <1>3

\* The entries of a record that came with another value than the record before it held.
Changed(r, previous) == {x \in Entries(r) : x.key \in HeldKeys(previous) /\ EntryOf(previous, x.key) # x}
ChangedKeys(r, previous) == {x.key : x \in Changed(r, previous)}

LEMMA LatestFacts ==
    ASSUME NEW r, Keyed(r), NEW previous, NEW before, NEW key
    PROVE  /\ ChangedKeys(r, previous) = {key} => LatestGoveeKey(r, previous, before) = key
           /\ ChangedKeys(r, previous) = {} => LatestGoveeKey(r, previous, before) = before
<1> DEFINE hits == First(r, Changed(r, previous))
<1>1. LatestGoveeKey(r, previous, before) = IF hits = {} THEN before ELSE (CHOOSE e \in hits : TRUE).key
  BY DEF LatestGoveeKey, Changed
<1>2. hits \subseteq Changed(r, previous) /\ (Changed(r, previous) # {} => hits # {})
  BY FirstFacts DEF Changed
<1>3. Changed(r, previous) = {} <=> ChangedKeys(r, previous) = {}
  BY DEF ChangedKeys
<1>4. hits # {} => (CHOOSE e \in hits : TRUE) \in hits
  OBVIOUS
<1>5. \A e \in Changed(r, previous) : e.key \in ChangedKeys(r, previous)
  BY DEF ChangedKeys
<1> HIDE DEF hits
<1>6. ASSUME ChangedKeys(r, previous) = {} PROVE hits = {}
  BY <1>6, <1>2, <1>3
<1>7. ASSUME ChangedKeys(r, previous) = {key} PROVE hits # {} /\ (CHOOSE e \in hits : TRUE).key = key
  <2>1. hits # {}
    BY <1>7, <1>2, <1>3
  <2>2. (CHOOSE e \in hits : TRUE).key \in ChangedKeys(r, previous)
    BY <2>1, <1>4, <1>2, <1>5
  <2> QED BY <2>1, <2>2, <1>7
<1> QED BY <1>1, <1>6, <1>7

-----------------------------------------------------------------------------
(* What an advertisement shows.                                            *)

AirInv ==
    /\ radio \in [key : OwnKeys, pact : AirPacts, on : {"on", "off"}]
    /\ Keyed(record) /\ Keyed(last) /\ aired \in Frame /\ heard \in Frame
    /\ aired.key = radio.key /\ radio.key \in HeldKeys(record) => aired \in Entries(record)
    /\ mine => /\ aired.key = radio.key /\ radio.key \in HeldKeys(record)
               /\ heard.key = radio.key /\ latest = radio.key /\ heard \in Entries(last)

LEMMA EntryOfRadio ==
    ASSUME radio \in [key : OwnKeys, pact : AirPacts, on : {"on", "off"}]
    PROVE  Entry(radio) \in Frame /\ Entry(radio).key = radio.key
BY DEF Entry, Frame

LEMMA AirInitially == Init => AirInv
<1> SUFFICES ASSUME Init PROVE AirInv
  OBVIOUS
<1>1. radio \in [key : OwnKeys, pact : AirPacts, on : {"on", "off"}]
  <2>1. CASE Use("air")
    BY <2>1 DEF Init, AirInit
  <2>2. CASE ~Use("air")
    <3>1. (CHOOSE k \in OwnKeys : TRUE) \in OwnKeys /\ (CHOOSE t \in AirPacts : TRUE) \in AirPacts
      BY BroadcastsAssumption
    <3> QED BY <3>1, <2>2 DEF Init, AirStill
  <2> QED BY <2>1, <2>2
<1>2. Entry(radio) \in Frame /\ Entry(radio).key = radio.key
  BY <1>1, EntryOfRadio
<1>3. last = record /\ aired = Entry(radio) /\ heard = aired /\ mine = FALSE
  BY DEF Init, AirInit, AirStill
<1>4. \/ record = <<>> \/ record = <<Entry(radio)>>
      \/ \E e \in Frame : e.key # radio.key /\ record = <<e, Entry(radio)>>
  <2>1. CASE Use("air")
    <3>1. \A k \in ForeignKeys, t \in AirPacts : [key |-> k, pact |-> t, on |-> "on"] \in Frame
      BY DEF Frame
    <3> QED BY <3>1, <2>1 DEF Init, AirInit
  <2>2. CASE ~Use("air")
    BY <2>2 DEF Init, AirStill
  <2> QED BY <2>1, <2>2
<1>5. Keyed(record)
  <2>1. CASE record = <<>>
    BY <2>1 DEF Keyed
  <2>2. CASE record = <<Entry(radio)>>
    BY <2>2, <1>2 DEF Keyed
  <2>3. ASSUME NEW e \in Frame, e.key # radio.key, record = <<e, Entry(radio)>> PROVE Keyed(record)
    BY <2>3, <1>2 DEF Keyed
  <2> QED BY <1>4, <2>1, <2>2, <2>3
<1>6. aired.key = radio.key /\ radio.key \in HeldKeys(record) => aired \in Entries(record)
  BY <1>2, <1>3, <1>4 DEF HeldKeys, Entries
<1> QED BY <1>1, <1>2, <1>3, <1>5, <1>6 DEF AirInv

\* The Device takes in a record the scanner has merged.
LEMMA IngestKeeps ==
    ASSUME NEW r, Keyed(r), NEW own \in Frame, AirInv,
           own.key = radio.key /\ radio.key \in HeldKeys(r) => own \in Entries(r),
           HeldKeys(record) \subseteq HeldKeys(r),
           mine => own.key = radio.key,
           Ingest(r, own)
    PROVE  /\ last' = r /\ heard' = own
           /\ mine' => /\ own.key = radio.key /\ radio.key \in HeldKeys(r)
                       /\ latest' = radio.key /\ own \in Entries(r)
<1> DEFINE keys == ChangedKeys(r, last)
<1>1. /\ latest' = LatestGoveeKey(r, last, latest) /\ last' = r /\ heard' = own
      /\ mine' = CASE keys = {radio.key} -> own.key = radio.key
                   [] keys = {} -> mine
                   [] OTHER -> FALSE
  BY DEF Ingest, ChangedKeys, Changed
<1>2. /\ keys = {radio.key} => latest' = radio.key
      /\ keys = {} => latest' = latest
  BY <1>1, LatestFacts
<1>3. keys \subseteq HeldKeys(r)
  BY DEF ChangedKeys, Changed, HeldKeys, Entries
<1> HIDE DEF keys
<1>4. CASE keys = {radio.key}
  BY <1>1, <1>2, <1>3, <1>4
<1>5. CASE keys = {} /\ keys # {radio.key}
  <2>1. mine' = mine
    BY <1>1, <1>5
  <2> QED BY <1>1, <1>2, <1>5, <2>1 DEF AirInv
<1>6. CASE keys # {} /\ keys # {radio.key}
  BY <1>1, <1>6
<1> QED BY <1>4, <1>5, <1>6

LEMMA HeardKeeps ==
    ASSUME AirInv, NEW e \in Frame, NEW own \in Frame,
           own.key = radio.key => IF e.key = radio.key THEN e = own ELSE own = aired,
           mine => own.key = radio.key,
           Heard(e, own)
    PROVE  AirInv'
<1> DEFINE r == Merge(record, e)
<1>1. Keyed(r) /\ Entries(r) = {x \in Entries(record) : x.key # e.key} \cup {e}
      /\ HeldKeys(r) = HeldKeys(record) \cup {e.key}
  BY MergeFacts DEF AirInv
<1>2. record' = r /\ aired' = own /\ UNCHANGED radio
  BY DEF Heard
<1> HIDE DEF r
<1>3. own.key = radio.key /\ radio.key \in HeldKeys(r) => own \in Entries(r)
  BY <1>1 DEF AirInv
<1>4. CASE Ingest(r, own)
  <2>1. /\ last' = r /\ heard' = own
        /\ mine' => /\ own.key = radio.key /\ radio.key \in HeldKeys(r)
                    /\ latest' = radio.key /\ own \in Entries(r)
    BY <1>1, <1>3, <1>4, IngestKeeps
  <2> QED BY <1>1, <1>2, <1>3, <2>1 DEF AirInv
<1>5. CASE UNCHANGED <<profile, last, latest, known, heard, mine>>
  BY <1>1, <1>2, <1>3, <1>5 DEF AirInv
<1> QED BY <1>4, <1>5 DEF Heard, r

\* No other step is about the air, or changes the profile or the device looked at.
LEMMA OthersKeepAir == Next /\ ~Air => UNCHANGED <<profile, airVars, inst>>
<1> SUFFICES ASSUME Next, ~Air PROVE UNCHANGED <<profile, airVars, inst>>
  OBVIOUS
<1>1. ASSUME NEW t \in Tasks, Update(t) PROVE UNCHANGED <<profile, airVars, inst>>
  BY <1>1 DEF Update
<1>2. ASSUME NEW t \in Tasks, NEW name \in Names, SetSceneByName(t, name) PROVE UNCHANGED <<profile, airVars, inst>>
  BY <1>2 DEF SetSceneByName
<1>3. ASSUME NEW t, NEW answer, Replied(t, answer) PROVE UNCHANGED <<profile, airVars, inst>>
  BY <1>3 DEF Replied
<1>4. ASSUME NEW t \in Tasks, Answered(t) \/ Unanswered(t) \/ LateTaken(t) PROVE UNCHANGED <<profile, airVars, inst>>
  BY <1>4, <1>3 DEF Answered, Unanswered, LateTaken
<1>5. ASSUME NEW t \in Tasks, Fails(t) PROVE UNCHANGED <<profile, airVars, inst>>
  BY <1>5 DEF Fails
<1>6. ASSUME NEW t \in Tasks, PlayScene(t) PROVE UNCHANGED <<profile, airVars, inst>>
  BY <1>6 DEF PlayScene
<1>7. ASSUME NEW f \in Fields, SetField(f) \/ Touch(f) PROVE UNCHANGED <<profile, airVars, inst>>
  BY <1>7 DEF SetField, Touch, Touched
<1>8. ASSUME NEW s \in DOMAIN dev.piece, SetPiece(s) \/ TouchPiece(s) PROVE UNCHANGED <<profile, airVars, inst>>
  BY <1>8 DEF SetPiece, TouchPiece, Touched
<1>9. ASSUME EnsureSegmentCount \/ LookUp \/ Shelf PROVE UNCHANGED <<profile, airVars, inst>>
  BY <1>9 DEF EnsureSegmentCount, LookUp, Shelf
<1> QED BY <1>1, <1>2, <1>4, <1>5, <1>6, <1>7, <1>8, <1>9 DEF Next

LEMMA AirStep == AirInv /\ [Next]_vars => AirInv'
<1> SUFFICES ASSUME AirInv, [Next]_vars PROVE AirInv'
  OBVIOUS
<1>1. ASSUME UNCHANGED airVars PROVE AirInv'
  BY <1>1 DEF AirInv, airVars
<1>2. ASSUME OwnFrame PROVE AirInv'
  <2>1. Entry(radio) \in Frame /\ Entry(radio).key = radio.key
    BY EntryOfRadio DEF AirInv
  <2> QED BY <1>2, <2>1, HeardKeeps DEF OwnFrame
<1>3. ASSUME NEW k \in ForeignKeys, NEW pact \in AirPacts, NEW on \in {"on", "off"},
             ForeignFrame(k, pact, on)
      PROVE  AirInv'
  <2> DEFINE e == [key |-> k, pact |-> pact, on |-> on]
  <2>1. e \in Frame /\ e.key = k /\ k # radio.key
    BY <1>3 DEF Frame, ForeignFrame
  <2>2. Heard(e, aired)
    BY <1>3 DEF ForeignFrame
  <2> HIDE DEF e
  <2>3. aired \in Frame /\ (mine => aired.key = radio.key)
    BY DEF AirInv
  <2> QED BY <2>1, <2>2, <2>3, HeardKeeps
<1>4. ASSUME Switch PROVE AirInv'
  BY <1>4 DEF Switch, AirInv
<1>5. ASSUME NEW k \in OwnKeys, NEW pact \in AirPacts, NewHeader(k, pact) PROVE AirInv'
  <2>1. radio' \in [key : OwnKeys, pact : AirPacts, on : {"on", "off"}] /\ radio'.key = k
    BY <1>5 DEF NewHeader, AirInv
  <2> QED BY <1>5, <2>1 DEF NewHeader, AirInv
<1>6. CASE Air
  BY <1>2, <1>3, <1>4, <1>5, <1>6 DEF Air
<1>7. CASE Next /\ ~Air
  <2>1. UNCHANGED airVars
    BY <1>7, OthersKeepAir
  <2> QED BY <2>1, <1>1
<1>8. CASE UNCHANGED vars
  BY <1>8, <1>1 DEF vars
<1> QED BY <1>6, <1>7, <1>8

LEMMA AirShows == AirInv => AdvertOwn
<1> SUFFICES ASSUME AirInv, mine, Header[radio.key].signed >= 2, ~profile.lightSwitch
             PROVE  AdvertisedOn(profile, last, latest) = heard.on
  BY DEF AdvertOwn
<1> DEFINE one == <<heard>>
<1>1. heard \in Frame /\ heard.key = radio.key /\ heard.on # "none"
  BY DEF AirInv, Frame
<1>2. latest \in HeldKeys(last) /\ EntryOf(last, latest) = heard
  BY EntryFacts DEF AirInv
<1>3. AdvertisedOn(profile, last, latest) = ParseBroadcastOnOff(one)
  BY <1>2 DEF AdvertisedOn
<1>4. Keyed(one) /\ Entries(one) = {heard}
  BY <1>1 DEF Keyed, Entries
<1> HIDE DEF one
<1>5. Switched(one) = {heard}
  BY <1>1, <1>4 DEF Switched
<1>6. First(one, {heard}) = {heard}
  BY <1>4, FirstFacts
<1>7. (CHOOSE e \in {heard} : TRUE) = heard
  OBVIOUS
<1> QED BY <1>3, <1>5, <1>6, <1>7 DEF ParseBroadcastOnOff

\* The on/off read from an advertisement is the device's own, whatever records the scanner merges
\* and in whichever order the frames of the device, of others and of a new header come.
THEOREM AdvertOwnAlways == Spec => []AdvertOwn
<1>1. Init => AirInv
  BY AirInitially
<1>2. AirInv /\ [Next]_vars => AirInv'
  BY AirStep
<1>3. AirInv => AdvertOwn
  BY AirShows
<1> QED BY <1>1, <1>2, <1>3, PTL DEF Spec

-----------------------------------------------------------------------------
(* The walk's arithmetic.                                                  *)

LEMMA MinMax ==
    ASSUME NEW x \in Int, NEW y \in Int
    PROVE  /\ AtMost(x, y) \in Int /\ AtMost(x, y) <= x /\ AtMost(x, y) <= y
           /\ AtMost(x, y) = x \/ AtMost(x, y) = y
           /\ AtLeast(x, y) \in Int /\ AtLeast(x, y) >= x /\ AtLeast(x, y) >= y
           /\ AtLeast(x, y) = x \/ AtLeast(x, y) = y
<1>1. \E v \in {x, y} : \A w \in {x, y} : v =< w
  OBVIOUS
<1>2. Min({x, y}) \in {x, y} /\ \A w \in {x, y} : Min({x, y}) =< w
  BY <1>1 DEF Min
<1>3. \E v \in {x, y} : \A w \in {x, y} : v >= w
  OBVIOUS
<1>4. Max({x, y}) \in {x, y} /\ \A w \in {x, y} : Max({x, y}) >= w
  BY <1>3 DEF Max
<1> QED BY <1>2, <1>4 DEF AtMost, AtLeast

LEMMA MaxOf ==
    ASSUME NEW n \in Nat, NEW S \in SUBSET (1 .. n), S # {}
    PROVE  Max(S) \in S /\ \A j \in S : Max(S) >= j
<1> DEFINE T == {n - i : i \in S}
<1>1. T # {} /\ T \in SUBSET Nat
  <2>1. \A i \in S : n - i \in Nat /\ n - i \in T
    OBVIOUS
  <2>2. \A x \in T : \E i \in S : x = n - i
    OBVIOUS
  <2> HIDE DEF T
  <2> QED BY <2>1, <2>2
<1>2. PICK m \in T : \A j \in T : m <= j
  BY <1>1, LeastOf
<1>3. PICK k \in S : m = n - k
  BY <1>2
<1>4. \A j \in S : k >= j
  <2> SUFFICES ASSUME NEW j \in S PROVE k >= j
    OBVIOUS
  <2>1. n - j \in T
    OBVIOUS
  <2>2. n - k <= n - j
    BY <1>2, <1>3, <2>1
  <2>3. k \in Int /\ j \in Int
    OBVIOUS
  <2> HIDE DEF T
  <2> QED BY <2>2, <2>3
<1>5. \E v \in S : \A j \in S : v >= j
  BY <1>4
<1> QED BY <1>5 DEF Max

LEMMA MinOf ==
    ASSUME NEW S \in SUBSET Nat, S # {}
    PROVE  Min(S) \in S /\ \A j \in S : Min(S) <= j
<1>1. \E i \in S : \A j \in S : i =< j
  BY LeastOf
<1> QED BY <1>1 DEF Min

LEMMA GroupsFacts ==
    ASSUME NEW total \in Int, NEW size \in Nat \ {0}
    PROVE  Groups(total, size) \in Int /\ (total >= 0 => Groups(total, size) \in Nat)
<1>1. total + size - 1 \in Int
  OBVIOUS
<1>2. \A a \in Int : a \div size \in Int /\ (a >= 0 => a \div size >= 0)
  OBVIOUS
<1> QED BY <1>1, <1>2 DEF Groups

LEMMA BaseFacts ==
    ASSUME NEW g \in Int, NEW size \in Nat \ {0}
    PROVE  GroupBaseIndex(g, size) \in Int /\ (g >= 1 => GroupBaseIndex(g, size) >= 0)
<1>1. g - 1 \in Int /\ size \in Int /\ (g >= 1 => g - 1 >= 0)
  OBVIOUS
<1>2. \A a, b \in Int : a * b \in Int /\ (a >= 0 /\ b >= 0 => a * b >= 0)
  OBVIOUS
<1> QED BY <1>1, <1>2 DEF GroupBaseIndex

\* The first n items of a sequence, for an n of any sign.
LEMMA FirstOf ==
    ASSUME NEW S, NEW q \in Seq(S), NEW n \in Int, n <= Len(q)
    PROVE  /\ SubSeq(q, 1, n) \in Seq(S)
           /\ DOMAIN SubSeq(q, 1, n) \subseteq DOMAIN q
           /\ \A k \in DOMAIN SubSeq(q, 1, n) : k <= n /\ SubSeq(q, 1, n)[k] = q[k]
<1>1. SubSeq(q, 1, n) = [i \in 1 .. (1 + n - 1) |-> q[i + 1 - 1]]
  OBVIOUS
<1>2. 1 + n - 1 = n
  OBVIOUS
<1>3. SubSeq(q, 1, n) = [i \in 1 .. n |-> q[i]]
  BY <1>1, <1>2
<1>4. \A i \in 1 .. n : i \in DOMAIN q /\ q[i] \in S
  OBVIOUS
<1>5. CASE n >= 0
  <2>1. [i \in 1 .. n |-> q[i]] \in Seq(S)
    BY <1>4, <1>5
  <2> QED BY <1>3, <1>4, <2>1
<1>6. CASE n < 0
  <2>1. 1 .. n = {} /\ 1 .. 0 = {}
    BY <1>6
  <2>2. [i \in 1 .. n |-> q[i]] = [i \in 1 .. 0 |-> q[i]]
    BY <2>1
  <2>3. [i \in 1 .. 0 |-> q[i]] \in Seq(S)
    BY <2>1
  <2> QED BY <1>3, <1>4, <2>2, <2>3
<1> QED BY <1>5, <1>6

-----------------------------------------------------------------------------
(* Pieces.  A record is right for segment s when it is of the piece s and  *)
(* not older than the version a setter left there.                         *)

Rec == [piece : Int, ver : Nat]
Group == [group : Int, records : Seq(Rec)]

RecordOk(a, s, x) == s \in DOMAIN a /\ x.piece = s /\ x.ver \in Nat /\ x.ver >= a[s]
GroupOk(a, size, g) ==
    g.group >= 1 => \A k \in DOMAIN g.records : RecordOk(a, GroupBaseIndex(g.group, size) + k - 1, g.records[k])
SegsOk(a, segs) == \A s \in DOMAIN segs : RecordOk(a, s, segs[s])

LEMMA PieceFacts ==
    ASSUME NEW n \in Nat, NEW d, d.piece \in [0 .. n - 1 -> Nat], NEW s \in Int
    PROVE  /\ PieceAt(d, s) \in Rec /\ PieceAt(d, s).piece = s
           /\ s \in 0 .. n - 1 => PieceAt(d, s).ver = d.piece[s]
BY DEF PieceAt, Rec

LEMMA GroupAtFacts ==
    ASSUME NEW n \in Nat, NEW d, d.piece \in [0 .. n - 1 -> Nat], NEW g \in Int, NEW size \in Nat \ {0}
    PROVE  /\ GroupAt(d, g, size) \in Group /\ GroupAt(d, g, size).group = g
           /\ Len(GroupAt(d, g, size).records) = size
           /\ \A k \in 1 .. size : GroupAt(d, g, size).records[k] = PieceAt(d, GroupBaseIndex(g, size) + k - 1)
<1> DEFINE at(k) == PieceAt(d, GroupBaseIndex(g, size) + k - 1)
<1>1. \A k \in 1 .. size : at(k) \in Rec
  <2> SUFFICES ASSUME NEW k \in 1 .. size PROVE at(k) \in Rec
    OBVIOUS
  <2>1. GroupBaseIndex(g, size) + k - 1 \in Int
    BY BaseFacts
  <2> QED BY <2>1, PieceFacts
<1>2. GroupAt(d, g, size) = [group |-> g, records |-> [k \in 1 .. size |-> at(k)]]
  BY DEF GroupAt
<1> HIDE DEF at
<1>3. [k \in 1 .. size |-> at(k)] \in Seq(Rec) /\ Len([k \in 1 .. size |-> at(k)]) = size
  BY <1>1
<1> QED BY <1>2, <1>3 DEF Group, at

\* The segments of several groups are right when every group's records are.
LEMMA WalkedOk ==
    ASSUME NEW a, NEW n \in Nat, NEW size \in Nat \ {0}, NEW groups, DOMAIN groups \subseteq 1 .. n,
           \A i \in DOMAIN groups : groups[i] \in Group /\ GroupOk(a, size, groups[i])
    PROVE  SegsOk(a, GroupsToSegments(groups, size))
<1> DEFINE named == {i \in DOMAIN groups : groups[i].group >= 1}
           at(i) == Placed(groups[i], size)
           base(i) == GroupBaseIndex(groups[i].group, size)
           lastOf(s) == Max({i \in named : s \in DOMAIN at(i)})
           segs == GroupsToSegments(groups, size)
<1>1. segs = [s \in UNION {DOMAIN at(i) : i \in named} |-> at(lastOf(s))[s]]
  BY DEF GroupsToSegments
<1>2. ASSUME NEW s \in DOMAIN segs PROVE RecordOk(a, s, segs[s])
  <2> DEFINE hits == {i \in named : s \in DOMAIN at(i)}
  <2>1. hits # {} /\ hits \in SUBSET (1 .. n) /\ segs[s] = at(lastOf(s))[s]
    BY <1>1
  <2>2. lastOf(s) \in hits
    BY <2>1, MaxOf
  <2> HIDE DEF lastOf
  <2> DEFINE i == lastOf(s)
  <2>3. i \in named /\ s \in DOMAIN at(i)
    BY <2>2
  <2>4. groups[i] \in Group /\ groups[i].group \in Int /\ groups[i].group >= 1 /\ GroupOk(a, size, groups[i])
    BY <2>3 DEF Group
  <2>5. groups[i].records \in Seq(Rec) /\ base(i) \in Int
    BY <2>4, BaseFacts DEF Group
  <2>6. at(i) = [x \in {base(i) + k - 1 : k \in DOMAIN groups[i].records} |-> groups[i].records[x - base(i) + 1]]
    BY DEF Placed
  <2>7. PICK k \in DOMAIN groups[i].records : s = base(i) + k - 1
    BY <2>3, <2>6
  <2>8. at(i)[s] = groups[i].records[s - base(i) + 1]
    BY <2>3, <2>6
  <2> HIDE DEF at, base
  <2>9. k \in Int
    BY <2>5, <2>7
  <2>10. s - base(i) + 1 = k
    <3> HIDE DEF i
    <3> QED BY <2>5, <2>7, <2>9
  <2>11. RecordOk(a, base(i) + k - 1, groups[i].records[k])
    BY <2>4, <2>7 DEF GroupOk, base
  <2>12. segs[s] = groups[i].records[k]
    BY <2>1, <2>8, <2>10
  <2> HIDE DEF segs, i
  <2> QED BY <2>7, <2>11, <2>12
<1> QED BY <1>2 DEF SegsOk

\* The first records of a group are right when all of them are.
LEMMA CutOk ==
    ASSUME NEW a, NEW size \in Nat \ {0}, NEW g \in Group, NEW n \in Int, n <= Len(g.records),
           NEW r, r = [group |-> g.group, records |-> SubSeq(g.records, 1, n)]
    PROVE  /\ r \in Group
           /\ GroupOk(a, size, g) => GroupOk(a, size, r)
           /\ \A k \in DOMAIN r.records : k \in DOMAIN g.records /\ k <= n /\ r.records[k] = g.records[k]
<1>1. g.records \in Seq(Rec) /\ g.group \in Int
  BY DEF Group
<1>2. /\ r.group = g.group /\ r.records \in Seq(Rec)
      /\ \A k \in DOMAIN r.records : k \in DOMAIN g.records /\ k <= n /\ r.records[k] = g.records[k]
  BY <1>1, FirstOf
<1>3. r \in Group
  BY <1>1, <1>2 DEF Group
<1> QED BY <1>2, <1>3 DEF GroupOk

\* A group's records as the device gives them: beyond its pieces, the version 0.
Padded(a) == [s \in Nat |-> IF s \in DOMAIN a THEN a[s] ELSE 0]

LEMMA GivenOk ==
    ASSUME NEW n \in Nat, NEW d, d.piece \in [0 .. n - 1 -> Nat], NEW a \in [0 .. n - 1 -> Nat],
           \A s \in 0 .. n - 1 : a[s] <= d.piece[s],
           NEW g \in Int, NEW size \in Nat \ {0}
    PROVE  LET v == GroupAt(d, g, size)
           IN  v \in Group /\ v.group = g /\ GroupOk(Padded(a), size, v)
<1> DEFINE group == GroupAt(d, g, size)
<1>0. /\ group.group = g /\ group \in Group /\ Len(group.records) = size
      /\ \A k \in 1 .. size : group.records[k] = PieceAt(d, GroupBaseIndex(g, size) + k - 1)
  BY GroupAtFacts
<1> HIDE DEF group
<1> SUFFICES ASSUME g >= 1, NEW k \in 1 .. size
             PROVE  RecordOk(Padded(a), GroupBaseIndex(g, size) + k - 1, group.records[k])
  <2>1. DOMAIN group.records = 1 .. size
    BY <1>0 DEF Group
  <2>2. GroupOk(Padded(a), size, group) = (g >= 1 => \A k \in 1 .. size : RecordOk(Padded(a), GroupBaseIndex(g, size) + k - 1, group.records[k]))
    BY <1>0, <2>1 DEF GroupOk
  <2> QED BY <1>0, <2>2 DEF group
<1> DEFINE s == GroupBaseIndex(g, size) + k - 1
<1>1. s \in Nat
  BY BaseFacts
<1>2. group.records[k] = PieceAt(d, s)
  BY <1>0
<1> HIDE DEF s, group
<1>3. PieceAt(d, s) \in Rec /\ PieceAt(d, s).piece = s /\ (s \in 0 .. n - 1 => PieceAt(d, s).ver = d.piece[s])
  BY <1>1, PieceFacts
<1>4. Padded(a)[s] = IF s \in 0 .. n - 1 THEN a[s] ELSE 0
  BY <1>1 DEF Padded
<1>5. PieceAt(d, s).ver \in Nat /\ PieceAt(d, s).ver >= Padded(a)[s]
  BY <1>3, <1>4 DEF Rec
<1>6. s \in DOMAIN Padded(a)
  BY <1>1 DEF Padded
<1>7. RecordOk(Padded(a), s, group.records[k])
  BY <1>2, <1>3, <1>5, <1>6 DEF RecordOk
<1> QED BY <1>7 DEF s

\* The group a walk keeps of a reply: its records are the device's pieces, the filling is not.
LEMMA KeptOk ==
    ASSUME NEW n \in Nat, NEW d, d.piece \in [0 .. n - 1 -> Nat], NEW a \in [0 .. n - 1 -> Nat],
           \A s \in 0 .. n - 1 : a[s] <= d.piece[s],
           NEW g \in Int, NEW size \in Nat \ {0}, NEW total \in Int, total <= n,
           NEW kept, kept = [group |-> g, records |-> Trimmed(GroupAt(d, g, size).records, total, size, g)]
    PROVE  kept \in Group /\ GroupOk(a, size, kept)
<1> DEFINE group == GroupAt(d, g, size)
           base == GroupBaseIndex(g, size)
           left == AtMost(size, total - base)
           most == AtMost(Len(group.records), AtLeast(left, 0))
<1>1. group \in Group /\ group.group = g /\ Len(group.records) = size
  BY GroupAtFacts
<1>2. base \in Int /\ (g >= 1 => base >= 0)
  BY BaseFacts
<1>3. kept = [group |-> g, records |-> SubSeq(group.records, 1, most)]
  BY DEF Trimmed, Expected, GroupBaseIndex
<1> HIDE DEF group, base
<1>4. left \in Int /\ left <= size /\ left <= total - base
  <2>1. total - base \in Int /\ size \in Int
    BY <1>2
  <2> QED BY <2>1, MinMax
<1> HIDE DEF left
<1>5. AtLeast(left, 0) \in Int /\ (AtLeast(left, 0) = left \/ AtLeast(left, 0) = 0)
  BY <1>4, MinMax
<1>6. most \in Int /\ most <= Len(group.records) /\ most <= AtLeast(left, 0)
  BY <1>1, <1>5, MinMax
<1> HIDE DEF most
<1>10. kept = [group |-> group.group, records |-> SubSeq(group.records, 1, most)]
  BY <1>1, <1>3
<1>7. /\ kept \in Group /\ kept.group = g
      /\ GroupOk(Padded(a), size, group) => GroupOk(Padded(a), size, kept)
      /\ \A k \in DOMAIN kept.records : k \in DOMAIN group.records /\ k <= most
  <2>1. \A x : /\ kept \in Group
               /\ GroupOk(x, size, group) => GroupOk(x, size, kept)
               /\ \A k \in DOMAIN kept.records : k \in DOMAIN group.records /\ k <= most
    BY <1>1, <1>10, <1>6, CutOk
  <2>2. kept.group = g
    BY <1>1, <1>10
  <2>3. GroupOk(Padded(a), size, group) => GroupOk(Padded(a), size, kept)
    BY <2>1
  <2> QED BY <2>1, <2>2, <2>3
<1>8. GroupOk(Padded(a), size, kept)
  BY <1>7, GivenOk DEF group
<1>9. ASSUME g >= 1, NEW k \in DOMAIN kept.records PROVE RecordOk(a, base + k - 1, kept.records[k])
  <2> DEFINE s == base + k - 1
  <2>1. RecordOk(Padded(a), s, kept.records[k])
    BY <1>7, <1>8, <1>9 DEF GroupOk, base
  <2>2. k \in 1 .. size
    BY <1>1, <1>7, <1>9 DEF Group
  <2>3. s \in 0 .. n - 1
    <3>1. k \in Int /\ k >= 1 /\ k <= most
      BY <1>7, <1>9, <2>2
    <3>2. k <= AtLeast(left, 0)
      BY <3>1, <1>5, <1>6
    <3>3. k <= total - base
      BY <3>1, <3>2, <1>2, <1>4, <1>5
    <3>4. base \in Int /\ base >= 0
      BY <1>2, <1>9
    <3>5. s \in Int /\ s >= 0
      BY <3>1, <3>4
    <3>6. s <= total - 1
      BY <3>1, <3>3, <3>4
    <3>7. s <= n - 1
      BY <3>5, <3>6
    <3> HIDE DEF s
    <3> QED BY <3>5, <3>7
  <2> HIDE DEF s
  <2>4. s \in DOMAIN a /\ Padded(a)[s] = a[s]
    BY <2>3 DEF Padded
  <2>5. RecordOk(a, s, kept.records[k])
    BY <2>1, <2>4 DEF RecordOk
  <2> QED BY <2>5 DEF s
<1> QED BY <1>7, <1>9 DEF GroupOk, base

-----------------------------------------------------------------------------
(* The status reply.                                                       *)

\* The TLVs of a reply are of the device: its switch, brightness and mode, and groups of its pieces.
Told(d, size, tlv) ==
    /\ tlv.tag = "switch" => tlv.value = d.power
    /\ tlv.tag = "brightness" => tlv.value = d.level
    /\ tlv.tag = "mode" => tlv.value = d.mode
    /\ tlv.tag = "basic" => tlv.value.soft = inst.soft /\ tlv.value.hard = inst.hard
    /\ tlv.tag = "group" => \E g \in Nat \ {0} : tlv.value = GroupAt(d, g, size)

LEMMA StreamFacts ==
    ASSUME inst.count \in Nat, NEW d, NEW p, p.decode.size \in Nat \ {0}, NEW asked
    PROVE  /\ Len(Stream(d, p, asked)) \in Nat /\ DOMAIN Stream(d, p, asked) = 1 .. Len(Stream(d, p, asked))
           /\ \A i \in DOMAIN Stream(d, p, asked) : Told(d, p.decode.size, Stream(d, p, asked)[i])
           /\ Tagged(Stream(d, p, asked), "switch") # {}
           /\ Tagged(Stream(d, p, asked), "brightness") # {}
           /\ Tagged(Stream(d, p, asked), "mode") # {}
<1> DEFINE m == Groups(inst.count, p.decode.size)
           basic == Tlv("basic", [serial |-> "sn", soft |-> inst.soft, hard |-> inst.hard])
           group(g) == Tlv("group", GroupAt(d, g, p.decode.size))
           T == {Tlv("switch", d.power), Tlv("brightness", d.level), Tlv("mode", d.mode), basic}
                    \cup {group(g) : g \in 1 .. m}
           A == <<Tlv("switch", d.power), Tlv("brightness", d.level), Tlv("mode", d.mode)>>
           B == IF p.infoReads THEN <<>> ELSE <<basic>>
           C == IF ColorGroupType \notin asked THEN <<>> ELSE [g \in 1 .. m |-> group(g)]
<1>1. Stream(d, p, asked) = A \o B \o C
  BY DEF Stream
<1>2. m \in Nat
  BY GroupsFacts
<1> HIDE DEF m
<1>3. \A x \in T : Told(d, p.decode.size, x)
  <2>1. \A g \in 1 .. m : Told(d, p.decode.size, group(g))
    <3>1. \A g \in 1 .. m : g \in Nat \ {0}
      BY <1>2
    <3> QED BY <3>1 DEF Told, Tlv
  <2>2. \A x \in {Tlv("switch", d.power), Tlv("brightness", d.level), Tlv("mode", d.mode), basic} :
            Told(d, p.decode.size, x)
    BY DEF Told, Tlv
  <2> HIDE DEF group, basic
  <2> QED BY <2>1, <2>2
<1>4. A \in Seq(T) /\ Len(A) = 3 /\ A[1] = Tlv("switch", d.power) /\ A[2] = Tlv("brightness", d.level)
      /\ A[3] = Tlv("mode", d.mode)
  OBVIOUS
<1>5. B \in Seq(T)
  <2>1. basic \in T
    OBVIOUS
  <2> HIDE DEF T, basic
  <2> QED BY <2>1
<1>6. C \in Seq(T)
  <2>1. \A g \in 1 .. m : group(g) \in T
    OBVIOUS
  <2> HIDE DEF T, group
  <2>2. [g \in 1 .. m |-> group(g)] \in Seq(T)
    BY <1>2, <2>1
  <2>3. <<>> \in Seq(T)
    OBVIOUS
  <2> QED BY <2>2, <2>3
<1> HIDE DEF A, B, C, T
<1>7. A \o B \in Seq(T) /\ Len(A \o B) = 3 + Len(B) /\ \A i \in 1 .. 3 : (A \o B)[i] = A[i]
  <2>1. /\ A \o B \in Seq(T) /\ Len(A \o B) = Len(A) + Len(B)
        /\ \A i \in 1 .. Len(A) + Len(B) : (A \o B)[i] = IF i <= Len(A) THEN A[i] ELSE B[i - Len(A)]
    BY <1>4, <1>5, ConcatProperties
  <2>2. Len(A) = 3 /\ Len(B) \in Nat
    BY <1>4, <1>5
  <2> QED BY <2>1, <2>2
<1>8. /\ (A \o B) \o C \in Seq(T) /\ Len((A \o B) \o C) = Len(A \o B) + Len(C)
      /\ \A i \in 1 .. 3 : ((A \o B) \o C)[i] = A[i]
  <2> DEFINE D == A \o B
  <2>1. D \in Seq(T) /\ Len(D) = 3 + Len(B) /\ Len(B) \in Nat /\ Len(C) \in Nat /\ \A i \in 1 .. 3 : D[i] = A[i]
    BY <1>5, <1>6, <1>7
  <2> HIDE DEF D
  <2>2. /\ D \o C \in Seq(T) /\ Len(D \o C) = Len(D) + Len(C)
        /\ \A i \in 1 .. Len(D) + Len(C) : (D \o C)[i] = IF i <= Len(D) THEN D[i] ELSE C[i - Len(D)]
    BY <1>6, <2>1, ConcatProperties
  <2>3. \A i \in 1 .. 3 : (D \o C)[i] = A[i]
    BY <2>1, <2>2
  <2> QED BY <2>2, <2>3 DEF D
<1> DEFINE s == Stream(d, p, asked)
<1>9. /\ s \in Seq(T) /\ Len(s) \in Nat /\ Len(s) >= 3 /\ DOMAIN s = 1 .. Len(s)
      /\ s[1] = A[1] /\ s[2] = A[2] /\ s[3] = A[3]
  BY <1>1, <1>5, <1>6, <1>7, <1>8
<1> HIDE DEF s
<1>10. \A i \in DOMAIN s : s[i] \in T
  BY <1>9
<1>11. 1 \in DOMAIN s /\ 2 \in DOMAIN s /\ 3 \in DOMAIN s
  BY <1>9
<1>12. s[1].tag = "switch" /\ s[2].tag = "brightness" /\ s[3].tag = "mode"
  BY <1>4, <1>9 DEF Tlv
<1>13. 1 \in Tagged(s, "switch") /\ 2 \in Tagged(s, "brightness") /\ 3 \in Tagged(s, "mode")
  BY <1>11, <1>12 DEF Tagged
<1> QED BY <1>3, <1>9, <1>10, <1>13 DEF s

\* What a status reply says of the device: its power, level and mode, and pieces it has.
LEMMA StatusOk ==
    ASSUME NEW n \in Nat, inst.count = n, NEW d, d.piece \in [0 .. n - 1 -> Nat], NEW a \in [0 .. n - 1 -> Nat],
           \A s \in 0 .. n - 1 : a[s] <= d.piece[s],
           NEW p, p.decode.size \in Nat \ {0}, NEW asked, NEW pieces_ \in Int,
           p.decode.groups => pieces_ \in 1 .. n,
           NEW st \in ParseStatus(Stream(d, p, asked), TRUE, FALSE, p.decode, pieces_)
    PROVE  /\ st.on = d.power /\ st.level = d.level /\ st.mode = d.mode /\ SegsOk(a, st.segments)
           /\ st.versions.soft \in {0, inst.soft} /\ st.versions.hard \in {0, inst.hard}
<1> DEFINE tlvs == Stream(d, p, asked)
           size == p.decode.size
           form == GroupForm(p.decode, pieces_)
           placed(t) == t.tag = "group" /\ p.decode.groups /\ GroupPlaced(t.value, form)
           J == {j \in DOMAIN tlvs : placed(tlvs[j])}
           groups == [i \in J |-> ColorGroup(tlvs[i].value, form)]
           segments == GroupsToSegments(groups, size)
           within == IF form.pieces = 0 THEN DOMAIN segments ELSE {s \in DOMAIN segments : s < form.pieces}
           read == [on |-> LastOf(tlvs, "switch", FALSE), level |-> LastOf(tlvs, "brightness", SuccessBrightness),
                    mode |-> LastOf(tlvs, "mode", "unknown"),
                    zones |-> IF p.decode.zones THEN LastOf(tlvs, "zones", <<>>) ELSE <<>>,
                    segments |-> [s \in within |-> segments[s]],
                    serial |-> SerialOf(tlvs), versions |-> VersionsOf(tlvs), mac |-> LastOf(tlvs, "wifi", Unset)]
<1>0. ParseStatus(tlvs, TRUE, FALSE, p.decode, pieces_) \subseteq {read}
  BY DEF ParseStatus
<1>1. /\ st.on = LastOf(tlvs, "switch", FALSE) /\ st.level = LastOf(tlvs, "brightness", SuccessBrightness)
      /\ st.mode = LastOf(tlvs, "mode", "unknown") /\ st.segments = [s \in within |-> segments[s]]
      /\ st.versions = VersionsOf(tlvs)
  <2>1. st = read
    BY <1>0
  <2> HIDE DEF segments, within, tlvs
  <2> QED BY <2>1
<1>2. /\ Len(tlvs) \in Nat /\ DOMAIN tlvs = 1 .. Len(tlvs)
      /\ \A i \in DOMAIN tlvs : Told(d, size, tlvs[i])
      /\ Tagged(tlvs, "switch") # {} /\ Tagged(tlvs, "brightness") # {} /\ Tagged(tlvs, "mode") # {}
  BY StreamFacts
<1> HIDE DEF tlvs
<1>3. ASSUME NEW tag, Tagged(tlvs, tag) # {}
      PROVE  LET i == Max(Tagged(tlvs, tag)) IN i \in DOMAIN tlvs /\ tlvs[i].tag = tag /\ Told(d, size, tlvs[i])
  <2>1. Tagged(tlvs, tag) \in SUBSET (1 .. Len(tlvs))
    BY <1>2 DEF Tagged
  <2>2. Max(Tagged(tlvs, tag)) \in Tagged(tlvs, tag)
    BY <1>2, <1>3, <2>1, MaxOf
  <2> QED BY <1>2, <2>2 DEF Tagged
<1>4. LastOf(tlvs, "switch", FALSE) = d.power
  <2>1. LastOf(tlvs, "switch", FALSE) = tlvs[Max(Tagged(tlvs, "switch"))].value
    BY <1>2, Zenon DEF LastOf
  <2>2. tlvs[Max(Tagged(tlvs, "switch"))].tag = "switch" /\ Told(d, size, tlvs[Max(Tagged(tlvs, "switch"))])
    BY <1>2, <1>3
  <2> QED BY <2>1, <2>2 DEF Told
<1>5. LastOf(tlvs, "brightness", SuccessBrightness) = d.level
  <2>1. LastOf(tlvs, "brightness", SuccessBrightness) = tlvs[Max(Tagged(tlvs, "brightness"))].value
    BY <1>2, Zenon DEF LastOf
  <2>2. tlvs[Max(Tagged(tlvs, "brightness"))].tag = "brightness" /\ Told(d, size, tlvs[Max(Tagged(tlvs, "brightness"))])
    BY <1>2, <1>3
  <2> QED BY <2>1, <2>2 DEF Told
<1>6. LastOf(tlvs, "mode", "unknown") = d.mode
  <2>1. LastOf(tlvs, "mode", "unknown") = tlvs[Max(Tagged(tlvs, "mode"))].value
    BY <1>2, Zenon DEF LastOf
  <2>2. tlvs[Max(Tagged(tlvs, "mode"))].tag = "mode" /\ Told(d, size, tlvs[Max(Tagged(tlvs, "mode"))])
    BY <1>2, <1>3
  <2> QED BY <2>1, <2>2 DEF Told
<1>9. st.versions.soft \in {0, inst.soft} /\ st.versions.hard \in {0, inst.hard}
  <2> DEFINE none == [soft |-> 0, hard |-> 0]
             v == LastOf(tlvs, "basic", none)
  <2>1. VersionsOf(tlvs) = [soft |-> v.soft, hard |-> v.hard]
    BY DEF VersionsOf
  <2>2. v.soft \in {0, inst.soft} /\ v.hard \in {0, inst.hard}
    <3>1. CASE Tagged(tlvs, "basic") = {}
      <4>1. v = none
        BY <3>1 DEF LastOf
      <4> QED BY <4>1
    <3>2. CASE Tagged(tlvs, "basic") # {}
      <4>1. v = tlvs[Max(Tagged(tlvs, "basic"))].value
        BY <3>2 DEF LastOf
      <4>2. tlvs[Max(Tagged(tlvs, "basic"))].tag = "basic" /\ Told(d, size, tlvs[Max(Tagged(tlvs, "basic"))])
        BY <1>3, <3>2
      <4> HIDE DEF v
      <4> QED BY <4>1, <4>2 DEF Told
    <3> QED BY <3>1, <3>2
  <2> HIDE DEF v
  <2> QED BY <1>1, <2>1, <2>2
<1>8. ASSUME NEW g \in Int
      PROVE  LET v == GroupAt(d, g, size)
             IN  v \in Group /\ v.group = g /\ GroupOk(Padded(a), size, v)
  BY GivenOk
<1>7. SegsOk(a, st.segments)
  <2>1. groups = [i \in J |-> ColorGroup(tlvs[i].value, form)] /\ DOMAIN groups \subseteq 1 .. Len(tlvs)
        /\ \A i \in J : i \in DOMAIN tlvs /\ tlvs[i].tag = "group" /\ p.decode.groups
    BY <1>2
  <2>2. CASE ~p.decode.groups
    <3>1. \A i \in DOMAIN groups : FALSE
      BY <2>1, <2>2
    <3> HIDE DEF groups
    <3>2. SegsOk(a, segments)
      BY <1>2, <2>1, <3>1, WalkedOk
    <3> HIDE DEF segments
    <3> QED BY <1>1, <3>2 DEF SegsOk
  <2>3. CASE p.decode.groups
    <3>1. pieces_ \in 1 .. n /\ form = [rule |-> p.decode.rule, size |-> size, pieces |-> pieces_]
      BY <2>3 DEF GroupForm, None
    <3> HIDE DEF form
    <3>2. ASSUME NEW i \in J PROVE ColorGroup(tlvs[i].value, form) \in Group
                                   /\ GroupOk(Padded(a), size, ColorGroup(tlvs[i].value, form))
      <4>1. PICK g \in Nat \ {0} : tlvs[i].value = GroupAt(d, g, size)
        BY <1>2, <2>1 DEF Told
      <4>0. g \in Int /\ size \in Nat \ {0}
        OBVIOUS
      <4> HIDE DEF size
      <4> DEFINE v == GroupAt(d, g, size)
      <4>3. v \in Group /\ v.group = g /\ GroupOk(Padded(a), size, v)
        BY <4>0, <1>8
      <4> HIDE DEF v
      <4>2. v.records \in Seq(Rec) /\ Len(v.records) \in Int /\ v.group = g
        BY <4>3 DEF Group
      <4>4. Wanted(v, form) \in Int
        <5>1. (g - 1) * size \in Int
          BY <4>0, BaseFacts DEF GroupBaseIndex
        <5>2. form.pieces - (v.group - 1) * form.size \in Int /\ form.size \in Int
          BY <3>1, <4>0, <4>2, <5>1
        <5> QED BY <4>2, <5>2, Zenon DEF Wanted
      <4> DEFINE m == AtMost(Wanted(v, form), Len(v.records))
      <4>5. m \in Int /\ m <= Len(v.records)
        BY <4>2, <4>4, MinMax
      <4>6. ColorGroup(v, form) = [group |-> v.group, records |-> SubSeq(v.records, 1, m)]
        BY DEF ColorGroup
      <4> HIDE DEF m
      <4>7. ColorGroup(v, form) \in Group
        BY <4>0, <4>3, <4>5, <4>6, CutOk
      <4>8. GroupOk(Padded(a), size, ColorGroup(v, form))
        BY <4>0, <4>2, <4>3, <4>5, <4>6, CutOk
      <4> QED BY <4>1, <4>7, <4>8 DEF v
    <3> HIDE DEF J
    <3>3. \A i \in DOMAIN groups : groups[i] \in Group /\ GroupOk(Padded(a), size, groups[i])
      BY <2>1, <3>2
    <3> HIDE DEF groups
    <3>4. SegsOk(Padded(a), segments)
      BY <1>2, <2>1, <3>3, WalkedOk
    <3> HIDE DEF segments
    <3>5. ASSUME NEW s \in DOMAIN segments, s < pieces_ PROVE RecordOk(a, s, segments[s])
      <4>1. RecordOk(Padded(a), s, segments[s])
        BY <3>4 DEF SegsOk
      <4>2. s \in Nat
        BY <4>1 DEF RecordOk, Padded
      <4>3. s \in 0 .. n - 1
        BY <4>2, <3>1, <3>5
      <4>4. s \in DOMAIN a /\ Padded(a)[s] = a[s]
        BY <4>3 DEF Padded
      <4> QED BY <4>1, <4>4 DEF RecordOk
    <3>6. form.pieces = pieces_ /\ pieces_ # 0
      BY <3>1
    <3> QED BY <1>1, <3>5, <3>6 DEF SegsOk
  <2> QED BY <2>2, <2>3
<1> QED BY <1>1, <1>4, <1>5, <1>6, <1>7, <1>9

-----------------------------------------------------------------------------
(* Types: the versions, the calls and their reads.                         *)

Left(n) == [power : Nat, level : Nat, mode : Nat, gradual : Nat, piece : [0 .. n - 1 -> Nat]]
Cmds == {"power", "level", "sections", "mode", "status", "ic", "gradual", "fade", "soft", "info", "group", "load"}
Request == [cmd : Cmds, sel : Int]
Stages == {"power", "level", "detail", "bars", "sections", "mode", "plug", "status", "ic", "walk", "gradual",
           "info", "version", "load"}

IsHeld(h) == h = [power |-> h.power, level |-> h.level, mode |-> h.mode, gradual |-> h.gradual, segs |-> h.segs,
                  soft |-> h.soft, hard |-> h.hard, serial |-> h.serial, optimistic |-> h.optimistic]
IsCall(c) == c = [todo |-> c.todo, reads |-> c.reads, snap |-> c.snap, got |-> c.got, total |-> c.total,
                  live |-> c.live, answered |-> c.answered, info |-> c.info, mixed |-> c.mixed, name |-> c.name,
                  set |-> c.set, unread |-> c.unread]
OfWalk(reads) == \A i \in DOMAIN reads : reads[i].cmd \in {"ic", "group"}

\* A call's groups are right while no setter was acknowledged since its stage began (n pieces, in
\* groups of size; a the acknowledged versions, sq the setters so far).
CallOk(c, n, size, a, sq) ==
    /\ IsCall(c)
    /\ c.todo \in Seq(Stages) /\ c.reads \in Seq(Request) /\ c.got \in Seq(Group)
    /\ c.snap \in Nat /\ c.snap <= sq /\ c.total \in Int /\ c.total <= n /\ c.mixed \in BOOLEAN
    /\ c.reads # <<>> => c.todo # <<>> /\ (Head(c.todo) = "walk" => OfWalk(c.reads))
    /\ c.snap = sq /\ ~c.mixed => \A i \in DOMAIN c.got : GroupOk(a, size, c.got[i])

\* segment_count: read, or the profile's.
PiecesOk(k, i) == k \in {None, i.profile.pieces, i.count} /\ (k = None => i.profile.sectionRead)

\* A rerouted profile counts the same pieces in the same groups.
LEMMA RoutedFacts ==
    ASSUME NEW i \in Instances, NEW p \in Routed(i)
    PROVE  /\ i.count \in Nat /\ CountsPieces(p) /\ p.pieces <= i.count
           /\ p.size = i.profile.size /\ p.pieces = i.profile.pieces /\ p.sectionRead = i.profile.sectionRead
           /\ p.decode.groups => p.pieces # 0 /\ ~p.sectionRead
           /\ DOMAIN p = DOMAIN i.profile
<1>1. i.profile \in Routed(i)
  BY DEF Routed
<1>2. {"size", "pieces", "sectionRead"} \subseteq DOMAIN i.profile
  BY <1>1, PiecesAssumption DEF CountsPieces
<1>3. {"size", "pieces", "sectionRead"} \cap PactPicked = {}
  BY DEF PactPicked
<1>4. p = i.profile \/ (SameButPactPicked(i.profile, p) /\ \E row \in Table : p = row.profile)
  BY DEF Routed
<1>5. p.size = i.profile.size /\ p.pieces = i.profile.pieces /\ p.sectionRead = i.profile.sectionRead
  BY <1>2, <1>3, <1>4 DEF SameButPactPicked
<1>6. DOMAIN p = DOMAIN i.profile
  BY <1>4, PiecesAssumption
<1> QED BY <1>5, <1>6, PiecesAssumption

\* A pact reroutes to one of them.
LEMMA RoutedAgain ==
    ASSUME NEW i \in Instances, NEW p \in Routed(i), NEW pact
    PROVE  RoutedProfile(p, pact) \in Routed(i)
<1> DEFINE others == Reroute(Table, p, Sku, pact, Fallback)
<1>1. RoutedProfile(p, pact) = p \/ (others # {} /\ RoutedProfile(p, pact) = CHOOSE q \in others : TRUE)
  BY DEF RoutedProfile
<1>2. \A rows : Only(rows) \subseteq {r.profile : r \in rows}
  BY DEF Only
<1>3. \A allow : ProfileFor(Table, Sku, pact, allow, Fallback) \subseteq {row.profile : row \in Table}
  <2> SUFFICES ASSUME NEW allow, NEW x \in ProfileFor(Table, Sku, pact, allow, Fallback)
               PROVE  x \in {row.profile : row \in Table}
    OBVIOUS
  <2>1. PICK rows \in SUBSET Table : x \in Only(rows)
    <3>1. Rows(Table, Sku) \subseteq Table
      BY DEF Rows
    <3> QED BY <3>1 DEF ProfileFor
  <2> QED BY <2>1, <1>2
<1>4. ASSUME NEW q \in others PROVE q \in Routed(i)
  <2>1. q \in {row.profile : row \in Table} /\ SameButPactPicked(p, q)
    BY <1>3 DEF Reroute
  <2>2. p = i.profile \/ SameButPactPicked(i.profile, p)
    BY DEF Routed
  <2>3. DOMAIN p = DOMAIN i.profile
    BY RoutedFacts
  <2>4. SameButPactPicked(i.profile, q)
    BY <2>1, <2>2, <2>3 DEF SameButPactPicked
  <2> QED BY <2>1, <2>4 DEF Routed
<1> HIDE DEF others
<1> QED BY <1>1, <1>4

LEMMA TotalOk ==
    ASSUME NEW i \in Instances, NEW p \in Routed(i), NEW k, PiecesOk(k, i)
    PROVE  /\ k \in Int /\ k <= i.count /\ (p.decode.groups => k \in 1 .. i.count)
           /\ WalkTotal(p, k) \in Int /\ WalkTotal(p, k) <= i.count
<1>1. /\ i.count \in Nat /\ p.pieces \in Nat /\ p.pieces <= i.count
      /\ p.pieces = i.profile.pieces /\ p.sectionRead = i.profile.sectionRead
      /\ p.decode.groups => p.pieces # 0 /\ ~p.sectionRead
  BY RoutedFacts DEF CountsPieces
<1>2. None \in Int /\ None < 0
  BY DEF None
<1> QED BY <1>1, <1>2 DEF PiecesOk, WalkTotal

LEMMA SectionSumInt ==
    ASSUME NEW reply \in [ic : Nat, second : Nat, sections : Seq(Nat)]
    PROVE  SectionSum(reply) \in Int
<1>1. \A b \in Nat : JavaByte(b) \in Int
  BY DEF JavaByte
<1>2. Len(reply.sections) >= 2 => reply.sections[1] \in Nat /\ reply.sections[2] \in Nat
  OBVIOUS
<1>3. Len(reply.sections) \in Nat
  OBVIOUS
<1>4. CASE Len(reply.sections) >= 2
  <2>1. JavaByte(reply.sections[1]) + JavaByte(reply.sections[2]) \in Int
    <3>1. JavaByte(reply.sections[1]) \in Int /\ JavaByte(reply.sections[2]) \in Int
      BY <1>1, <1>2, <1>4
    <3> QED BY <3>1
  <2>2. SectionSum(reply) = None \/ SectionSum(reply) = JavaByte(reply.sections[1]) + JavaByte(reply.sections[2])
    BY Zenon DEF SectionSum
  <2> QED BY <2>1, <2>2 DEF None
<1>5. CASE ~(Len(reply.sections) >= 2)
  <2>1. Len(reply.sections) < 2
    BY <1>3, <1>5
  <2> QED BY <2>1 DEF SectionSum, None
<1> QED BY <1>4, <1>5

LEMMA WalkOfOk ==
    ASSUME inst \in Instances, NEW p \in Routed(inst), NEW k, PiecesOk(k, inst)
    PROVE  WalkOf(p, k).groups \in Int /\ WalkOf(p, k).total \in Int /\ WalkOf(p, k).total <= inst.count
<1> DEFINE ic == inst.ic
<1>1. /\ inst.count \in Nat /\ {p.size, p.perPiece} \subseteq Nat \ {0} /\ p.icRange \in {<<>>} \cup (Nat \X Nat)
      /\ ic \in [ic : Nat, second : Nat, sections : Seq(Nat)] /\ SectionSum(ic) <= inst.count
      /\ p.liveIc => LiveWalk(p, ic).total <= inst.count
  BY RoutedFacts, PiecesAssumption DEF CountsPieces
<1>2. NoWalk.groups \in Int /\ NoWalk.total \in Int /\ NoWalk.total <= inst.count
  BY <1>1 DEF NoWalk
<1>3. \A total \in Int : StaticWalk(total, p.size).groups \in Int /\ StaticWalk(total, p.size).total \in Int
  BY <1>1, GroupsFacts DEF StaticWalk
<1>4. LiveIcPieces(p, ic.ic) \in Int
  <2>1. ic.ic \in Int /\ (p.icRange # <<>> => p.icRange[1] \in Int /\ p.icRange[2] \in Int)
    BY <1>1
  <2>2. AtLeast(ic.ic, 0) \in Int
    <3>1. \A x \in Int, y \in Int : AtLeast(x, y) \in Int
      BY MinMax
    <3>2. ic.ic \in Int /\ 0 \in Int
      BY <2>1
    <3> HIDE DEF ic
    <3> QED BY <3>1, <3>2
  <2>3. ASSUME p.icRange # <<>> PROVE AtLeast(AtMost(ic.ic, p.icRange[2]), p.icRange[1]) \in Int
    <3>1. AtMost(ic.ic, p.icRange[2]) \in Int
      BY <2>1, <2>3, MinMax
    <3> QED BY <2>1, <2>3, <3>1, MinMax
  <2> QED BY <1>1, <2>2, <2>3, GroupsFacts DEF LiveIcPieces
<1>5. LiveWalk(p, ic).groups \in Int /\ LiveWalk(p, ic).total \in Int
  <2>1. IcCountChecked(ic) = None \/ IcCountChecked(ic) = ic.ic
    BY DEF IcCountChecked
  <2> QED BY <1>2, <1>3, <1>4, <2>1 DEF LiveWalk
<1>6. LET w == SectionWalk(p, ic, WalkTotal(p, k))
      IN  w.groups \in Int /\ w.total \in Int /\ w.total <= inst.count
  <2> DEFINE sum == SectionSum(ic)
             wanted == IF sum = 0 THEN WalkTotal(p, k) ELSE sum
  <2>1. wanted \in Int /\ wanted <= inst.count
    BY <1>1, TotalOk, SectionSumInt
  <2>2. SectionWalk(p, ic, WalkTotal(p, k)) =
            IF sum = None THEN NoWalk ELSE [groups |-> JavaGroupCount(wanted, p.size), total |-> AtLeast(wanted, 0)]
    BY DEF SectionWalk
  <2> HIDE DEF wanted
  <2>3. AtLeast(wanted, 0) \in Int /\ AtLeast(wanted, 0) <= inst.count
    <3>1. AtLeast(wanted, 0) \in Int /\ (AtLeast(wanted, 0) = wanted \/ AtLeast(wanted, 0) = 0)
      BY <2>1, MinMax
    <3> QED BY <1>1, <2>1, <3>1
  <2>4. JavaGroupCount(wanted, p.size) \in Int
    <3> DEFINE size0 == IF wanted >= 0 THEN wanted ELSE -wanted
               whole == size0 \div p.size
               v == (IF wanted >= 0 THEN whole ELSE -whole) + (IF size0 % p.size = 0 THEN 0 ELSE 1)
    <3>1. size0 \in Nat
      BY <2>1
    <3> HIDE DEF size0
    <3>2. whole \in Int
      BY <1>1, <3>1
    <3> HIDE DEF whole
    <3>3. v \in Int
      BY <3>2
    <3>4. JavaGroupCount(wanted, p.size) = AtLeast(v, 0)
      BY DEF JavaGroupCount, size0, whole
    <3> HIDE DEF v
    <3> QED BY <3>3, <3>4, MinMax
  <2> QED BY <1>2, <2>2, <2>3, <2>4
<1> QED BY <1>1, <1>5, <1>6 DEF WalkOf

LEMMA GroupReadsOk ==
    ASSUME NEW n \in Int
    PROVE  GroupReads(n) \in Seq(Request) /\ OfWalk(GroupReads(n))
<1>1. \A g \in 1 .. n : Read("group", g) \in Request /\ Read("group", g).cmd = "group"
  BY DEF Read, Request, Cmds
<1>2. GroupReads(n) = [g \in 1 .. n |-> Read("group", g)]
  BY DEF GroupReads
<1>3. GroupReads(n) \in Seq(Request)
  <2>1. CASE n >= 0
    BY <1>1, <1>2, <2>1
  <2>2. CASE n < 0
    <3>1. 1 .. n = {} /\ 1 .. 0 = {}
      BY <2>2
    <3>2. GroupReads(n) = [g \in 1 .. 0 |-> Read("group", g)]
      BY <1>2, <3>1
    <3> QED BY <3>1, <3>2
  <2> QED BY <2>1, <2>2
<1> QED BY <1>1, <1>2, <1>3 DEF OfWalk

\* The reads of a stage; those of the walk are of counts and of groups.
LEMMA StageReadsOk ==
    ASSUME NEW i \in Instances, NEW p \in Routed(i), NEW k, PiecesOk(k, i),
           NEW stage \in Stages, NEW h, NEW done
    PROVE  /\ StageReads(stage, p, h, k, done) \in Seq(Request)
           /\ stage = "walk" => OfWalk(StageReads(stage, p, h, k, done))
<1>1. \A cmd \in Cmds, sel \in Int : Read(cmd, sel) \in Request /\ Read(cmd, sel).cmd = cmd
  BY DEF Read, Request
<1>2. <<>> \in Seq(Request) /\ \A r \in Request : <<r>> \in Seq(Request)
  OBVIOUS
<1>3. InfoHard \in Int /\ InfoSn \in Int
  BY DEF InfoHard, InfoSn
<1>4. CASE stage = "walk"
  <2>1. Groups(WalkTotal(p, k), p.size) \in Int
    <3>1. p.size \in Nat \ {0}
      BY RoutedFacts DEF CountsPieces
    <3> QED BY <3>1, TotalOk, GroupsFacts
  <2>2. <<Read("ic", 0)>> \in Seq(Request) /\ OfWalk(<<Read("ic", 0)>>)
    BY <1>1 DEF OfWalk, Cmds
  <2>3. <<>> \in Seq(Request) /\ OfWalk(<<>>)
    BY DEF OfWalk
  <2>4. StageReads(stage, p, h, k, done) = WalkReads(p, k)
    BY <1>4 DEF StageReads
  <2> QED BY <2>1, <2>2, <2>3, <2>4, GroupReadsOk DEF WalkReads
<1>5. CASE stage = "info" \/ stage = "version"
  <2>1. \A b \in BOOLEAN : Missing(p, h, b) \in Seq(Request)
    <3>1. Read("soft", 0) \in Request /\ Read("info", InfoHard) \in Request /\ Read("info", InfoSn) \in Request
      BY <1>1, <1>3 DEF Cmds
    <3> SUFFICES ASSUME NEW b \in BOOLEAN PROVE Missing(p, h, b) \in Seq(Request)
      OBVIOUS
    <3> DEFINE soft == One(GatedSoft(p, b) /\ h.soft = 0, Read("soft", 0))
               hard == One(GatedHard(p, b) /\ h.hard = 0, Read("info", InfoHard))
    <3>2. soft \in Seq(Request) /\ hard \in Seq(Request)
      BY <1>2, <3>1 DEF One
    <3>3. Missing(p, h, b) = IF ~p.infoReads THEN <<>> ELSE soft \o hard
      BY DEF Missing
    <3> HIDE DEF soft, hard
    <3> QED BY <1>2, <3>2, <3>3
  <2>2. DeviceInfoReads \in Seq(Request)
    BY <1>1, <1>3 DEF DeviceInfoReads, Cmds
  <2>3. <<>> \in Seq(Request)
    OBVIOUS
  <2>4. CASE stage = "info"
    BY <2>1, <2>2, <2>3, <2>4 DEF StageReads
  <2>5. CASE stage = "version"
    BY <2>1, <2>5 DEF StageReads
  <2> QED BY <1>5, <2>4, <2>5
<1>6. CASE stage = "gradual"
  <2>1. Read("gradual", 0) \in Request /\ Read("fade", 0) \in Request
    BY <1>1 DEF Cmds
  <2> DEFINE state == One(p.gradual = "state", Read("gradual", 0))
             fade == One(p.gradual = "read", Read("fade", 0))
  <2>2. state \in Seq(Request) /\ fade \in Seq(Request)
    BY <1>2, <2>1 DEF One
  <2>3. StageReads(stage, p, h, k, done) = state \o fade
    BY <1>6 DEF StageReads
  <2> HIDE DEF state, fade
  <2>4. state \o fade \in Seq(Request)
    BY <2>2
  <2>5. stage # "walk"
    BY <1>6
  <2> QED BY <2>3, <2>4, <2>5
<1>7. CASE stage \in Stages \ {"walk", "info", "version", "gradual"}
  <2>1. \A cmd \in Cmds : <<Read(cmd, 0)>> \in Seq(Request) /\ <<Read(cmd, 1)>> \in Seq(Request)
                            /\ <<Read(cmd, 2)>> \in Seq(Request)
    <3>1. 0 \in Int /\ 1 \in Int /\ 2 \in Int
      OBVIOUS
    <3> QED BY <1>1, <1>2, <3>1
  <2>2. CASE stage \in {"power", "level", "detail", "bars"}
    BY <1>2, <2>1, <2>2 DEF StageReads, One, Cmds
  <2>3. CASE stage \in {"sections", "mode", "plug", "status"}
    BY <1>2, <2>1, <2>3 DEF StageReads, One, Cmds
  <2>4. CASE stage \in {"ic", "load"}
    BY <1>2, <2>1, <2>4 DEF StageReads, One, Cmds
  <2> QED BY <1>7, <2>2, <2>3, <2>4 DEF Stages
<1> QED BY <1>4, <1>5, <1>6, <1>7

\* What a walk keeps of a reply is a group, whichever group the reply is of.
LEMMA KeptType ==
    ASSUME NEW n \in Nat, NEW d, d.piece \in [0 .. n - 1 -> Nat], NEW g \in Int, NEW x \in Int,
           NEW size \in Nat \ {0}, NEW total \in Int
    PROVE  [group |-> g, records |-> Trimmed(GroupAt(d, x, size).records, total, size, g)] \in Group
<1> DEFINE group == GroupAt(d, x, size)
           base == GroupBaseIndex(g, size)
           left == AtMost(size, total - base)
           most == AtMost(Len(group.records), AtLeast(left, 0))
<1>1. group \in Group /\ Len(group.records) = size /\ group.records \in Seq(Rec)
  BY GroupAtFacts DEF Group
<1>2. Trimmed(group.records, total, size, g) = SubSeq(group.records, 1, most)
  BY DEF Trimmed, Expected, GroupBaseIndex
<1> HIDE DEF group
<1>3. base \in Int
  BY BaseFacts
<1> HIDE DEF base
<1>4. left \in Int
  <2>1. total - base \in Int /\ size \in Int
    BY <1>3
  <2> QED BY <2>1, MinMax
<1> HIDE DEF left
<1>5. AtLeast(left, 0) \in Int
  <2>1. \A x1 \in Int, y1 \in Int : AtLeast(x1, y1) \in Int
    BY MinMax
  <2> QED BY <1>4, <2>1
<1>6. most \in Int /\ most <= Len(group.records)
  <2>1. Len(group.records) \in Int
    BY <1>1
  <2> QED BY <1>5, <2>1, MinMax
<1> HIDE DEF most
<1>7. SubSeq(group.records, 1, most) \in Seq(Rec)
  BY <1>1, <1>6, FirstOf
<1>8. [group |-> g, records |-> SubSeq(group.records, 1, most)] \in Group
  BY <1>7 DEF Group
<1>9. [group |-> g, records |-> Trimmed(group.records, total, size, g)] \in Group
  BY <1>2, <1>8
<1> QED BY <1>9 DEF group

LEMMA IdleOk ==
    ASSUME NEW n \in Nat, NEW size, NEW a, NEW sq \in Nat
    PROVE  CallOk(Idle, n, size, a, sq)
<1>1. <<>> \in Seq(Stages) /\ <<>> \in Seq(Request) /\ <<>> \in Seq(Group) /\ DOMAIN <<>> = {}
  OBVIOUS
<1> QED BY <1>1 DEF CallOk, IsCall, Idle

\* On to the next stage: nothing is read in it yet.
LEMMA NextStageOk ==
    ASSUME inst \in Instances, profile \in Routed(inst),
           NEW c, IsCall(c), c.todo \in Seq(Stages), NEW h, NEW k, PiecesOk(k, inst), NEW done,
           NEW s \in Nat, NEW size, NEW a
    PROVE  CallOk(NextStage(c, h, k, done, s), inst.count, size, a, s)
<1> DEFINE reads(i) == StageReads(c.todo[i], profile, h, k, done)
           hits == {i \in DOMAIN c.todo : reads(i) # <<>>}
           i0 == Min(hits)
           next == [c EXCEPT !.todo = After(c.todo, i0 - 1), !.snap = s, !.got = <<>>, !.answered = FALSE,
                       !.reads = reads(i0), !.mixed = FALSE,
                       !.total = WalkTotal(profile, k), !.info = ~done,
                       !.set = IF c.todo[i0] = "load" THEN SceneVersions(profile, h.soft, h.hard, known.pact) ELSE @]
<1>1. inst.count \in Nat
  BY RoutedFacts
<1>2. CASE hits = {}
  <2>1. NextStage(c, h, k, done, s) = Idle
    BY <1>2 DEF NextStage
  <2> QED BY <1>1, <2>1, IdleOk
<1>3. CASE hits # {}
  <2>1. NextStage(c, h, k, done, s) = next
    BY <1>3 DEF NextStage
  <2>2. hits \in SUBSET Nat
    OBVIOUS
  <2>3. i0 \in hits
    <3> HIDE DEF hits
    <3> QED BY <1>3, <2>2, MinOf
  <2>4. i0 \in DOMAIN c.todo /\ c.todo[i0] \in Stages
    <3>1. \A i \in hits : i \in DOMAIN c.todo /\ c.todo[i] \in Stages
      OBVIOUS
    <3> HIDE DEF hits, i0
    <3> QED BY <2>3, <3>1
  <2>5. reads(i0) \in Seq(Request) /\ (c.todo[i0] = "walk" => OfWalk(reads(i0))) /\ reads(i0) # <<>>
    <3> DEFINE stage == c.todo[i0]
    <3>1. stage \in Stages
      BY <2>4
    <3>2. reads(i0) = StageReads(stage, profile, h, k, done) /\ reads(i0) # <<>>
      BY <2>3
    <3> HIDE DEF reads, stage, i0, hits
    <3>3. StageReads(stage, profile, h, k, done) \in Seq(Request)
          /\ (stage = "walk" => OfWalk(StageReads(stage, profile, h, k, done)))
      BY <3>1, StageReadsOk
    <3> QED BY <3>2, <3>3 DEF stage
  <2>6. WalkTotal(profile, k) \in Int /\ WalkTotal(profile, k) <= inst.count
    BY TotalOk
  <2> HIDE DEF reads, i0, hits
  <2> DEFINE rest == After(c.todo, i0 - 1)
  <2>7. rest \in Seq(Stages) /\ rest # <<>> /\ Head(rest) = c.todo[i0]
    <3>1. i0 \in 1 .. Len(c.todo) /\ Len(c.todo) \in Nat
      BY <2>4
    <3>2. rest = SubSeq(c.todo, i0 - 1 + 1, Len(c.todo)) /\ i0 - 1 + 1 = i0
      BY <3>1 DEF After
    <3>3. rest = [j \in 1 .. (Len(c.todo) - i0 + 1) |-> c.todo[j + i0 - 1]]
      <4>1. rest = SubSeq(c.todo, i0, Len(c.todo))
        BY <3>2
      <4>2. SubSeq(c.todo, i0, Len(c.todo)) = [j \in 1 .. (Len(c.todo) - i0 + 1) |-> c.todo[j + i0 - 1]]
        <5> DEFINE q == c.todo
        <5>1. i0 \in Int /\ Len(q) \in Int /\ q \in Seq(Stages)
          BY <3>1
        <5> HIDE DEF q
        <5>2. SubSeq(q, i0, Len(q)) = [j \in 1 .. (Len(q) - i0 + 1) |-> q[j + i0 - 1]]
          BY <5>1
        <5> QED BY <5>2 DEF q
      <4> QED BY <4>1, <4>2
    <3>4. Len(c.todo) - i0 + 1 \in Nat /\ Len(c.todo) - i0 + 1 >= 1
      BY <3>1
    <3>5. \A j \in 1 .. (Len(c.todo) - i0 + 1) : c.todo[j + i0 - 1] \in Stages
      BY <3>1
    <3> HIDE DEF rest
    <3>6. rest \in Seq(Stages) /\ Len(rest) = Len(c.todo) - i0 + 1 /\ rest[1] = c.todo[1 + i0 - 1]
      BY <3>3, <3>4, <3>5
    <3>7. 1 + i0 - 1 = i0
      BY <3>1
    <3> QED BY <3>4, <3>6, <3>7
  <2> HIDE DEF rest
  <2>8. next = [c EXCEPT !.todo = rest, !.snap = s, !.got = <<>>, !.answered = FALSE,
                   !.reads = reads(i0), !.mixed = FALSE, !.total = WalkTotal(profile, k), !.info = ~done,
                   !.set = IF c.todo[i0] = "load" THEN SceneVersions(profile, h.soft, h.hard, known.pact) ELSE @]
        /\ IsCall(c)
    BY DEF rest
  <2> HIDE DEF next
  <2>9. /\ IsCall(next) /\ next.todo = rest /\ next.snap = s /\ next.got = <<>> /\ next.reads = reads(i0)
        /\ next.mixed = FALSE /\ next.total = WalkTotal(profile, k)
    BY <2>8 DEF IsCall
  <2>10. <<>> \in Seq(Group) /\ DOMAIN <<>> = {}
    OBVIOUS
  <2>11. next.todo \in Seq(Stages) /\ next.reads \in Seq(Request) /\ next.got \in Seq(Group)
         /\ next.snap \in Nat /\ next.snap <= s /\ next.mixed \in BOOLEAN
    <3>1. FALSE \in BOOLEAN /\ s <= s
      OBVIOUS
    <3> QED BY <3>1, <2>5, <2>7, <2>9, <2>10
  <2>12. next.total \in Int /\ next.total <= inst.count
    BY <2>6, <2>9
  <2>13. next.todo # <<>> /\ (Head(next.todo) = "walk" => OfWalk(next.reads))
    BY <2>5, <2>7, <2>9
  <2>14. \A i \in DOMAIN next.got : GroupOk(a, size, next.got[i])
    BY <2>9, <2>10
  <2> QED BY <2>1, <2>9, <2>11, <2>12, <2>13, <2>14 DEF CallOk
<1> QED BY <1>2, <1>3

\* A change of one field, and of one piece.
LEMMA FieldChange ==
    ASSUME NEW n \in Nat, NEW d \in Left(n), NEW f \in Fields, NEW v \in Nat
    PROVE  LET e == [d EXCEPT ![f] = v]
           IN  /\ e \in Left(n) /\ e[f] = v /\ e.piece = d.piece
               /\ \A g \in Fields \ {f} : e[g] = d[g]
<1>1. CASE f = "power"
  BY <1>1 DEF Left, Fields
<1>2. CASE f = "level"
  BY <1>2 DEF Left, Fields
<1>3. CASE f = "mode"
  BY <1>3 DEF Left, Fields
<1>4. CASE f = "gradual"
  BY <1>4 DEF Left, Fields
<1> QED BY <1>1, <1>2, <1>3, <1>4 DEF Fields

LEMMA PieceChange ==
    ASSUME NEW n \in Nat, NEW d \in Left(n), NEW s \in 0 .. n - 1, NEW v \in Nat,
           NEW e, e = [d EXCEPT !.piece[s] = v]
    PROVE  /\ e \in Left(n) /\ e.piece[s] = v
           /\ \A x \in 0 .. n - 1 : x # s => e.piece[x] = d.piece[x]
           /\ \A g \in Fields : e[g] = d[g]
<1> DEFINE pieceOf == [d.piece EXCEPT ![s] = v]
<1>1. d.piece \in [0 .. n - 1 -> Nat]
  BY DEF Left
<1>2. pieceOf \in [0 .. n - 1 -> Nat] /\ pieceOf[s] = v /\ \A x \in 0 .. n - 1 : x # s => pieceOf[x] = d.piece[x]
  BY <1>1
<1>3. e = [d EXCEPT !.piece = pieceOf]
  OBVIOUS
<1> HIDE DEF pieceOf
<1>4. [d EXCEPT !.piece = pieceOf] \in Left(n) /\ [d EXCEPT !.piece = pieceOf].piece = pieceOf
      /\ \A g \in Fields : [d EXCEPT !.piece = pieceOf][g] = d[g]
  BY <1>2 DEF Left, Fields
<1> QED BY <1>2, <1>3, <1>4

LEMMA LeftFacts ==
    ASSUME NEW n \in Nat, NEW d \in Left(n)
    PROVE  d.piece \in [0 .. n - 1 -> Nat] /\ \A f \in Fields : d[f] \in Nat
BY DEF Left, Fields

-----------------------------------------------------------------------------
(* The invariant of the reads: what a call has gathered is right until a   *)
(* setter is acknowledged, and then its stage folds nothing in.            *)

DeviceInv ==
    /\ inst \in Instances /\ profile \in Routed(inst) /\ PiecesOk(pieces, inst) /\ seq \in Nat
    /\ dev \in Left(inst.count) /\ acked \in Left(inst.count)
    /\ \A f \in Fields : acked[f] <= dev[f]
    /\ \A s \in 0 .. inst.count - 1 : acked.piece[s] <= dev.piece[s]

HeldInv ==
    /\ IsHeld(held)
    /\ \A f \in Fields : held[f] \in Nat /\ (f \notin tainted => held[f] >= acked[f])
    /\ "segs" \notin tainted => SegsOk(acked.piece, held.segs)

CallsInv ==
    /\ call = [t \in Tasks |-> call[t]]
    /\ \A t \in Tasks : CallOk(call[t], inst.count, inst.profile.size, acked.piece, seq)

LateOk(x) == x.read \in Request /\ x.read.cmd # "status" /\ x.dev \in Left(inst.count)
LateInv == late = {} \/ \E x : late = {x} /\ LateOk(x)

ReadsInv == DeviceInv /\ HeldInv /\ CallsInv /\ LateInv

LEMMA ReadsInitially == Init => ReadsInv
<1> SUFFICES ASSUME Init PROVE ReadsInv
  OBVIOUS
<1> DEFINE n == inst.count
<1>1. inst \in Instances /\ profile = inst.profile
  BY DEF Init
<1>2. profile \in Routed(inst)
  BY <1>1 DEF Routed
<1>3. n \in Nat
  BY <1>1, <1>2, RoutedFacts
<1> HIDE DEF n
<1>4. DeviceInv
  <2>1. dev \in Left(n) /\ acked \in Left(n)
    BY <1>3 DEF Init, Left, n
  <2>2. \A f \in Fields : acked[f] <= dev[f]
    BY DEF Init, Fields
  <2>3. \A s \in 0 .. n - 1 : acked.piece[s] <= dev.piece[s]
    BY <1>3 DEF Init, n
  <2>4. PiecesOk(pieces, inst)
    <3>1. pieces = IF profile.sectionRead THEN None ELSE profile.pieces
      BY Zenon DEF Init
    <3>2. inst.profile.pieces \in Nat
      BY <1>1, <1>2, RoutedFacts DEF CountsPieces
    <3> QED BY <1>1, <3>1, <3>2 DEF PiecesOk, None
  <2> QED BY <1>1, <1>2, <2>1, <2>2, <2>3, <2>4 DEF DeviceInv, Init, n
<1>5. HeldInv
  <2>1. held.segs = <<>> /\ DOMAIN <<>> = {}
    BY DEF Init
  <2> QED BY <2>1 DEF HeldInv, Init, IsHeld, Fields, SegsOk
<1>6. CallsInv
  BY <1>3, IdleOk DEF CallsInv, Init, n
<1> QED BY <1>4, <1>5, <1>6 DEF ReadsInv, LateInv, Init

-----------------------------------------------------------------------------
(* What a reply leaves in the state.                                       *)

\* A reply other than a status reply changes the field it is of, and only when no setter overtook it.
LEMMA AppliedOk ==
    ASSUME NEW h, IsHeld(h), NEW r \in Request, NEW reply, NEW c, NEW x, x = Applied(r, reply, Fresh(c), h)
    PROVE  /\ IsHeld(x) /\ x.segs = h.segs
           /\ \A f \in Fields : (f = r.cmd /\ Fresh(c) /\ x[f] = reply.dev[f]) \/ (~(f = r.cmd /\ Fresh(c)) /\ x[f] = h[f])
           /\ x.soft = h.soft \/ x.soft = inst.soft
           /\ x.hard = h.hard \/ x.hard = inst.hard
           /\ r.cmd = "soft" => x.soft = inst.soft
           /\ r.cmd = "info" /\ r.sel = InfoHard /\ Tells(r, reply) => x.hard = inst.hard
<1>1. CASE r.cmd \in Fields /\ Fresh(c)
  <2>1. x = [h EXCEPT ![r.cmd] = reply.dev[r.cmd]] /\ IsHeld(h)
    BY <1>1 DEF Applied, Fresh, Fields
  <2>2. r.cmd # "soft" /\ r.cmd # "info"
    BY <1>1 DEF Fields
  <2>3. /\ IsHeld(x) /\ x.segs = h.segs /\ x.soft = h.soft /\ x.hard = h.hard
        /\ x[r.cmd] = reply.dev[r.cmd] /\ \A f \in Fields \ {r.cmd} : x[f] = h[f]
    <3>1. CASE r.cmd = "power"
      BY <2>1, <3>1 DEF IsHeld, Fields
    <3>2. CASE r.cmd = "level"
      BY <2>1, <3>2 DEF IsHeld, Fields
    <3>3. CASE r.cmd = "mode"
      BY <2>1, <3>3 DEF IsHeld, Fields
    <3>4. CASE r.cmd = "gradual"
      BY <2>1, <3>4 DEF IsHeld, Fields
    <3> QED BY <1>1, <3>1, <3>2, <3>3, <3>4 DEF Fields
  <2> QED BY <1>1, <2>2, <2>3
<1>2. CASE ~(r.cmd \in Fields /\ Fresh(c))
  <2> DEFINE same == x.soft = h.soft /\ x.hard = h.hard
             asIs == IsHeld(x) /\ x.segs = h.segs /\ \A f \in Fields : x[f] = h[f]
  <2>1. ASSUME x = h PROVE asIs /\ same
    BY <2>1
  <2>2. ASSUME x = [h EXCEPT !.soft = inst.soft] PROVE asIs /\ x.soft = inst.soft /\ x.hard = h.hard
    BY <2>2 DEF IsHeld, Fields
  <2>3. ASSUME x = [h EXCEPT !.hard = inst.hard] PROVE asIs /\ x.soft = h.soft /\ x.hard = inst.hard
    BY <2>3 DEF IsHeld, Fields
  <2>4. ASSUME x = [h EXCEPT !.serial = "sn"] PROVE asIs /\ same
    BY <2>4 DEF IsHeld, Fields
  <2> HIDE DEF asIs, same
  <2>5. CASE r.cmd = "soft"
    <3>1. x = [h EXCEPT !.soft = inst.soft]
      BY <1>2, <2>5, Zenon DEF Applied
    <3> QED BY <1>2, <2>2, <2>5, <3>1 DEF asIs
  <2>6. CASE r.cmd = "info"
    <3>1. CASE ~Tells(r, reply)
      <4>1. x = h
        BY <1>2, <2>6, <3>1, Zenon DEF Applied
      <4> QED BY <1>2, <2>1, <2>6, <3>1, <4>1 DEF asIs, same
    <3>2. CASE Tells(r, reply) /\ r.sel = InfoHard
      <4>1. x = [h EXCEPT !.hard = inst.hard]
        BY <1>2, <2>6, <3>2, Zenon DEF Applied
      <4> QED BY <1>2, <2>3, <2>6, <3>2, <4>1 DEF asIs
    <3>3. CASE Tells(r, reply) /\ r.sel # InfoHard
      <4>1. x = [h EXCEPT !.serial = "sn"]
        BY <1>2, <2>6, <3>3, Zenon DEF Applied
      <4> QED BY <1>2, <2>4, <2>6, <3>3, <4>1 DEF asIs, same
    <3> QED BY <3>1, <3>2, <3>3
  <2>7. CASE r.cmd # "soft" /\ r.cmd # "info"
    <3>1. x = h
      BY <1>2, <2>7 DEF Applied
    <3> QED BY <1>2, <2>1, <2>7, <3>1 DEF asIs, same
  <2> QED BY <2>5, <2>6, <2>7
<1> QED BY <1>1, <1>2

\* A status reply leaves the device's power, level and mode, and merges in pieces that are the device's.
LEMMA AppliedStatusOk ==
    ASSUME DeviceInv, NEW h, IsHeld(h), NEW c, NEW x, x = AppliedStatus(dev, profile, Fresh(c), h, pieces)
    PROVE  /\ IsHeld(x)
           /\ SegsOk(acked.piece, h.segs) => SegsOk(acked.piece, x.segs)
           /\ \A f \in Fields : x[f] = h[f] \/ x[f] = dev[f]
           /\ x.soft = h.soft \/ x.soft = inst.soft
           /\ x.hard = h.hard \/ x.hard = inst.hard
<1> DEFINE n == inst.count
           a == acked.piece
           asked == StatusTypesAsked(profile)
           read == ParseStatus(Stream(dev, profile, asked), TRUE, FALSE, profile.decode, pieces)
           st == CHOOSE y \in read : TRUE
           known_(new, old) == IF new = 0 THEN old ELSE new
           segs == [s \in DOMAIN h.segs \cup DOMAIN st.segments |->
                       IF s \in DOMAIN st.segments THEN st.segments[s] ELSE h.segs[s]]
           soft == known_(st.versions.soft, h.soft)
           hard == known_(st.versions.hard, h.hard)
           serial == IF st.serial = Unset THEN h.serial ELSE st.serial
           next == [h EXCEPT !.power = st.on, !.level = st.level, !.mode = st.mode, !.segs = segs,
                             !.soft = soft, !.hard = hard, !.serial = serial]
<1>1. /\ inst \in Instances /\ profile \in Routed(inst) /\ PiecesOk(pieces, inst)
      /\ dev \in Left(n) /\ a \in [0 .. n - 1 -> Nat] /\ n \in Nat
      /\ \A s \in 0 .. n - 1 : a[s] <= dev.piece[s]
  BY RoutedFacts, LeftFacts DEF DeviceInv
<1>2. CASE x = h
  BY <1>2
<1>3. CASE x # h
  <2>1. read # {} /\ x = next
    BY <1>3, Zenon DEF AppliedStatus
  <2>2. st \in read
    BY <2>1
  <2>3. profile.decode.size \in Nat \ {0} /\ pieces \in Int /\ (profile.decode.groups => pieces \in 1 .. n)
    BY <1>1, RoutedFacts, TotalOk DEF CountsPieces
  <2>4. dev.piece \in [0 .. n - 1 -> Nat]
    BY <1>1, LeftFacts
  <2> HIDE DEF a, st
  <2>5. /\ st.on = dev.power /\ st.level = dev.level /\ st.mode = dev.mode /\ SegsOk(a, st.segments)
        /\ st.versions.soft \in {0, inst.soft} /\ st.versions.hard \in {0, inst.hard}
    BY <1>1, <2>2, <2>3, <2>4, StatusOk
  <2>9. (soft = h.soft \/ soft = inst.soft) /\ (hard = h.hard \/ hard = inst.hard)
    BY <2>5
  <2> HIDE DEF read, segs, soft, hard, serial
  <2>6. x = [h EXCEPT !.power = st.on, !.level = st.level, !.mode = st.mode, !.segs = segs,
                      !.soft = soft, !.hard = hard, !.serial = serial] /\ IsHeld(h)
    BY <2>1
  <2> HIDE DEF next
  <2>7. /\ IsHeld(x) /\ x.power = st.on /\ x.level = st.level /\ x.mode = st.mode /\ x.gradual = h.gradual
        /\ x.segs = segs /\ x.soft = soft /\ x.hard = hard
    BY <2>6 DEF IsHeld
  <2>8. SegsOk(a, h.segs) => SegsOk(a, segs)
    BY <2>5 DEF SegsOk, segs
  <2> QED BY <2>5, <2>7, <2>8, <2>9 DEF a, Fields
<1> QED BY <1>2, <1>3

\* What a reply is: the device's own answer to the read, or a late one of its command.
Fits(t, x) ==
    /\ x.dev \in Left(inst.count) /\ x.read \in Request /\ x.read.cmd = Head(call[t].reads).cmd
    /\ x = OwnReply(t) \/ (late = {x} /\ x.read.cmd # "status")
AnswerOk(t, answer) == answer = {} \/ \E x : answer = {x} /\ Fits(t, x)

LEMMA OwnFits ==
    ASSUME ReadsInv, NEW t \in Tasks, OnWire(t)
    PROVE  Fits(t, OwnReply(t)) /\ Head(call[t].reads) \in Request
<1>1. call[t].reads \in Seq(Request) /\ call[t].reads # <<>> /\ dev \in Left(inst.count)
  BY DEF ReadsInv, CallsInv, CallOk, DeviceInv, OnWire
<1>2. Head(call[t].reads) \in Request
  BY <1>1
<1> QED BY <1>1, <1>2 DEF Fits, OwnReply

LEMMA LateFits ==
    ASSUME ReadsInv, NEW t \in Tasks, NEW x \in late, Matches(Head(call[t].reads), x)
    PROVE  late = {x} /\ Fits(t, x)
<1>1. late = {x} /\ LateOk(x)
  BY DEF ReadsInv, LateInv
<1> QED BY <1>1 DEF LateOk, Fits, Matches

\* A read came back, with a reply or with none.
\* A scene's read of a version, unless it told nothing, leaves the device's own.
VersionRead(c, c1, after) ==
    LET r == Head(c.reads)
    IN  /\ c1.reads = Tail(c.reads)
        /\ c1.unread \/ (~c.unread /\ (r.cmd = "soft" => after.soft = inst.soft)
                                   /\ (r.cmd = "info" /\ r.sel = InfoHard => after.hard = inst.hard))

LEMMA RepliedOk ==
    ASSUME ReadsInv, NEW t \in Tasks, OnWire(t), NEW answer, AnswerOk(t, answer), Replied(t, answer)
    PROVE  /\ DeviceInv' /\ HeldInv' /\ CallsInv'
           /\ held'.soft = held.soft \/ held'.soft = inst.soft
           /\ held'.hard = held.hard \/ held'.hard = inst.hard
           /\ \E c1 : /\ IsCall(c1) /\ c1.todo = call[t].todo
                      /\ call' = [call EXCEPT ![t] =
                            IF c1.reads = <<>> THEN NextStage([c1 EXCEPT !.todo = Tail(@)], held', pieces', infoRead', seq)
                            ELSE c1]
                      /\ Head(call[t].todo) = "version" /\ Head(call[t].reads).cmd \in {"soft", "info"} =>
                            VersionRead(call[t], c1, held')
<1> DEFINE n == inst.count
           size == inst.profile.size
           a == acked.piece
           c == call[t]
           p == profile
           r == Head(c.reads)
           stage == Head(c.todo)
           fresh == Fresh(c)
           has == answer # {}
           reply == CHOOSE x \in answer : TRUE
           ofWalk == stage = "walk" /\ r.cmd = "ic"
           walk == IF ofWalk /\ has THEN WalkOf(p, pieces) ELSE NoWalk
           more == CASE ofWalk -> GroupReads(walk.groups)
                     [] r.cmd = "status" -> One(~has /\ r.sel = 1, Read("status", 2))
                     [] OTHER -> Tail(c.reads)
           live == fresh /\ has /\ stage \in StateStages \ {"sections"}
           kept == Kept(r, reply, c, p)
           c1 == [c EXCEPT !.reads = more, !.total = IF ofWalk THEN walk.total ELSE @,
                           !.got = IF has /\ r.cmd = "group" THEN Append(@, kept) ELSE @,
                           !.mixed = @ \/ (has /\ r.cmd = "group" /\ answer = late),
                           !.answered = @ \/ has, !.live = @ \/ live,
                           !.unread = @ \/ (stage = "version" /\ ~(has /\ Tells(r, reply)))]
           ends == more = <<>>
           segments == GroupsToSegments(c1.got, p.size)
           walked == ends /\ stage = "walk" /\ fresh /\ DOMAIN segments # {}
           over == ends /\ stage \in StateStages
                        /\ (Len(c.todo) = 1 \/ \A i \in 2 .. Len(c.todo) : c.todo[i] \in StateStages =>
                               StageReads(c.todo[i], p, held, pieces, infoRead) = <<>>)
           folded == CASE ~has -> held
                       [] has /\ r.cmd = "status" -> AppliedStatus(reply.dev, p, fresh, held, pieces)
                       [] OTHER -> Applied(r, reply, fresh, held)
           h == [folded EXCEPT !.segs = IF walked THEN segments ELSE @, !.optimistic = @ /\ ~(over /\ c1.live)]
           count == IF has /\ r.cmd = "sections" /\ inst.count \in 1 .. MaxMaskSegments THEN inst.count ELSE pieces
           infoDone == IF ends /\ stage = "info" /\ c.info THEN c1.answered \/ c1.live ELSE infoRead
           target == IF walked THEN {"segs"} ELSE IF has /\ fresh THEN {r.cmd} \cap Fields ELSE {}
           rest == [c1 EXCEPT !.todo = Tail(@)]
           next == IF ends THEN NextStage(rest, h, count, infoDone, seq) ELSE c1
<1>1. /\ held' = h /\ pieces' = count /\ infoRead' = infoDone /\ call' = [call EXCEPT ![t] = next]
      /\ tainted' = IF (walked /\ c1.mixed) \/ (~walked /\ has /\ answer = late) THEN tainted \cup target
                    ELSE tainted \ target
      /\ UNCHANGED <<profile, inst, dev, seq, acked>>
  BY Zenon DEF Replied
<1>2. DeviceInv /\ HeldInv /\ CallsInv /\ LateInv
  BY DEF ReadsInv
<1>3. /\ inst \in Instances /\ profile \in Routed(inst) /\ PiecesOk(pieces, inst) /\ seq \in Nat
      /\ dev \in Left(n) /\ acked \in Left(n) /\ n \in Nat /\ p.size = size /\ size \in Nat \ {0}
      /\ \A f \in Fields : acked[f] <= dev[f]
      /\ \A s \in 0 .. n - 1 : a[s] <= dev.piece[s]
  BY <1>2, RoutedFacts DEF DeviceInv, CountsPieces
<1>4. CallOk(c, n, size, a, seq)
  BY <1>2 DEF CallsInv
<1>5. /\ c.todo \in Seq(Stages) /\ c.todo # <<>> /\ stage \in Stages
      /\ c.reads \in Seq(Request) /\ c.reads # <<>> /\ r \in Request
      /\ stage = "walk" => OfWalk(c.reads) /\ r.cmd \in {"ic", "group"}
  <2>1. c.todo \in Seq(Stages) /\ c.todo # <<>> /\ c.reads \in Seq(Request) /\ c.reads # <<>>
        /\ (stage = "walk" => OfWalk(c.reads))
    BY <1>4 DEF CallOk, OnWire
  <2>2. 1 \in DOMAIN c.reads /\ r = c.reads[1]
    BY <2>1
  <2>3. stage \in Stages /\ r \in Request
    BY <2>1
  <2> QED BY <2>1, <2>2, <2>3 DEF OfWalk
<1>6. ASSUME has PROVE answer = {reply} /\ Fits(t, reply)
  BY <1>6 DEF AnswerOk
<1> HIDE DEF size, a, c, r, stage, reply
<1>7. more \in Seq(Request) /\ (stage = "walk" => OfWalk(more))
  <2>1. CASE ofWalk
    <3>1. more = GroupReads(walk.groups)
      BY <2>1
    <3>2. walk.groups \in Int
      BY <1>3, WalkOfOk DEF NoWalk
    <3> HIDE DEF walk, more
    <3> QED BY <3>1, <3>2, GroupReadsOk
  <2>2. CASE ~ofWalk /\ r.cmd = "status"
    <3>1. more = <<>> \/ more = <<Read("status", 2)>>
      BY <2>2 DEF One
    <3>2. <<Read("status", 2)>> \in Seq(Request) /\ <<>> \in Seq(Request)
      BY DEF Read, Request, Cmds
    <3>3. stage # "walk"
      BY <1>5, <2>2
    <3> HIDE DEF more
    <3> QED BY <3>1, <3>2, <3>3
  <2>3. CASE ~ofWalk /\ r.cmd # "status"
    <3>1. more = Tail(c.reads)
      BY <2>3
    <3> HIDE DEF more
    <3>2. Tail(c.reads) \in Seq(Request) /\ \A i \in DOMAIN Tail(c.reads) : i + 1 \in DOMAIN c.reads /\ Tail(c.reads)[i] = c.reads[i + 1]
      BY <1>5
    <3> QED BY <1>5, <3>1, <3>2 DEF OfWalk
  <2> QED BY <2>1, <2>2, <2>3
<1>25. stage = "version" /\ r.cmd \in {"soft", "info"} => more = Tail(c.reads)
  OBVIOUS
<1> HIDE DEF more, kept, live
<1> DEFINE total == IF ofWalk THEN walk.total ELSE c.total
           got == IF has /\ r.cmd = "group" THEN Append(c.got, kept) ELSE c.got
<1>8. /\ IsCall(c1) /\ c1.todo = c.todo /\ c1.reads = more /\ c1.snap = c.snap /\ c1.total = total /\ c1.got = got
      /\ c1.mixed = (c.mixed \/ (has /\ r.cmd = "group" /\ answer = late)) /\ c1.mixed \in BOOLEAN
      /\ c1.unread = (c.unread \/ (stage = "version" /\ ~(has /\ Tells(r, reply))))
  <2> DEFINE mixed == c.mixed \/ (has /\ r.cmd = "group" /\ answer = late)
             answered == c.answered \/ has
             lives == c.live \/ live
             unread == c.unread \/ (stage = "version" /\ ~(has /\ Tells(r, reply)))
  <2>1. c1 = [c EXCEPT !.reads = more, !.total = total, !.got = got, !.mixed = mixed, !.answered = answered,
                       !.live = lives, !.unread = unread]
    OBVIOUS
  <2>2. IsCall(c)
    BY <1>4 DEF CallOk
  <2>3. mixed \in BOOLEAN
    OBVIOUS
  <2> HIDE DEF c1, total, got, mixed, answered, lives, unread
  <2>4. /\ IsCall(c1) /\ c1.todo = c.todo /\ c1.reads = more /\ c1.snap = c.snap /\ c1.total = total /\ c1.got = got
        /\ c1.mixed = mixed /\ c1.unread = unread
    BY <2>1, <2>2 DEF IsCall
  <2> QED BY <2>3, <2>4 DEF mixed, unread
<1>9. total \in Int /\ total <= n
  <2>1. c.total \in Int /\ c.total <= n
    BY <1>4 DEF CallOk
  <2>2. walk.total \in Int /\ walk.total <= n
    BY <1>3, WalkOfOk DEF NoWalk
  <2> HIDE DEF walk
  <2> QED BY <2>1, <2>2
<1>10. ASSUME has, r.cmd = "group"
       PROVE  kept \in Group /\ (answer # late => GroupOk(a, size, kept))
  <2> DEFINE x == reply.read.sel
  <2>1. Fits(t, reply) /\ answer = {reply}
    BY <1>6, <1>10
  <2>2. x \in Int /\ r.sel \in Int /\ reply.dev.piece \in [0 .. n - 1 -> Nat] /\ c.total \in Int /\ c.total <= n
    BY <1>3, <1>4, <1>5, <2>1, LeftFacts DEF Fits, Request, CallOk
  <2>3. kept = [group |-> r.sel, records |-> Trimmed(GroupAt(reply.dev, x, size).records, c.total, size, r.sel)]
    BY <1>3 DEF Kept, kept
  <2> HIDE DEF x
  <2>4. kept \in Group
    BY <1>3, <2>2, <2>3, KeptType
  <2>5. ASSUME answer # late PROVE GroupOk(a, size, kept)
    <3>1. reply = OwnReply(t)
      BY <2>1, <2>5 DEF Fits
    <3>2. reply.dev = dev /\ x = r.sel
      BY <3>1 DEF OwnReply, x, r, c
    <3>3. a \in [0 .. n - 1 -> Nat] /\ dev.piece \in [0 .. n - 1 -> Nat]
      BY <1>3, LeftFacts DEF a
    <3>4. kept = [group |-> r.sel, records |-> Trimmed(GroupAt(dev, r.sel, size).records, c.total, size, r.sel)]
      BY <2>3, <3>2
    <3> HIDE DEF kept
    <3> QED BY <1>3, <2>2, <3>3, <3>4, KeptOk
  <2> QED BY <2>4, <2>5
<1>11. /\ c1.got \in Seq(Group)
       /\ c.snap = seq /\ ~c1.mixed => \A i \in DOMAIN c1.got : GroupOk(a, size, c1.got[i])
  <2>1. c.got \in Seq(Group) /\ (c.snap = seq /\ ~c.mixed => \A i \in DOMAIN c.got : GroupOk(a, size, c.got[i]))
    BY <1>4 DEF CallOk
  <2>2. CASE has /\ r.cmd = "group"
    <3>1. c1.got = Append(c.got, kept) /\ kept \in Group
      BY <1>8, <1>10, <2>2
    <3>2. ~c1.mixed => ~c.mixed /\ answer # late
      BY <1>8, <2>2
    <3> HIDE DEF c1
    <3> QED BY <1>10, <2>1, <2>2, <3>1, <3>2
  <2>3. CASE ~(has /\ r.cmd = "group")
    <3>1. c1.got = c.got /\ (~c1.mixed => ~c.mixed)
      BY <1>8, <2>3
    <3> QED BY <2>1, <3>1
  <2> QED BY <2>2, <2>3
<1> HIDE DEF c1, total, got
<1>12. PiecesOk(count, inst)
  <2>1. count = inst.count \/ count = pieces
    OBVIOUS
  <2>2. inst.count # None
    BY <1>3 DEF None
  <2> HIDE DEF count
  <2> QED BY <1>3, <2>1, <2>2 DEF PiecesOk
<1> HIDE DEF count, infoDone
<1>13. CallOk(next, n, size, a, seq)
  <2>1. CASE ends
    <3>1. rest = [c1 EXCEPT !.todo = Tail(c.todo)]
      BY <1>8
    <3>2. Tail(c.todo) \in Seq(Stages)
      BY <1>5
    <3> HIDE DEF rest, h
    <3>3. IsCall(rest) /\ rest.todo \in Seq(Stages)
      BY <1>8, <3>1, <3>2 DEF IsCall
    <3>4. next = NextStage(rest, h, count, infoDone, seq)
      BY <2>1
    <3> HIDE DEF next
    <3> QED BY <1>3, <1>12, <3>3, <3>4, NextStageOk
  <2>2. CASE ~ends
    <3>1. next = c1 /\ more # <<>>
      BY <2>2
    <3>2. c.snap \in Nat /\ c.snap <= seq
      BY <1>4 DEF CallOk
    <3> HIDE DEF next, n
    <3>3. CallOk(c1, n, size, a, seq)
      <4>1. c1.todo # <<>> /\ (Head(c1.todo) = "walk" => OfWalk(c1.reads))
        BY <1>5, <1>7, <1>8 DEF stage
      <4>2. c1.todo \in Seq(Stages) /\ c1.reads \in Seq(Request) /\ c1.total \in Int /\ c1.total <= n
        BY <1>5, <1>7, <1>8, <1>9
      <4> QED BY <1>8, <1>11, <3>2, <4>1, <4>2 DEF CallOk
    <3> QED BY <3>1, <3>3
  <2> QED BY <2>1, <2>2
<1>26. next = IF c1.reads = <<>> THEN NextStage([c1 EXCEPT !.todo = Tail(@)], h, count, infoDone, seq) ELSE c1
  BY <1>8, Zenon
<1> HIDE DEF rest, next
<1>14. CallsInv'
  <2>1. call = [u \in Tasks |-> call[u]] /\ \A u \in Tasks : CallOk(call[u], n, size, a, seq)
    BY <1>2 DEF CallsInv, size, a
  <2>2. call' = [u \in Tasks |-> call'[u]] /\ \A u \in Tasks : CallOk(call'[u], n, size, a, seq)
    BY <1>1, <1>13, <2>1
  <2>3. inst'.count = n /\ inst'.profile.size = size /\ acked'.piece = a /\ seq' = seq
    BY <1>1 DEF size, a
  <2> HIDE DEF n
  <2> QED BY <2>2, <2>3 DEF CallsInv
<1>15. DeviceInv'
  <2>1. PiecesOk(pieces', inst')
    BY <1>1, <1>12
  <2> QED BY <1>1, <1>2, <2>1 DEF DeviceInv
<1>16. /\ IsHeld(held)
       /\ \A f \in Fields : held[f] \in Nat /\ (f \notin tainted => held[f] >= acked[f])
       /\ "segs" \notin tainted => SegsOk(a, held.segs)
  BY <1>2 DEF HeldInv, a
\* A field is the one before, the device's own, or the one of a late reply.
<1>17. /\ IsHeld(folded)
       /\ SegsOk(a, held.segs) => SegsOk(a, folded.segs)
       /\ \A f \in Fields : \/ folded[f] = held[f] /\ ~(f = r.cmd /\ has /\ fresh)
                            \/ folded[f] = dev[f]
                            \/ folded[f] \in Nat /\ f = r.cmd /\ has /\ fresh /\ answer = late
       /\ (folded.soft = held.soft \/ folded.soft = inst.soft) /\ (folded.hard = held.hard \/ folded.hard = inst.hard)
       /\ has /\ r.cmd = "soft" => folded.soft = inst.soft
       /\ has /\ r.cmd = "info" /\ r.sel = InfoHard /\ Tells(r, reply) => folded.hard = inst.hard
  <2>1. CASE ~has
    <3>1. folded = held
      BY <2>1, Zenon
    <3> HIDE DEF folded
    <3> QED BY <1>16, <2>1, <3>1
  <2>2. CASE has /\ r.cmd = "status"
    <3>1. Fits(t, reply)
      BY <1>6, <2>2
    <3>2. reply = OwnReply(t)
      BY <2>2, <3>1 DEF Fits, r, c
    <3>3. reply.dev = dev
      BY <3>2 DEF OwnReply
    <3>4. folded = AppliedStatus(dev, profile, Fresh(c), held, pieces)
      BY <2>2, <3>3, Zenon
    <3> HIDE DEF folded
    <3>5. /\ IsHeld(folded)
          /\ SegsOk(a, held.segs) => SegsOk(a, folded.segs)
          /\ \A f \in Fields : folded[f] = held[f] \/ folded[f] = dev[f]
          /\ (folded.soft = held.soft \/ folded.soft = inst.soft) /\ (folded.hard = held.hard \/ folded.hard = inst.hard)
      BY <1>2, <1>16, <3>4, AppliedStatusOk DEF a
    <3>6. r.cmd \notin Fields
      BY <2>2 DEF Fields
    <3> QED BY <2>2, <3>5, <3>6
  <2>3. CASE has /\ r.cmd # "status"
    <3>1. answer = {reply} /\ Fits(t, reply)
      BY <1>6, <2>3
    <3>2. reply.dev = dev \/ answer = late
      BY <3>1 DEF Fits, OwnReply
    <3>3. \A f \in Fields : reply.dev[f] \in Nat
      BY <1>3, <3>1, LeftFacts DEF Fits
    <3>4. folded = Applied(r, reply, Fresh(c), held)
      BY <2>3, Zenon
    <3> HIDE DEF folded
    <3>5. /\ IsHeld(folded) /\ folded.segs = held.segs
          /\ \A f \in Fields : \/ f = r.cmd /\ fresh /\ folded[f] = reply.dev[f]
                               \/ ~(f = r.cmd /\ fresh) /\ folded[f] = held[f]
          /\ (folded.soft = held.soft \/ folded.soft = inst.soft) /\ (folded.hard = held.hard \/ folded.hard = inst.hard)
          /\ r.cmd = "soft" => folded.soft = inst.soft
          /\ r.cmd = "info" /\ r.sel = InfoHard /\ Tells(r, reply) => folded.hard = inst.hard
      BY <1>5, <1>16, <3>4, AppliedOk
    <3> HIDE DEF fresh, has
    <3>6. \A f \in Fields : \/ folded[f] = held[f] /\ ~(f = r.cmd /\ has /\ fresh)
                            \/ folded[f] = dev[f]
                            \/ folded[f] \in Nat /\ f = r.cmd /\ has /\ fresh /\ answer = late
      BY <2>3, <3>2, <3>3, <3>5
    <3> QED BY <3>5, <3>6
  <2> QED BY <2>1, <2>2, <2>3
<1> HIDE DEF folded
<1>18. ASSUME walked, ~c1.mixed PROVE SegsOk(a, segments)
  <2>1. c.snap = seq
    BY <1>18 DEF Fresh
  <2>2. \A i \in DOMAIN c1.got : c1.got[i] \in Group /\ GroupOk(a, size, c1.got[i])
    BY <1>11, <1>18, <2>1
  <2>3. Len(c1.got) \in Nat /\ DOMAIN c1.got \subseteq 1 .. Len(c1.got)
    BY <1>11
  <2> QED BY <1>3, <2>2, <2>3, WalkedOk
<1> HIDE DEF segments
<1>19. /\ IsHeld(h) /\ h.segs = IF walked THEN segments ELSE folded.segs
       /\ \A f \in Fields : h[f] = folded[f]
       /\ h.soft = folded.soft /\ h.hard = folded.hard
  <2> DEFINE segs == IF walked THEN segments ELSE folded.segs
             optimistic == folded.optimistic /\ ~(over /\ c1.live)
  <2>1. h = [folded EXCEPT !.segs = segs, !.optimistic = optimistic]
    OBVIOUS
  <2> HIDE DEF h, segs, optimistic
  <2>2. /\ IsHeld(h) /\ h.segs = segs
        /\ \A f \in Fields : h[f] = folded[f]
        /\ h.soft = folded.soft /\ h.hard = folded.hard
    BY <1>17, <2>1 DEF IsHeld, Fields
  <2> QED BY <2>2 DEF segs
<1> HIDE DEF h
<1>20. walked => r.cmd \notin Fields
  BY <1>5 DEF Fields
<1>21. target = (IF walked THEN {"segs"} ELSE IF has /\ fresh THEN {r.cmd} \cap Fields ELSE {}) /\ "segs" \notin Fields
  BY DEF Fields
<1> HIDE DEF target, walked, has, fresh
<1>22. \A f \in Fields : held'[f] \in Nat /\ (f \notin tainted' => held'[f] >= acked[f])
  <2> SUFFICES ASSUME NEW f \in Fields PROVE held'[f] \in Nat /\ (f \notin tainted' => held'[f] >= acked[f])
    OBVIOUS
  <2>1. held'[f] = folded[f] /\ dev[f] \in Nat /\ acked[f] <= dev[f] /\ acked[f] \in Nat
    BY <1>1, <1>3, <1>19, LeftFacts
  <2>2. CASE folded[f] = held[f] /\ ~(f = r.cmd /\ has /\ fresh)
    <3>1. f \notin target
      BY <1>21, <2>2
    <3>2. f \notin tainted' => f \notin tainted
      BY <1>1, <3>1
    <3> QED BY <1>16, <2>1, <2>2, <3>2
  <2>3. CASE folded[f] = dev[f]
    BY <2>1, <2>3
  <2>4. CASE folded[f] \in Nat /\ f = r.cmd /\ has /\ fresh /\ answer = late
    <3>1. ~walked /\ f \in target
      BY <1>20, <1>21, <2>4
    <3>2. f \in tainted'
      BY <1>1, <2>4, <3>1
    <3> QED BY <2>1, <2>4, <3>2
  <2> QED BY <1>17, <2>2, <2>3, <2>4
<1>23. "segs" \notin tainted' => SegsOk(a, held'.segs)
  <2> SUFFICES ASSUME "segs" \notin tainted' PROVE SegsOk(a, held'.segs)
    OBVIOUS
  <2>1. CASE walked
    <3>1. ~c1.mixed
      BY <1>1, <1>21, <2>1
    <3> QED BY <1>1, <1>18, <1>19, <2>1, <3>1
  <2>2. CASE ~walked
    <3>1. "segs" \notin target
      BY <1>21, <2>2
    <3>2. "segs" \notin tainted
      BY <1>1, <3>1
    <3> QED BY <1>1, <1>16, <1>17, <1>19, <2>2, <3>2
  <2> QED BY <2>1, <2>2
<1>24. HeldInv'
  BY <1>1, <1>19, <1>22, <1>23 DEF HeldInv, a
<1>27. stage = "version" /\ r.cmd \in {"soft", "info"} => VersionRead(c, c1, held')
  <2> SUFFICES ASSUME stage = "version", r.cmd \in {"soft", "info"} PROVE VersionRead(c, c1, held')
    OBVIOUS
  <2>1. c1.reads = Tail(c.reads)
    BY <1>8, <1>25
  <2>2. CASE c1.unread
    BY <2>1, <2>2 DEF VersionRead
  <2>3. CASE ~c1.unread
    <3>1. ~c.unread /\ has /\ Tells(r, reply)
      BY <1>8, <2>3
    <3>2. (r.cmd = "soft" => held'.soft = inst.soft) /\ (r.cmd = "info" /\ r.sel = InfoHard => held'.hard = inst.hard)
      BY <1>1, <1>17, <1>19, <3>1
    <3> QED BY <2>1, <3>1, <3>2 DEF VersionRead, r
  <2> QED BY <2>2, <2>3
<1>28. /\ held'.soft = held.soft \/ held'.soft = inst.soft
       /\ held'.hard = held.hard \/ held'.hard = inst.hard
  BY <1>1, <1>17, <1>19
<1>29. call' = [call EXCEPT ![t] =
           IF c1.reads = <<>> THEN NextStage([c1 EXCEPT !.todo = Tail(@)], held', pieces', infoRead', seq) ELSE c1]
  BY <1>1, <1>26
<1>30. IsCall(c1) /\ c1.todo = call[t].todo
       /\ (Head(call[t].todo) = "version" /\ Head(call[t].reads).cmd \in {"soft", "info"} => VersionRead(call[t], c1, held'))
  BY <1>8, <1>27 DEF c, r, stage
<1> HIDE DEF c1
<1> QED BY <1>14, <1>15, <1>24, <1>28, <1>29, <1>30

-----------------------------------------------------------------------------
(* The setters, and the other steps.                                       *)

\* What a call gathered before an acknowledged setter claims nothing any more.
LEMMA CallLater ==
    ASSUME NEW c, NEW n, NEW size, NEW a, NEW b, NEW sq \in Nat, CallOk(c, n, size, a, sq)
    PROVE  CallOk(c, n, size, b, sq + 1)
<1>1. c.snap \in Nat /\ c.snap <= sq
  BY DEF CallOk
<1>2. c.snap <= sq + 1 /\ c.snap # sq + 1
  BY <1>1
<1> QED BY <1>2 DEF CallOk

\* Calls stay what they were or become ones that are right.
LEMMA CallsOk ==
    ASSUME ReadsInv, UNCHANGED <<inst, profile>>,
           (UNCHANGED <<acked, seq>>) \/ seq' = seq + 1,
           NEW t \in Tasks, call' = call \/ call' = [call EXCEPT ![t] = Idle]
    PROVE  CallsInv'
<1> DEFINE n == inst.count
           size == inst.profile.size
<1>1. n \in Nat /\ seq \in Nat /\ seq' \in Nat
  BY RoutedFacts DEF ReadsInv, DeviceInv
<1>2. call = [u \in Tasks |-> call[u]] /\ \A u \in Tasks : CallOk(call[u], n, size, acked.piece, seq)
  BY DEF ReadsInv, CallsInv
<1> HIDE DEF n, size
<1>3. \A u \in Tasks : CallOk(call[u], n, size, acked'.piece, seq')
  BY <1>1, <1>2, CallLater
<1>4. CallOk(Idle, n, size, acked'.piece, seq')
  BY <1>1, IdleOk
<1>5. call' = [u \in Tasks |-> call'[u]] /\ \A u \in Tasks : CallOk(call'[u], n, size, acked'.piece, seq')
  BY <1>2, <1>3, <1>4
<1>6. inst'.count = n /\ inst'.profile.size = size
  BY DEF n, size
<1> QED BY <1>5, <1>6 DEF CallsInv

\* A field set: acknowledged, or raised with the device reached or not.
LEMMA FieldSet ==
    ASSUME ReadsInv, UNCHANGED <<inst, profile, pieces>>, NEW f \in Fields, NEW v, v = dev[f] + 1,
           Committed(Bumped(f), [held EXCEPT ![f] = v], [acked EXCEPT ![f] = v], {f})
    PROVE  /\ DeviceInv' /\ HeldInv'
           /\ (UNCHANGED <<acked, seq>>) \/ seq' = seq + 1
<1> DEFINE n == inst.count
<1>1. /\ n \in Nat /\ dev \in Left(n) /\ acked \in Left(n) /\ seq \in Nat
      /\ \A g \in Fields : acked[g] <= dev[g] /\ acked[g] \in Nat /\ dev[g] \in Nat
      /\ \A s \in 0 .. n - 1 : acked.piece[s] <= dev.piece[s]
  BY RoutedFacts, LeftFacts DEF ReadsInv, DeviceInv
<1>2. v \in Nat /\ acked[f] <= v
  BY <1>1
<1> DEFINE d == [dev EXCEPT ![f] = v]
           b == [acked EXCEPT ![f] = v]
           h == [held EXCEPT ![f] = v]
<1>3. d = Bumped(f)
  BY DEF Bumped
<1>4. /\ d \in Left(n) /\ d[f] = v /\ d.piece = dev.piece /\ \A g \in Fields \ {f} : d[g] = dev[g]
      /\ b \in Left(n) /\ b[f] = v /\ b.piece = acked.piece /\ \A g \in Fields \ {f} : b[g] = acked[g]
  BY <1>1, <1>2, FieldChange
<1>5. IsHeld(held)
  BY DEF ReadsInv, HeldInv
<1>6. IsHeld(h) /\ h[f] = v /\ h.segs = held.segs /\ \A g \in Fields \ {f} : h[g] = held[g]
  <2>1. h = [held EXCEPT ![f] = v] /\ IsHeld(held)
    BY <1>5
  <2> HIDE DEF h
  <2>2. CASE f = "power"
    BY <2>1, <2>2 DEF IsHeld, Fields
  <2>3. CASE f = "level"
    BY <2>1, <2>3 DEF IsHeld, Fields
  <2>4. CASE f = "mode"
    BY <2>1, <2>4 DEF IsHeld, Fields
  <2>5. CASE f = "gradual"
    BY <2>1, <2>5 DEF IsHeld, Fields
  <2> QED BY <2>2, <2>3, <2>4, <2>5 DEF Fields
<1>7. "segs" \notin Fields
  BY DEF Fields
<1>8. \/ dev' = d /\ held' = h /\ acked' = b /\ seq' = seq + 1 /\ tainted' = tainted \ {f}
      \/ dev' \in {dev, d} /\ UNCHANGED <<held, acked, seq, tainted>>
  BY <1>3 DEF Committed
<1> HIDE DEF d, b, h, n
<1>9. CASE dev' = d /\ held' = h /\ acked' = b /\ seq' = seq + 1 /\ tainted' = tainted \ {f}
  <2>1. /\ dev' \in Left(n) /\ acked' \in Left(n) /\ seq' \in Nat /\ acked'.piece = acked.piece
        /\ \A s \in 0 .. n - 1 : acked'.piece[s] <= dev'.piece[s]
    BY <1>1, <1>4, <1>9
  <2>2. \A g \in Fields : acked'[g] <= dev'[g]
    <3> SUFFICES ASSUME NEW g \in Fields PROVE acked'[g] <= dev'[g]
      OBVIOUS
    <3>1. CASE g = f
      BY <1>2, <1>4, <1>9, <3>1
    <3>2. CASE g # f
      BY <1>1, <1>4, <1>9, <3>2
    <3> QED BY <3>1, <3>2
  <2>3. \A g \in Fields : held'[g] \in Nat /\ (g \notin tainted' => held'[g] >= acked'[g])
    <3> SUFFICES ASSUME NEW g \in Fields PROVE held'[g] \in Nat /\ (g \notin tainted' => held'[g] >= acked'[g])
      OBVIOUS
    <3>1. CASE g = f
      BY <1>2, <1>4, <1>6, <1>9, <3>1
    <3>2. CASE g # f
      <4>1. held'[g] = held[g] /\ acked'[g] = acked[g] /\ (g \notin tainted' => g \notin tainted)
        BY <1>4, <1>6, <1>9, <3>2
      <4> QED BY <4>1 DEF ReadsInv, HeldInv
    <3> QED BY <3>1, <3>2
  <2>4. "segs" \notin tainted' => SegsOk(acked'.piece, held'.segs)
    BY <1>6, <1>7, <1>9, <2>1 DEF ReadsInv, HeldInv
  <2>5. DeviceInv'
    BY <2>1, <2>2 DEF ReadsInv, DeviceInv, n
  <2>6. HeldInv'
    BY <1>6, <1>9, <2>3, <2>4 DEF HeldInv
  <2> QED BY <1>9, <2>5, <2>6
<1>10. CASE dev' \in {dev, d} /\ UNCHANGED <<held, acked, seq, tainted>>
  <2>1. dev' \in Left(n) /\ dev'.piece = dev.piece
    BY <1>1, <1>4, <1>10
  <2>2. \A g \in Fields : acked'[g] <= dev'[g]
    <3> SUFFICES ASSUME NEW g \in Fields PROVE acked'[g] <= dev'[g]
      OBVIOUS
    <3>1. CASE g = f
      BY <1>1, <1>2, <1>4, <1>10, <3>1
    <3>2. CASE g # f
      BY <1>1, <1>4, <1>10, <3>2
    <3> QED BY <3>1, <3>2
  <2>3. DeviceInv'
    BY <1>1, <1>10, <2>1, <2>2 DEF ReadsInv, DeviceInv, n
  <2>4. HeldInv'
    BY <1>10 DEF ReadsInv, HeldInv
  <2> QED BY <1>10, <2>3, <2>4
<1> QED BY <1>8, <1>9, <1>10

\* Somebody else's change of a field.
LEMMA FieldTouched ==
    ASSUME ReadsInv, NEW f \in Fields, Touch(f)
    PROVE  DeviceInv'
<1> DEFINE n == inst.count
<1>1. /\ n \in Nat /\ dev \in Left(n)
      /\ \A g \in Fields : acked[g] <= dev[g] /\ acked[g] \in Nat /\ dev[g] \in Nat
  BY RoutedFacts, LeftFacts DEF ReadsInv, DeviceInv
<1> DEFINE v == dev[f] + 1
           d == [dev EXCEPT ![f] = v]
<1>2. dev' = d /\ UNCHANGED <<inst, profile, pieces, seq, acked>>
  BY DEF Touch, Touched, Bumped
<1>3. v \in Nat /\ v >= acked[f]
  BY <1>1
<1> HIDE DEF v
<1>4. d \in Left(n) /\ d[f] = v /\ d.piece = dev.piece /\ \A g \in Fields \ {f} : d[g] = dev[g]
  BY <1>1, <1>3, FieldChange
<1> HIDE DEF d, n
<1>5. \A g \in Fields : acked[g] <= d[g]
  BY <1>1, <1>3, <1>4
<1> QED BY <1>2, <1>4, <1>5 DEF ReadsInv, DeviceInv, n

\* A piece coloured, and somebody else's change of a piece.
LEMMA PieceSet ==
    ASSUME ReadsInv, NEW s \in DOMAIN dev.piece, SetPiece(s)
    PROVE  /\ DeviceInv' /\ HeldInv'
           /\ (UNCHANGED <<acked, seq>>) \/ seq' = seq + 1
<1> DEFINE n == inst.count
           v == dev.piece[s] + 1
           d == [dev EXCEPT !.piece[s] = v]
           b == [acked EXCEPT !.piece[s] = v]
           segs == Merged(s, d)
           h == [held EXCEPT !.segs = segs]
<1>1. /\ n \in Nat /\ dev \in Left(n) /\ acked \in Left(n) /\ seq \in Nat
      /\ dev.piece \in [0 .. n - 1 -> Nat] /\ acked.piece \in [0 .. n - 1 -> Nat]
      /\ \A f \in Fields : acked[f] <= dev[f]
      /\ \A x \in 0 .. n - 1 : acked.piece[x] <= dev.piece[x]
  BY RoutedFacts, LeftFacts DEF ReadsInv, DeviceInv
<1>2. s \in 0 .. n - 1 /\ v \in Nat /\ acked.piece[s] <= v
  BY <1>1
<1>3. /\ \/ dev' = d /\ held' = h /\ acked' = b /\ seq' = seq + 1 /\ tainted' = tainted \ {}
         \/ dev' \in {dev, d} /\ UNCHANGED <<held, acked, seq, tainted>>
      /\ UNCHANGED <<inst, profile, pieces>>
  BY DEF SetPiece, Committed, PieceBumped
<1> HIDE DEF n, v
<1>4. /\ d \in Left(n) /\ d.piece[s] = v
      /\ \A x \in 0 .. n - 1 : x # s => d.piece[x] = dev.piece[x]
      /\ \A f \in Fields : d[f] = dev[f]
  <2>1. d = [dev EXCEPT !.piece[s] = v]
    OBVIOUS
  <2> HIDE DEF d
  <2> QED BY <1>1, <1>2, <2>1, PieceChange
<1>5. /\ b \in Left(n) /\ b.piece[s] = v
      /\ \A x \in 0 .. n - 1 : x # s => b.piece[x] = acked.piece[x]
      /\ \A f \in Fields : b[f] = acked[f]
  <2>1. b = [acked EXCEPT !.piece[s] = v]
    OBVIOUS
  <2> HIDE DEF b
  <2> QED BY <1>1, <1>2, <2>1, PieceChange
<1>6. d.piece \in [0 .. n - 1 -> Nat] /\ b.piece \in [0 .. n - 1 -> Nat]
  BY <1>1, <1>4, <1>5, LeftFacts
<1> HIDE DEF b
<1>7. SegsOk(acked.piece, held.segs) => SegsOk(b.piece, segs)
  <2> SUFFICES ASSUME SegsOk(acked.piece, held.segs), NEW x \in DOMAIN segs
               PROVE  RecordOk(b.piece, x, segs[x])
    BY DEF SegsOk
  <2> HIDE DEF d
  <2>1. x \in DOMAIN held.segs \cup {s} /\ segs[x] = IF x = s THEN PieceAt(d, s) ELSE held.segs[x]
    BY DEF Merged
  <2> HIDE DEF segs
  <2>2. CASE x = s
    <3>1. PieceAt(d, s).piece = s /\ PieceAt(d, s).ver = d.piece[s]
      BY <1>2, <1>6 DEF PieceAt
    <3>2. s \in DOMAIN b.piece /\ segs[x] = PieceAt(d, s) /\ b.piece[s] = v /\ d.piece[s] = v
      BY <1>2, <1>4, <1>5, <1>6, <2>1, <2>2
    <3>3. v >= v
      BY <1>2
    <3> QED BY <1>2, <2>2, <3>1, <3>2, <3>3 DEF RecordOk
  <2>3. CASE x # s
    <3>1. RecordOk(acked.piece, x, held.segs[x])
      BY <2>1, <2>3 DEF SegsOk
    <3>2. x \in 0 .. n - 1
      BY <1>1, <3>1 DEF RecordOk
    <3>3. b.piece[x] = acked.piece[x] /\ x \in DOMAIN b.piece
      BY <1>5, <1>6, <2>3, <3>2
    <3> QED BY <2>1, <2>3, <3>1, <3>3 DEF RecordOk
  <2> QED BY <2>2, <2>3
<1> HIDE DEF segs, d
<1>8. IsHeld(h) /\ h.segs = segs /\ \A f \in Fields : h[f] = held[f]
  <2>1. h = [held EXCEPT !.segs = segs] /\ IsHeld(held)
    BY DEF ReadsInv, HeldInv
  <2> HIDE DEF h
  <2> QED BY <2>1 DEF IsHeld, Fields
<1> HIDE DEF h
<1>9. CASE dev' = d /\ held' = h /\ acked' = b /\ seq' = seq + 1 /\ tainted' = tainted \ {}
  <2>1. \A x \in 0 .. n - 1 : b.piece[x] <= d.piece[x]
    <3> SUFFICES ASSUME NEW x \in 0 .. n - 1 PROVE b.piece[x] <= d.piece[x]
      OBVIOUS
    <3>1. CASE x = s
      BY <1>2, <1>4, <1>5, <3>1
    <3>2. CASE x # s
      BY <1>1, <1>4, <1>5, <3>2
    <3> QED BY <3>1, <3>2
  <2>2. \A f \in Fields : b[f] <= d[f]
    BY <1>1, <1>4, <1>5
  <2>3. DeviceInv'
    BY <1>1, <1>3, <1>4, <1>5, <1>9, <2>1, <2>2 DEF ReadsInv, DeviceInv, n
  <2>4. tainted' = tainted
    BY <1>9
  <2>5. \A f \in Fields : held'[f] \in Nat /\ (f \notin tainted' => held'[f] >= acked'[f])
    BY <1>5, <1>8, <1>9, <2>4 DEF ReadsInv, HeldInv
  <2>6. "segs" \notin tainted' => SegsOk(acked'.piece, held'.segs)
    BY <1>7, <1>8, <1>9, <2>4 DEF ReadsInv, HeldInv
  <2>7. HeldInv'
    BY <1>8, <1>9, <2>5, <2>6 DEF HeldInv
  <2> QED BY <1>9, <2>3, <2>7
<1>10. CASE dev' \in {dev, d} /\ UNCHANGED <<held, acked, seq, tainted>>
  <2>1. /\ dev' \in Left(n) /\ \A f \in Fields : acked[f] <= dev'[f]
        /\ \A x \in 0 .. n - 1 : acked.piece[x] <= dev'.piece[x]
    <3>1. \A x \in 0 .. n - 1 : acked.piece[x] <= d.piece[x]
      <4> SUFFICES ASSUME NEW x \in 0 .. n - 1 PROVE acked.piece[x] <= d.piece[x]
        OBVIOUS
      <4>1. CASE x = s
        BY <1>2, <1>4, <4>1
      <4>2. CASE x # s
        BY <1>1, <1>4, <4>2
      <4> QED BY <4>1, <4>2
    <3> QED BY <1>1, <1>4, <1>10, <3>1
  <2>2. DeviceInv'
    BY <1>3, <1>10, <2>1 DEF ReadsInv, DeviceInv, n
  <2>3. HeldInv'
    BY <1>10 DEF ReadsInv, HeldInv
  <2> QED BY <1>10, <2>2, <2>3
<1> QED BY <1>3, <1>9, <1>10

LEMMA PieceTouched ==
    ASSUME ReadsInv, NEW s \in DOMAIN dev.piece, TouchPiece(s)
    PROVE  DeviceInv'
<1> DEFINE n == inst.count
           v == dev.piece[s] + 1
           d == [dev EXCEPT !.piece[s] = v]
<1>1. /\ n \in Nat /\ dev \in Left(n)
      /\ dev.piece \in [0 .. n - 1 -> Nat] /\ acked.piece \in [0 .. n - 1 -> Nat]
      /\ \A f \in Fields : acked[f] <= dev[f]
      /\ \A x \in 0 .. n - 1 : acked.piece[x] <= dev.piece[x]
  BY RoutedFacts, LeftFacts DEF ReadsInv, DeviceInv
<1>2. s \in 0 .. n - 1 /\ v \in Nat /\ acked.piece[s] <= v
  BY <1>1
<1>3. dev' = d /\ UNCHANGED <<inst, profile, pieces, seq, acked>>
  BY DEF TouchPiece, Touched, PieceBumped
<1> HIDE DEF n, v
<1>4. /\ d \in Left(n) /\ d.piece[s] = v
      /\ \A x \in 0 .. n - 1 : x # s => d.piece[x] = dev.piece[x]
      /\ \A f \in Fields : d[f] = dev[f]
  <2>1. d = [dev EXCEPT !.piece[s] = v]
    OBVIOUS
  <2> HIDE DEF d
  <2> QED BY <1>1, <1>2, <2>1, PieceChange
<1> HIDE DEF d
<1>5. \A x \in 0 .. n - 1 : acked.piece[x] <= d.piece[x]
  <2> SUFFICES ASSUME NEW x \in 0 .. n - 1 PROVE acked.piece[x] <= d.piece[x]
    OBVIOUS
  <2>1. CASE x = s
    BY <1>2, <1>4, <2>1
  <2>2. CASE x # s
    BY <1>1, <1>4, <2>2
  <2> QED BY <2>1, <2>2
<1> QED BY <1>1, <1>3, <1>4, <1>5 DEF ReadsInv, DeviceInv, n

\* A call begins at the first stage that has something to read.
LEMMA BeginOk ==
    ASSUME ReadsInv, NEW t \in Tasks, NEW c, IsCall(c), c.todo \in Seq(Stages), Begin(t, c),
           UNCHANGED <<profile, inst, seq, acked>>
    PROVE  CallsInv'
<1> DEFINE n == inst.count
           size == inst.profile.size
           a == acked.piece
           next == NextStage(c, held, pieces, infoRead, seq)
<1>1. call' = [call EXCEPT ![t] = next]
  BY DEF Begin
<1>2. inst \in Instances /\ profile \in Routed(inst) /\ PiecesOk(pieces, inst) /\ seq \in Nat
  BY DEF ReadsInv, DeviceInv
<1>3. CallOk(next, n, size, a, seq)
  BY <1>2, NextStageOk
<1>4. call = [u \in Tasks |-> call[u]] /\ \A u \in Tasks : CallOk(call[u], n, size, a, seq)
  BY DEF ReadsInv, CallsInv
<1> HIDE DEF next
<1>5. call' = [u \in Tasks |-> call'[u]] /\ \A u \in Tasks : CallOk(call'[u], n, size, a, seq)
  BY <1>1, <1>3, <1>4
<1> QED BY <1>5 DEF CallsInv

LEMMA PollStagesOk == ASSUME NEW p PROVE PollStages(p) \in Seq(Stages)
<1>1. /\ <<>> \in Seq(Stages)
      /\ <<"power", "level", "detail", "bars", "sections", "mode", "ic", "walk", "gradual", "info">> \in Seq(Stages)
      /\ <<"plug", "info">> \in Seq(Stages)
      /\ <<"status", "ic", "walk", "gradual", "info">> \in Seq(Stages)
      /\ <<"ic", "walk", "gradual">> \in Seq(Stages)
  BY DEF Stages
<1> QED BY <1>1 DEF PollStages

\* An advertisement may reroute the profile, to one that counts the same pieces.
LEMMA AirKeepsReads == ReadsInv /\ Air => ReadsInv'
<1> SUFFICES ASSUME ReadsInv, Air PROVE ReadsInv'
  OBVIOUS
<1>1. UNCHANGED <<inst, dev, held, pieces, seq, call, late, acked, tainted>>
  BY DEF Air, readVars
<1>2. inst \in Instances /\ profile \in Routed(inst)
  BY DEF ReadsInv, DeviceInv
<1>3. ASSUME NEW e, NEW own, Heard(e, own) PROVE profile' \in Routed(inst)
  <2>1. profile' = profile \/ \E pact : profile' = RoutedProfile(profile, pact)
    BY <1>3 DEF Heard, Ingest
  <2> QED BY <1>2, <2>1, RoutedAgain
<1>4. ASSUME OwnFrame PROVE profile' \in Routed(inst)
  BY <1>3, <1>4 DEF OwnFrame
<1>5. ASSUME NEW k \in ForeignKeys, NEW pact \in AirPacts, NEW on \in {"on", "off"}, ForeignFrame(k, pact, on)
      PROVE  profile' \in Routed(inst)
  <2> DEFINE e == [key |-> k, pact |-> pact, on |-> on]
  <2>1. Heard(e, aired)
    BY <1>5 DEF ForeignFrame
  <2> HIDE DEF e
  <2> QED BY <1>3, <2>1
<1>6. ASSUME Switch PROVE profile' \in Routed(inst)
  BY <1>2, <1>6 DEF Switch
<1>7. ASSUME NEW k \in OwnKeys, NEW pact \in AirPacts, NewHeader(k, pact) PROVE profile' \in Routed(inst)
  BY <1>2, <1>7 DEF NewHeader
<1>8. profile' \in Routed(inst)
  BY <1>3, <1>4, <1>5, <1>6, <1>7 DEF Air
<1>9. DeviceInv' /\ HeldInv' /\ CallsInv' /\ LateInv'
  <2>1. DeviceInv'
    BY <1>1, <1>8 DEF ReadsInv, DeviceInv
  <2>2. HeldInv'
    BY <1>1 DEF ReadsInv, HeldInv
  <2>3. CallsInv'
    BY <1>1 DEF ReadsInv, CallsInv
  <2>4. LateInv'
    BY <1>1 DEF ReadsInv, LateInv, LateOk
  <2> QED BY <2>1, <2>2, <2>3, <2>4
<1> QED BY <1>9 DEF ReadsInv

\* What a read comes back with fits it.
LEMMA CameOk ==
    ASSUME ReadsInv, NEW t \in Tasks, Answered(t) \/ Unanswered(t) \/ LateTaken(t)
    PROVE  \E answer : /\ OnWire(t) /\ Replied(t, answer) /\ AnswerOk(t, answer)
                       /\ \/ late' = {} \/ late' = late
                          \/ late' = {OwnReply(t)} /\ Head(call[t].reads).cmd # "status"
<1>1. CASE Answered(t)
  <2> DEFINE answer == {OwnReply(t)}
  <2>1. OnWire(t) /\ Replied(t, answer) /\ late' = {}
    BY <1>1 DEF Answered
  <2>2. AnswerOk(t, answer)
    BY <2>1, OwnFits DEF AnswerOk
  <2> QED BY <2>1, <2>2
<1>2. CASE Unanswered(t)
  <2>1. OnWire(t) /\ Replied(t, {})
        /\ (late' = {} \/ late' = late \/ (late' = {OwnReply(t)} /\ Head(call[t].reads).cmd # "status"))
    BY <1>2 DEF Unanswered
  <2>2. AnswerOk(t, {})
    BY DEF AnswerOk
  <2> QED BY <2>1, <2>2
<1>3. CASE LateTaken(t)
  <2>1. PICK x \in late : Matches(Head(call[t].reads), x)
    BY <1>3 DEF LateTaken
  <2>2. OnWire(t) /\ Replied(t, late) /\ late' \in {{}, {OwnReply(t)}}
    BY <1>3 DEF LateTaken
  <2>3. late = {x} /\ Fits(t, x)
    BY <2>1, LateFits
  <2>4. AnswerOk(t, late)
    BY <2>3 DEF AnswerOk
  <2>5. LateOk(x)
    BY <2>3 DEF ReadsInv, LateInv
  <2>6. Head(call[t].reads).cmd # "status"
    BY <2>1, <2>5 DEF LateOk, Matches
  <2> QED BY <2>2, <2>4, <2>6
<1> QED BY <1>1, <1>2, <1>3

\* A task's steps.
LEMMA TaskKeepsReads ==
    ASSUME ReadsInv, NEW t \in Tasks,
           \/ Update(t) \/ \E name \in Names : SetSceneByName(t, name)
           \/ Answered(t) \/ Unanswered(t) \/ LateTaken(t) \/ Fails(t) \/ PlayScene(t)
    PROVE  ReadsInv'
<1>1. CASE Update(t)
  <2> DEFINE c == [Idle EXCEPT !.todo = PollStages(profile)]
  <2>1. Begin(t, c) /\ UNCHANGED <<profile, inst, dev, held, pieces, seq, late, acked, tainted>>
    BY <1>1 DEF Update
  <2>2. IsCall(c) /\ c.todo \in Seq(Stages)
    <3> DEFINE todo == PollStages(profile)
    <3>1. todo \in Seq(Stages)
      BY PollStagesOk
    <3>2. c = [Idle EXCEPT !.todo = todo]
      OBVIOUS
    <3> HIDE DEF todo, c
    <3> QED BY <3>1, <3>2 DEF Idle, IsCall
  <2> HIDE DEF c
  <2>3. CallsInv'
    BY <2>1, <2>2, BeginOk
  <2> QED BY <2>1, <2>3 DEF ReadsInv, DeviceInv, HeldInv, LateInv, LateOk
<1>2. ASSUME NEW name \in Names, SetSceneByName(t, name) PROVE ReadsInv'
  <2> DEFINE c == [Idle EXCEPT !.todo = <<"version", "load">>, !.name = name]
  <2>1. Begin(t, c) /\ UNCHANGED <<profile, inst, dev, held, pieces, seq, late, acked, tainted>>
    BY <1>2 DEF SetSceneByName
  <2>2. IsCall(c) /\ c.todo \in Seq(Stages)
    <3> DEFINE todo == <<"version", "load">>
    <3>1. todo \in Seq(Stages)
      BY DEF Stages
    <3>2. c = [Idle EXCEPT !.todo = todo, !.name = name]
      OBVIOUS
    <3> HIDE DEF todo, c
    <3> QED BY <3>1, <3>2 DEF Idle, IsCall
  <2> HIDE DEF c
  <2>3. CallsInv'
    BY <2>1, <2>2, BeginOk
  <2> QED BY <2>1, <2>3 DEF ReadsInv, DeviceInv, HeldInv, LateInv, LateOk
<1>3. ASSUME OnWire(t) PROVE /\ Fits(t, OwnReply(t))
                             /\ Head(call[t].reads).cmd # "status" => LateOk(OwnReply(t))
  <2>1. Fits(t, OwnReply(t)) /\ Head(call[t].reads) \in Request
    BY <1>3, OwnFits
  <2> QED BY <2>1 DEF Fits, LateOk, OwnReply
\* An answer that fits leaves the reads right, whatever is still to come.
<1>4. ASSUME NEW answer, OnWire(t), AnswerOk(t, answer), Replied(t, answer),
             late' = {} \/ late' = late
               \/ (late' = {OwnReply(t)} /\ Head(call[t].reads).cmd # "status")
      PROVE  ReadsInv'
  <2>1. DeviceInv' /\ HeldInv' /\ CallsInv'
    BY <1>4, RepliedOk
  <2>2. UNCHANGED <<inst, dev>>
    BY <1>4 DEF Replied
  <2>3. \A x : LateOk(x) => LateOk(x)'
    BY <2>2 DEF LateOk
  <2>4. LateInv'
    <3>1. late' = {} \/ \E x : late' = {x} /\ LateOk(x)
      BY <1>3, <1>4 DEF ReadsInv, LateInv
    <3> QED BY <2>2, <3>1 DEF LateInv, LateOk
  <2> QED BY <2>1, <2>4 DEF ReadsInv
<1>5. CASE Answered(t) \/ Unanswered(t) \/ LateTaken(t)
  BY <1>4, <1>5, CameOk
<1>8. CASE Fails(t)
  <2>1. call' = [call EXCEPT ![t] = Idle] /\ late' = {}
        /\ UNCHANGED <<profile, inst, dev, held, pieces, seq, acked, tainted>>
    BY <1>8 DEF Fails
  <2>2. CallsInv'
    BY <2>1, CallsOk
  <2> QED BY <2>1, <2>2 DEF ReadsInv, DeviceInv, HeldInv, LateInv
<1>9. CASE PlayScene(t)
  <2> DEFINE v == dev.mode + 1
  <2>1. /\ call' = [call EXCEPT ![t] = Idle] /\ UNCHANGED <<profile, inst, pieces, late>>
        /\ \/ UNCHANGED <<dev, held, acked, seq, tainted>>
           \/ Committed(Bumped("mode"), [held EXCEPT !.mode = v], [acked EXCEPT !.mode = v], {"mode"})
    BY <1>9 DEF PlayScene
  <2>2. CASE UNCHANGED <<dev, held, acked, seq, tainted>>
    <3>1. CallsInv'
      BY <2>1, <2>2, CallsOk
    <3> QED BY <2>1, <2>2, <3>1 DEF ReadsInv, DeviceInv, HeldInv, LateInv, LateOk
  <2>3. CASE Committed(Bumped("mode"), [held EXCEPT !.mode = v], [acked EXCEPT !.mode = v], {"mode"})
    <3>1. "mode" \in Fields /\ v = dev["mode"] + 1
      BY DEF Fields
    <3>2. DeviceInv' /\ HeldInv' /\ ((UNCHANGED <<acked, seq>>) \/ seq' = seq + 1)
      BY <2>1, <2>3, <3>1, FieldSet
    <3>3. CallsInv'
      BY <2>1, <3>2, CallsOk
    <3> QED BY <2>1, <3>2, <3>3 DEF ReadsInv, LateInv, LateOk
  <2> QED BY <2>1, <2>2, <2>3
<1> QED BY <1>1, <1>2, <1>5, <1>8, <1>9

\* The setters' steps, and other hands'.
LEMMA SetterKeepsReads ==
    ASSUME ReadsInv,
           \/ \E f \in Fields : SetField(f) \/ Touch(f)
           \/ \E s \in DOMAIN dev.piece : SetPiece(s) \/ TouchPiece(s)
    PROVE  ReadsInv'
<1>1. ASSUME UNCHANGED <<inst, profile, call, late>>, (UNCHANGED <<acked, seq>>) \/ seq' = seq + 1
      PROVE  CallsInv' /\ LateInv'
  <2>1. CallsInv'
    <3>1. CASE Tasks = {}
      BY <1>1, <3>1 DEF ReadsInv, CallsInv
    <3>2. CASE Tasks # {}
      BY <1>1, <3>2, CallsOk
    <3> QED BY <3>1, <3>2
  <2> QED BY <1>1, <2>1 DEF ReadsInv, LateInv, LateOk
<1>2. ASSUME NEW f \in Fields, SetField(f) PROVE ReadsInv'
  <2> DEFINE v == dev[f] + 1
  <2>1. /\ Committed(Bumped(f), [held EXCEPT ![f] = v], [acked EXCEPT ![f] = v], {f})
        /\ UNCHANGED <<profile, inst, pieces, call, late>>
    BY <1>2 DEF SetField
  <2>2. DeviceInv' /\ HeldInv' /\ ((UNCHANGED <<acked, seq>>) \/ seq' = seq + 1)
    BY <2>1, FieldSet
  <2> QED BY <1>1, <2>1, <2>2 DEF ReadsInv
<1>3. ASSUME NEW f \in Fields, Touch(f) PROVE ReadsInv'
  <2>1. UNCHANGED <<profile, inst, held, call, late, seq, acked, tainted>>
    BY <1>3 DEF Touch, Touched
  <2>2. DeviceInv'
    BY <1>3, FieldTouched
  <2>3. HeldInv'
    BY <2>1 DEF ReadsInv, HeldInv
  <2> QED BY <1>1, <2>1, <2>2, <2>3 DEF ReadsInv
<1>4. ASSUME NEW s \in DOMAIN dev.piece, SetPiece(s) PROVE ReadsInv'
  <2>1. UNCHANGED <<profile, inst, call, late>>
    BY <1>4 DEF SetPiece
  <2>2. DeviceInv' /\ HeldInv' /\ ((UNCHANGED <<acked, seq>>) \/ seq' = seq + 1)
    BY <1>4, PieceSet
  <2> QED BY <1>1, <2>1, <2>2 DEF ReadsInv
<1>5. ASSUME NEW s \in DOMAIN dev.piece, TouchPiece(s) PROVE ReadsInv'
  <2>1. UNCHANGED <<profile, inst, held, call, late, seq, acked, tainted>>
    BY <1>5 DEF TouchPiece, Touched
  <2>2. DeviceInv'
    BY <1>5, PieceTouched
  <2>3. HeldInv'
    BY <2>1 DEF ReadsInv, HeldInv
  <2> QED BY <1>1, <2>1, <2>2, <2>3 DEF ReadsInv
<1> QED BY <1>2, <1>3, <1>4, <1>5

LEMMA ReadsStep == ReadsInv /\ [Next]_vars => ReadsInv'
<1> SUFFICES ASSUME ReadsInv, [Next]_vars PROVE ReadsInv'
  OBVIOUS
<1>1. ASSUME NEW t \in Tasks,
             \/ Update(t) \/ \E name \in Names : SetSceneByName(t, name)
             \/ Answered(t) \/ Unanswered(t) \/ LateTaken(t) \/ Fails(t) \/ PlayScene(t)
      PROVE  ReadsInv'
  BY <1>1, TaskKeepsReads
<1>2. ASSUME \/ \E f \in Fields : SetField(f) \/ Touch(f)
             \/ \E s \in DOMAIN dev.piece : SetPiece(s) \/ TouchPiece(s)
      PROVE  ReadsInv'
  BY <1>2, SetterKeepsReads
<1>3. CASE EnsureSegmentCount
  <2>1. pieces' = inst.count /\ late' = {} /\ UNCHANGED <<profile, inst, dev, held, seq, call, acked, tainted>>
    BY <1>3 DEF EnsureSegmentCount
  <2>2. inst.count # None
    BY RoutedFacts DEF ReadsInv, DeviceInv, None
  <2>3. PiecesOk(pieces', inst')
    BY <2>1, <2>2 DEF PiecesOk
  <2> QED BY <2>1, <2>3 DEF ReadsInv, DeviceInv, HeldInv, CallsInv, LateInv
<1>4. CASE LookUp \/ Shelf
  <2>1. UNCHANGED <<profile, inst, dev, held, pieces, seq, call, late, acked, tainted>>
    BY <1>4 DEF LookUp, Shelf
  <2> QED BY <2>1 DEF ReadsInv, DeviceInv, HeldInv, CallsInv, LateInv, LateOk
<1>5. CASE Air
  BY <1>5, AirKeepsReads
<1>6. CASE UNCHANGED vars
  <2>1. UNCHANGED <<profile, inst, dev, held, pieces, seq, call, late, acked, tainted>>
    BY <1>6 DEF vars, readVars
  <2> QED BY <2>1 DEF ReadsInv, DeviceInv, HeldInv, CallsInv, LateInv, LateOk
<1> QED BY <1>1, <1>2, <1>3, <1>4, <1>5, <1>6 DEF Next

LEMMA ReadsShow == ReadsInv => NewerSetterKept /\ SegmentsOwn
<1> SUFFICES ASSUME ReadsInv PROVE NewerSetterKept /\ SegmentsOwn
  OBVIOUS
<1>1. /\ \A f \in Fields : f \notin tainted => held[f] >= acked[f]
      /\ "segs" \notin tainted => SegsOk(acked.piece, held.segs)
  BY DEF ReadsInv, HeldInv
<1>2. DOMAIN acked.piece = DOMAIN dev.piece
  BY RoutedFacts, LeftFacts DEF ReadsInv, DeviceInv
<1> QED BY <1>1, <1>2 DEF NewerSetterKept, SegmentsOwn, SegsOk, RecordOk

\* What an acknowledged setter has left stays until a read begun after it, or a late reply, whatever
\* polls, walks, setters, failures and advertisements come between (_stale, _read_fresh).
THEOREM NewerSetterAlwaysKept == Spec => []NewerSetterKept
<1>1. ReadsInv => NewerSetterKept
  BY ReadsShow
<1> QED BY ReadsInitially, ReadsStep, <1>1, PTL DEF Spec

\* The segments of the state are pieces the device has, each with its own colour, whichever count the
\* walk went by and whichever groups went unanswered (walk_mechanism_a_direct, walk_mechanism_b, parse_status).
THEOREM SegmentsAlwaysOwn == Spec => []SegmentsOwn
<1>1. ReadsInv => SegmentsOwn
  BY ReadsShow
<1> QED BY ReadsInitially, ReadsStep, <1>1, PTL DEF Spec
-----------------------------------------------------------------------------
(* A scene of the device's own set.                                        *)

SoftRead == Read("soft", 0)
HardRead == Read("info", InfoHard)
OwnSet == SceneVersions(profile, inst.soft, inst.hard, known.pact)
LacksSoft(h) == GatedSoft(profile, TRUE) /\ h.soft # inst.soft
LacksHard(h) == GatedHard(profile, TRUE) /\ h.hard # inst.hard
SceneStages == {"version", "load"}

\* A poll; a scene whose set waits for the versions it still asks for; or one whose set is the device's own.
Polls(todo) == \A i \in DOMAIN todo : todo[i] \notin SceneStages
Asks(c, h) ==
    /\ c.reads \in {<<SoftRead>>, <<HardRead>>, <<SoftRead, HardRead>>}
    /\ \/ c.unread
       \/ /\ LacksSoft(h) => c.reads \in {<<SoftRead>>, <<SoftRead, HardRead>>}
          /\ LacksHard(h) => c.reads \in {<<HardRead>>, <<SoftRead, HardRead>>}
SceneCall(c, h) ==
    \/ Polls(c.todo)
    \/ c.todo = <<"version", "load">> /\ Asks(c, h)
    \/ c.todo = <<"load">> /\ (profile.infoReads /\ ~c.unread => c.set = OwnSet)

VersionsOwn(h) == h.soft \in {0, inst.soft} /\ h.hard \in {0, inst.hard}
SceneInv ==
    /\ profile = inst.profile /\ VersionsOwn(held)
    /\ \A t \in Tasks : SceneCall(call[t], held)
    /\ SceneOffered

LEMMA IdlePolls == Polls(Idle.todo)
<1>1. Idle.todo = <<>> /\ DOMAIN <<>> = {}
  BY DEF Idle
<1> QED BY <1>1 DEF Polls

\* The versions no gate tests do not matter for the set.
LEMMA SameSet ==
    ASSUME NEW p, CheckSceneVersions(p), NEW pact, NEW s1, NEW h1, NEW s2, NEW h2,
           GatedSoft(p, TRUE) => s1 = s2, GatedHard(p, TRUE) => h1 = h2
    PROVE  SceneVersions(p, s1, h1, pact) = SceneVersions(p, s2, h2, pact)
<1>1. ASSUME NEW i \in DOMAIN p.setsByFirmware
      PROVE  /\ Meets(s1, p.setsByFirmware[i].soft) <=> Meets(s2, p.setsByFirmware[i].soft)
             /\ Meets(h1, p.setsByFirmware[i].hard) <=> Meets(h2, p.setsByFirmware[i].hard)
  <2> DEFINE e == p.setsByFirmware[i]
  <2>1. e \in Indexed(p.setsByFirmware)
    BY DEF Indexed
  <2>2. e.soft \in Nat /\ e.hard \in Nat
    BY DEF CheckSceneVersions
  <2>3. e.soft = 0 \/ s1 = s2
    BY <2>1, <2>2 DEF GatedSoft
  <2>4. e.hard = 0 \/ h1 = h2
    BY <2>1, <2>2 DEF GatedHard
  <2> QED BY <2>3, <2>4 DEF Meets
<1> DEFINE met(s, h) == {i \in DOMAIN p.setsByFirmware : /\ Meets(s, p.setsByFirmware[i].soft)
                                                        /\ Meets(h, p.setsByFirmware[i].hard)}
           keyed == {e \in p.setsByPact : e.pact = pact}
           base == IF keyed = {} THEN p.sets ELSE (CHOOSE e \in keyed : TRUE).set
           of(M) == IF M = {} THEN base ELSE p.setsByFirmware[Max(M)].set
<1>2. met(s1, h1) = met(s2, h2)
  BY <1>1
<1>3. \A s, h : SceneVersions(p, s, h, pact) = of(met(s, h))
  BY Zenon DEF SceneVersions
<1> HIDE DEF of, met
<1> QED BY <1>2, <1>3

LEMMA ReadsDiffer == <<SoftRead>> # <<HardRead>> /\ SoftRead # HardRead
<1>1. SoftRead.cmd # HardRead.cmd
  BY DEF SoftRead, HardRead, Read
<1> QED BY <1>1

\* What is missing for a scene is what a gate tests and was not read yet.
LEMMA MissingIs ==
    ASSUME NEW h, VersionsOwn(h)
    PROVE  LET m == Missing(profile, h, TRUE)
           IN  \/ m = <<>> /\ (profile.infoReads => ~LacksSoft(h) /\ ~LacksHard(h))
               \/ /\ m \in {<<SoftRead>>, <<HardRead>>, <<SoftRead, HardRead>>}
                  /\ LacksSoft(h) => m \in {<<SoftRead>>, <<SoftRead, HardRead>>}
                  /\ LacksHard(h) => m \in {<<HardRead>>, <<SoftRead, HardRead>>}
<1> DEFINE m == Missing(profile, h, TRUE)
           soft == GatedSoft(profile, TRUE) /\ h.soft = 0
           hard == GatedHard(profile, TRUE) /\ h.hard = 0
<1>1. LacksSoft(h) => soft
  BY DEF LacksSoft, VersionsOwn
<1>2. LacksHard(h) => hard
  BY DEF LacksHard, VersionsOwn
<1>3. m = IF ~profile.infoReads THEN <<>>
          ELSE (IF soft THEN <<SoftRead>> ELSE <<>>) \o (IF hard THEN <<HardRead>> ELSE <<>>)
  BY Zenon DEF Missing, One, SoftRead, HardRead
<1> HIDE DEF m, soft, hard
<1>4. CASE ~profile.infoReads
  BY <1>3, <1>4 DEF m
<1>5. CASE profile.infoReads /\ ~soft /\ ~hard
  <2>1. m = <<>>
    BY <1>3, <1>5
  <2> QED BY <1>1, <1>2, <1>5, <2>1 DEF m
<1>6. CASE profile.infoReads /\ soft /\ ~hard
  <2>1. m = <<SoftRead>>
    BY <1>3, <1>6
  <2> QED BY <1>2, <1>6, <2>1 DEF m
<1>7. CASE profile.infoReads /\ ~soft /\ hard
  <2>1. m = <<HardRead>>
    BY <1>3, <1>7
  <2> QED BY <1>1, <1>7, <2>1 DEF m
<1>8. CASE profile.infoReads /\ soft /\ hard
  <2>1. \A x, y \in Request : <<x>> \o <<y>> = <<x, y>>
    <3>1. \A p, q \in Seq(Request) : Len(p) = 1 /\ Len(q) = 1 =>
              p \o q \in Seq(Request) /\ Len(p \o q) = 2 /\ (p \o q)[1] = p[1] /\ (p \o q)[2] = q[1]
      <4> SUFFICES ASSUME NEW p \in Seq(Request), NEW q \in Seq(Request), Len(p) = 1, Len(q) = 1
                   PROVE  p \o q \in Seq(Request) /\ Len(p \o q) = 2 /\ (p \o q)[1] = p[1] /\ (p \o q)[2] = q[1]
        OBVIOUS
      <4>1. /\ p \o q \in Seq(Request) /\ Len(p \o q) = Len(p) + Len(q)
            /\ \A i \in 1 .. Len(p) + Len(q) : (p \o q)[i] = IF i <= Len(p) THEN p[i] ELSE q[i - Len(p)]
        BY ConcatProperties
      <4> QED BY <4>1
    <3>2. \A x, y \in Request : LET p == <<x>> q == <<y>> IN
              /\ p \in Seq(Request) /\ Len(p) = 1 /\ p[1] = x
              /\ q \in Seq(Request) /\ Len(q) = 1 /\ q[1] = y
      OBVIOUS
    <3>3. \A x, y \in Request, r \in Seq(Request) : Len(r) = 2 /\ r[1] = x /\ r[2] = y => r = <<x, y>>
      OBVIOUS
    <3> QED BY <3>1, <3>2, <3>3
  <2>2. m = <<SoftRead>> \o <<HardRead>>
    BY <1>3, <1>8
  <2>4. SoftRead \in Request /\ HardRead \in Request
    BY DEF SoftRead, HardRead, Read, Request, Cmds, InfoHard
  <2>3. m = <<SoftRead, HardRead>>
    BY <2>1, <2>2, <2>4
  <2> QED BY <1>8, <2>3 DEF m
<1> QED BY <1>4, <1>5, <1>6, <1>7, <1>8

\* What a scene takes for its set once nothing is missing is the device's own.
LEMMA SetIsOwn ==
    ASSUME inst \in Instances, profile = inst.profile, NEW h, ~LacksSoft(h), ~LacksHard(h)
    PROVE  SceneVersions(profile, h.soft, h.hard, known.pact) = OwnSet
<1>1. CheckSceneVersions(profile)
  BY DeviceReadsAssumption DEF ValidReads
<1> DEFINE s == h.soft
           d == h.hard
<1>2. (GatedSoft(profile, TRUE) => s = inst.soft) /\ (GatedHard(profile, TRUE) => d = inst.hard)
  BY DEF LacksSoft, LacksHard
<1> HIDE DEF s, d
<1>3. SceneVersions(profile, s, d, known.pact) = SceneVersions(profile, inst.soft, inst.hard, known.pact)
  BY <1>1, <1>2, SameSet
<1> QED BY <1>3 DEF OwnSet, s, d

LEMMA AfterIs ==
    /\ \A i \in Nat : i = 1 => /\ After(<<"load">>, i - 1) = <<"load">>
                             /\ After(<<"version", "load">>, i - 1) = <<"version", "load">>
    /\ \A i \in Nat : i = 2 => After(<<"version", "load">>, i - 1) = <<"load">>
<1>1. \A q \in Seq(Stages) : SubSeq(q, 1, Len(q)) = q
  OBVIOUS
<1>2. <<"load">> \in Seq(Stages) /\ <<"version", "load">> \in Seq(Stages)
  BY DEF Stages
<1>3. \A q \in Seq(Stages) : After(q, 0) = q
  BY <1>1 DEF After
<1> DEFINE v == <<"version", "load">>
           w == SubSeq(v, 2, 2)
<1>4. w \in Seq(Stages) /\ Len(w) = 1 /\ w[1] = v[2]
  <2>1. \A q \in Seq(Stages) : Len(q) = 2 => /\ SubSeq(q, 2, 2) \in Seq(Stages)
                                            /\ Len(SubSeq(q, 2, 2)) = 1 /\ SubSeq(q, 2, 2)[1] = q[2]
    OBVIOUS
  <2>2. Len(v) = 2
    OBVIOUS
  <2> QED BY <1>2, <2>1, <2>2
<1>5. w = <<"load">>
  <2>1. \A q \in Seq(Stages) : Len(q) = 1 => q = <<q[1]>>
    OBVIOUS
  <2>2. v[2] = "load"
    OBVIOUS
  <2> HIDE DEF w, v
  <2> QED BY <1>4, <2>1, <2>2
<1>6. After(v, 1) = w
  BY DEF After
<1>7. \A i \in Nat : (i = 1 => i - 1 = 0) /\ (i = 2 => i - 1 = 1)
  OBVIOUS
<1>8. After(<<"load">>, 0) = <<"load">> /\ After(v, 0) = v /\ After(v, 1) = <<"load">>
  BY <1>2, <1>3, <1>5, <1>6
<1>9. ASSUME NEW i \in Nat, i = 1
      PROVE  After(<<"load">>, i - 1) = <<"load">> /\ After(v, i - 1) = v
  BY <1>7, <1>8, <1>9, Zenon
<1>10. ASSUME NEW i \in Nat, i = 2 PROVE After(v, i - 1) = <<"load">>
  BY <1>7, <1>8, <1>10, Zenon
<1> QED BY <1>9, <1>10, Zenon

\* Once every version was read or told nothing, the scene's set is taken.
LEMMA SceneNext ==
    ASSUME inst \in Instances, profile = inst.profile,
           NEW c, IsCall(c), c.todo \in Seq(Stages), NEW h, VersionsOwn(h), NEW k, NEW done, NEW s,
           \/ Polls(c.todo) \/ c.todo = <<"version", "load">>
           \/ c.todo = <<"load">> /\ (c.unread \/ (~LacksSoft(h) /\ ~LacksHard(h)))
    PROVE  SceneCall(NextStage(c, h, k, done, s), h)
<1> DEFINE reads(i) == StageReads(c.todo[i], profile, h, k, done)
           hits == {i \in DOMAIN c.todo : reads(i) # <<>>}
           i0 == Min(hits)
           rest == After(c.todo, i0 - 1)
           total == WalkTotal(profile, k)
           set == IF c.todo[i0] = "load" THEN SceneVersions(profile, h.soft, h.hard, known.pact) ELSE c.set
           next == [c EXCEPT !.todo = rest, !.snap = s, !.got = <<>>, !.answered = FALSE,
                       !.reads = reads(i0), !.mixed = FALSE, !.total = total, !.info = ~done, !.set = set]
<1>1. CASE hits = {}
  <2>1. NextStage(c, h, k, done, s) = Idle
    BY <1>1 DEF NextStage
  <2> QED BY <2>1, IdlePolls DEF SceneCall
<1>2. CASE hits # {}
  <2>1. NextStage(c, h, k, done, s) = next
    BY <1>2 DEF NextStage
  <2>2. hits \in SUBSET Nat
    OBVIOUS
  <2>3. i0 \in hits /\ \A j \in hits : i0 <= j
    <3> HIDE DEF hits
    <3> QED BY <1>2, <2>2, MinOf
  <2>4. i0 \in 1 .. Len(c.todo) /\ Len(c.todo) \in Nat
    <3>1. \A i \in hits : i \in 1 .. Len(c.todo)
      OBVIOUS
    <3> HIDE DEF hits, i0
    <3> QED BY <2>3, <3>1
  <2>5. next.todo = rest /\ next.reads = reads(i0) /\ next.set = set /\ next.unread = c.unread
    <3> DEFINE asked == reads(i0)
               info == ~done
    <3>1. next = [c EXCEPT !.todo = rest, !.snap = s, !.got = <<>>, !.answered = FALSE, !.reads = asked,
                           !.mixed = FALSE, !.total = total, !.info = info, !.set = set] /\ IsCall(c)
      OBVIOUS
    <3> HIDE DEF next, rest, asked, total, info, set
    <3>2. next.todo = rest /\ next.reads = asked /\ next.set = set /\ next.unread = c.unread
      BY <3>1 DEF IsCall
    <3> QED BY <3>2 DEF asked
  <2>6. CASE Polls(c.todo)
    <3>1. \A j \in DOMAIN rest : j + i0 - 1 \in DOMAIN c.todo /\ rest[j] = c.todo[j + i0 - 1]
      <4> DEFINE q == c.todo
      <4>1. q \in Seq(Stages) /\ i0 \in 1 .. Len(q) /\ rest = SubSeq(q, i0 - 1 + 1, Len(q))
        BY <2>4 DEF After
      <4> HIDE DEF q, i0, hits, rest
      <4>2. rest = SubSeq(q, i0, Len(q))
        BY <4>1
      <4>3. \A j \in DOMAIN rest : j + i0 - 1 \in DOMAIN q /\ rest[j] = q[j + i0 - 1]
        BY <4>1, <4>2
      <4> QED BY <4>3 DEF q
    <3> HIDE DEF next, rest, i0, hits
    <3>2. Polls(next.todo)
      BY <2>5, <2>6, <3>1 DEF Polls
    <3> QED BY <2>1, <3>2 DEF SceneCall
  <2>7. CASE c.todo = <<"load">>
    <3>1. i0 = 1
      BY <2>4, <2>7
    <3> HIDE DEF i0, hits, next
    <3>2. rest = <<"load">>
      BY <2>7, <3>1, AfterIs
    <3>3. set = SceneVersions(profile, h.soft, h.hard, known.pact)
      BY <2>7, <3>1
    <3> HIDE DEF rest, set
    <3>4. Polls(c.todo) \/ c.unread \/ set = OwnSet
      BY <2>7, <3>3, SetIsOwn
    <3>5. ~Polls(c.todo)
      BY <2>7 DEF Polls, SceneStages
    <3> QED BY <2>1, <2>5, <3>2, <3>4, <3>5 DEF SceneCall
  <2>8. CASE c.todo = <<"version", "load">>
    <3> DEFINE m == Missing(profile, h, TRUE)
    <3>1. reads(1) = m /\ 1 \in DOMAIN c.todo
      BY <2>8 DEF StageReads
    <3>2. \/ m = <<>> /\ (profile.infoReads => ~LacksSoft(h) /\ ~LacksHard(h))
          \/ /\ m \in {<<SoftRead>>, <<HardRead>>, <<SoftRead, HardRead>>}
             /\ LacksSoft(h) => m \in {<<SoftRead>>, <<SoftRead, HardRead>>}
             /\ LacksHard(h) => m \in {<<HardRead>>, <<SoftRead, HardRead>>}
      BY MissingIs
    <3>3. CASE m # <<>>
      <4>1. i0 = 1
        <5>1. 1 \in hits
          BY <3>1, <3>3
        <5> HIDE DEF hits, i0
        <5> QED BY <2>3, <2>4, <5>1
      <4>2. rest = <<"version", "load">>
        <5> HIDE DEF i0
        <5> QED BY <2>8, <4>1, AfterIs
      <4>3. reads(i0) = m
        BY <3>1, <4>1
      <4> HIDE DEF i0, hits, next, rest, m, reads
      <4>4. next.todo = <<"version", "load">> /\ next.reads = m
        BY <2>5, <4>2, <4>3
      <4> QED BY <2>1, <3>2, <3>3, <4>4 DEF SceneCall, Asks
    <3>4. CASE m = <<>>
      <4>1. i0 = 2
        <5>1. 1 \notin hits
          BY <3>1, <3>4
        <5>2. Len(c.todo) = 2
          BY <2>8
        <5> HIDE DEF hits, i0
        <5> QED BY <2>3, <2>4, <5>1, <5>2
      <4>2. rest = <<"load">> /\ c.todo[i0] = "load"
        <5> HIDE DEF i0
        <5> QED BY <2>8, <4>1, AfterIs
      <4>3. set = SceneVersions(profile, h.soft, h.hard, known.pact)
        BY <4>2, Zenon
      <4> HIDE DEF i0, hits, next, rest, m, reads, set
      <4>4. profile.infoReads => set = OwnSet
        <5>1. <<SoftRead>> # <<>> /\ <<HardRead>> # <<>> /\ <<SoftRead, HardRead>> # <<>>
          OBVIOUS
        <5>2. profile.infoReads => ~LacksSoft(h) /\ ~LacksHard(h)
          BY <3>2, <3>4, <5>1
        <5> QED BY <4>3, <5>2, SetIsOwn
      <4> QED BY <2>1, <2>5, <4>2, <4>4 DEF SceneCall
    <3> QED BY <3>3, <3>4
  <2> QED BY <2>6, <2>7, <2>8
<1> QED BY <1>1, <1>2

LEMMA PollsPoll == ASSUME NEW p PROVE Polls(PollStages(p))
<1> DEFINE polled == <<"power", "level", "detail", "bars", "sections", "mode", "ic", "walk", "gradual", "info">>
           status == <<"status", "ic", "walk", "gradual", "info">>
<1>1. Polls(<<>>) /\ Polls(polled) /\ Polls(<<"plug", "info">>) /\ Polls(status) /\ Polls(<<"ic", "walk", "gradual">>)
  BY DEF Polls, SceneStages
<1> QED BY <1>1, Zenon DEF PollStages

\* A version read stays the device's own, so that a call asks for no less when it is read for another.
LEMMA SceneCallKept ==
    ASSUME NEW c, NEW h, NEW x, SceneCall(c, h),
           x.soft = h.soft \/ x.soft = inst.soft, x.hard = h.hard \/ x.hard = inst.hard
    PROVE  SceneCall(c, x)
<1>1. (LacksSoft(x) => LacksSoft(h)) /\ (LacksHard(x) => LacksHard(h))
  BY DEF LacksSoft, LacksHard
<1> QED BY <1>1 DEF SceneCall, Asks

\* The state of the calls and versions a step starts from.
SceneFrom == ReadsInv /\ ~Use("air") /\ SceneInv

\* A read of a call's came back.
LEMMA RepliedScene ==
    ASSUME SceneFrom, NEW t \in Tasks, OnWire(t), NEW answer, AnswerOk(t, answer), Replied(t, answer),
           UNCHANGED <<inst, profile, known>>
    PROVE  VersionsOwn(held') /\ \A u \in Tasks : SceneCall(call'[u], held')
<1>1. /\ held'.soft = held.soft \/ held'.soft = inst.soft
      /\ held'.hard = held.hard \/ held'.hard = inst.hard
      /\ \E c1 : /\ IsCall(c1) /\ c1.todo = call[t].todo
                 /\ call' = [call EXCEPT ![t] =
                       IF c1.reads = <<>> THEN NextStage([c1 EXCEPT !.todo = Tail(@)], held', pieces', infoRead', seq)
                       ELSE c1]
                 /\ Head(call[t].todo) = "version" /\ Head(call[t].reads).cmd \in {"soft", "info"} =>
                       VersionRead(call[t], c1, held')
  BY RepliedOk DEF SceneFrom
<1>2. VersionsOwn(held')
  BY <1>1 DEF SceneFrom, SceneInv, VersionsOwn
<1>3. PICK c1 : /\ IsCall(c1) /\ c1.todo = call[t].todo
                /\ call' = [call EXCEPT ![t] =
                      IF c1.reads = <<>> THEN NextStage([c1 EXCEPT !.todo = Tail(@)], held', pieces', infoRead', seq)
                      ELSE c1]
                /\ Head(call[t].todo) = "version" /\ Head(call[t].reads).cmd \in {"soft", "info"} =>
                      VersionRead(call[t], c1, held')
  BY <1>1
<1> DEFINE c == call[t]
           todo == Tail(c1.todo)
           rest == [c1 EXCEPT !.todo = todo]
           next == NextStage(rest, held', pieces', infoRead', seq)
<1>4. /\ inst \in Instances /\ profile = inst.profile /\ \A u \in Tasks : SceneCall(call[u], held)
      /\ c.todo \in Seq(Stages) /\ c.todo # <<>> /\ c.reads # <<>> /\ Head(c.todo) # "load"
      /\ call = [u \in Tasks |-> call[u]]
  BY DEF SceneFrom, SceneInv, ReadsInv, DeviceInv, CallsInv, CallOk, OnWire
<1>5. todo \in Seq(Stages)
  BY <1>3, <1>4
<1>6. IsCall(rest) /\ rest.todo = todo /\ rest.unread = c1.unread
  <2>1. rest = [c1 EXCEPT !.todo = todo] /\ IsCall(c1)
    BY <1>3
  <2> HIDE DEF rest, todo
  <2> QED BY <2>1 DEF IsCall
<1>7. ASSUME Polls(todo) \/ (todo = <<"load">> /\ (c1.unread \/ (~LacksSoft(held') /\ ~LacksHard(held'))))
      PROVE  SceneCall(next, held')
  <2> DEFINE h == held'
             k == pieces'
             done == infoRead'
  <2>1. /\ Polls(rest.todo) \/ (rest.todo = <<"load">> /\ (rest.unread \/ (~LacksSoft(h) /\ ~LacksHard(h))))
        /\ IsCall(rest) /\ rest.todo \in Seq(Stages) /\ VersionsOwn(h)
    BY <1>2, <1>5, <1>6, <1>7
  <2> HIDE DEF h, k, done, rest
  <2>2. SceneCall(NextStage(rest, h, k, done, seq), h)
    BY <1>4, <2>1, SceneNext
  <2> QED BY <2>2 DEF h, k, done
<1>8. SceneCall(c, held')
  BY <1>1, <1>4, SceneCallKept
<1>9. c.todo = <<"load">> => Head(c.todo) = "load"
  BY <1>4
<1>10. SceneCall(IF c1.reads = <<>> THEN next ELSE c1, held')
  <2>1. CASE Polls(c.todo)
    <3>1. Polls(todo)
      <4>1. \A i \in DOMAIN Tail(c.todo) : i + 1 \in DOMAIN c.todo /\ Tail(c.todo)[i] = c.todo[i + 1]
        BY <1>4
      <4>2. todo = Tail(c.todo)
        BY <1>3
      <4> QED BY <2>1, <4>1, <4>2 DEF Polls
    <3> HIDE DEF next
    <3>2. Polls(c1.todo)
      BY <1>3, <2>1
    <3> QED BY <1>7, <3>1, <3>2 DEF SceneCall
  <2>2. CASE c.todo = <<"version", "load">> /\ Asks(c, held')
    <3>1. Head(c.todo) = "version" /\ todo = <<"load">>
      BY <1>3, <2>2
    <3>2. c.reads \in {<<SoftRead>>, <<HardRead>>, <<SoftRead, HardRead>>}
      BY <2>2 DEF Asks
    <3>3. Head(c.reads) = SoftRead \/ Head(c.reads) = HardRead
      BY <3>2
    <3>4. /\ SoftRead.cmd = "soft" /\ HardRead.cmd = "info" /\ HardRead.sel = InfoHard
      BY DEF SoftRead, HardRead, Read
    <3>5. VersionRead(c, c1, held')
      BY <1>3, <3>1, <3>3, <3>4
    <3>6. c1.reads = Tail(c.reads)
      BY <3>5 DEF VersionRead
    <3>7. c1.unread \/ ~c.unread
      BY <3>5 DEF VersionRead
    <3>8. \/ c1.unread
          \/ /\ LacksSoft(held') => c1.reads \in {<<SoftRead>>, <<SoftRead, HardRead>>}
             /\ LacksHard(held') => c1.reads \in {<<HardRead>>, <<SoftRead, HardRead>>}
      <4> SUFFICES ASSUME ~c1.unread
                   PROVE  /\ LacksSoft(held') => c1.reads \in {<<SoftRead>>, <<SoftRead, HardRead>>}
                          /\ LacksHard(held') => c1.reads \in {<<HardRead>>, <<SoftRead, HardRead>>}
        OBVIOUS
      <4>1. /\ ~c.unread
            /\ Head(c.reads) = SoftRead => ~LacksSoft(held')
            /\ Head(c.reads) = HardRead => ~LacksHard(held')
        BY <3>4, <3>5 DEF VersionRead, LacksSoft, LacksHard
      <4>2. /\ LacksSoft(held') => c.reads \in {<<SoftRead>>, <<SoftRead, HardRead>>}
            /\ LacksHard(held') => c.reads \in {<<HardRead>>, <<SoftRead, HardRead>>}
        BY <2>2, <4>1 DEF Asks
      <4>3. CASE c.reads = <<SoftRead>>
        <5>1. ~LacksSoft(held')
          BY <4>1, <4>3
        <5>2. <<SoftRead>> # <<HardRead>> /\ <<SoftRead>> # <<SoftRead, HardRead>>
          BY ReadsDiffer
        <5> QED BY <4>2, <4>3, <5>1, <5>2
      <4>4. CASE c.reads = <<HardRead>>
        <5>1. ~LacksHard(held')
          BY <4>1, <4>4
        <5>2. <<SoftRead>> # <<HardRead>> /\ <<HardRead>> # <<SoftRead, HardRead>>
          BY ReadsDiffer
        <5> QED BY <4>2, <4>4, <5>1, <5>2
      <4>5. CASE c.reads = <<SoftRead, HardRead>>
        <5>1. ~LacksSoft(held') /\ c1.reads = <<HardRead>>
          BY <3>6, <4>1, <4>5
        <5> QED BY <5>1
      <4> QED BY <3>2, <4>3, <4>4, <4>5
    <3>9. c1.reads = <<>> \/ c1.reads = <<HardRead>>
      <4>1. CASE c.reads = <<SoftRead>> \/ c.reads = <<HardRead>>
        <5>1. \A q \in Seq(Request) : Len(q) = 1 => Tail(q) = <<>>
          <6>1. \A q \in Seq(Request) : q # <<>> => Tail(q) \in Seq(Request) /\ Len(Tail(q)) = Len(q) - 1
            BY HeadTailProperties
          <6>2. \A q \in Seq(Request) : Len(q) = 0 => q = <<>>
            BY EmptySeq
          <6>3. \A q \in Seq(Request) : Len(q) = 1 => q # <<>> /\ Len(q) - 1 = 0
            BY EmptySeq
          <6> QED BY <6>1, <6>2, <6>3
        <5>2. c.reads \in Seq(Request)
          BY DEF SceneFrom, ReadsInv, CallsInv, CallOk
        <5>3. Len(c.reads) = 1
          BY <4>1
        <5> HIDE DEF c
        <5> QED BY <3>6, <5>1, <5>2, <5>3
      <4>2. CASE c.reads = <<SoftRead, HardRead>>
        <5>1. Tail(<<SoftRead, HardRead>>) = <<HardRead>>
          OBVIOUS
        <5> QED BY <3>6, <4>2, <5>1, Zenon
      <4> QED BY <3>2, <4>1, <4>2
    <3> HIDE DEF next
    <3>10. CASE c1.reads = <<>>
      <4>1. c1.unread \/ (~LacksSoft(held') /\ ~LacksHard(held'))
        BY <3>8, <3>10
      <4> QED BY <1>7, <3>1, <3>10, <4>1
    <3>11. CASE c1.reads = <<HardRead>>
      <4>1. c1.todo = <<"version", "load">> /\ c1.reads # <<>>
        BY <1>3, <2>2, <3>11
      <4>2. Asks(c1, held')
        BY <3>8, <3>11 DEF Asks
      <4> QED BY <4>1, <4>2 DEF SceneCall
    <3> QED BY <3>9, <3>10, <3>11
  <2> QED BY <1>4, <1>8, <1>9, <2>1, <2>2 DEF SceneCall
<1>11. call' = [call EXCEPT ![t] = IF c1.reads = <<>> THEN next ELSE c1]
  BY <1>3
<1> HIDE DEF next
<1>12. \A u \in Tasks : SceneCall(call'[u], held')
  <2> SUFFICES ASSUME NEW u \in Tasks PROVE SceneCall(call'[u], held')
    OBVIOUS
  <2>1. CASE u = t
    BY <1>4, <1>10, <1>11, <2>1
  <2>2. CASE u # t
    <3>1. call'[u] = call[u] /\ SceneCall(call[u], held)
      BY <1>4, <1>11, <2>2
    <3>2. SceneCall(call[u], held')
      BY <1>1, <3>1, SceneCallKept
    <3> QED BY <3>1, <3>2
  <2> QED BY <2>1, <2>2
<1> QED BY <1>2, <1>12

LEMMA SceneInitially == Init => Use("air") \/ SceneInv
<1> SUFFICES ASSUME Init PROVE SceneInv
  OBVIOUS
<1>1. held.soft = 0 /\ held.hard = 0 /\ profile = inst.profile /\ sent.scene = {} /\ call = [t \in Tasks |-> Idle]
  BY DEF Init
<1>3. \A t \in Tasks : SceneCall(call[t], held)
  BY <1>1, IdlePolls DEF SceneCall
<1> QED BY <1>1, <1>3 DEF SceneInv, VersionsOwn, SceneOffered

\* A step that leaves the versions read, and the calls but for those given up.
LEMMA SceneLeft ==
    ASSUME SceneFrom, UNCHANGED <<inst, profile, known>>,
           held'.soft = held.soft, held'.hard = held.hard,
           NEW t, call' = call \/ call' = [call EXCEPT ![t] = Idle],
           SceneOffered'
    PROVE  SceneInv'
<1>1. VersionsOwn(held)' /\ \A u \in Tasks : SceneCall(call[u], held')
  BY SceneCallKept DEF SceneFrom, SceneInv, VersionsOwn
<1>2. call = [u \in Tasks |-> call[u]]
  BY DEF SceneFrom, ReadsInv, CallsInv
<1>3. SceneCall(Idle, held')
  BY IdlePolls DEF SceneCall
<1>4. \A u \in Tasks : SceneCall(call'[u], held')
  BY <1>1, <1>2, <1>3
<1> QED BY <1>1, <1>4 DEF SceneFrom, SceneInv, SceneCall, Asks, LacksSoft, LacksHard, OwnSet, Polls

\* A step of the calls' that sends nothing.
LEMMA SceneWent ==
    ASSUME SceneFrom, UNCHANGED <<inst, profile, known, sent>>,
           VersionsOwn(held'), \A u \in Tasks : SceneCall(call'[u], held')
    PROVE  SceneInv'
<1>1. SceneOffered'
  BY DEF SceneFrom, SceneInv, SceneOffered
<1>2. VersionsOwn(held)'
  BY DEF VersionsOwn
<1>3. \A u \in Tasks : SceneCall(call[u], held)'
  BY DEF SceneCall, Asks, LacksSoft, LacksHard, OwnSet, Polls
<1> QED BY <1>1, <1>2, <1>3 DEF SceneFrom, SceneInv

\* A call begins.
LEMMA BeginScene ==
    ASSUME SceneFrom, NEW t \in Tasks, NEW c, IsCall(c), c.todo \in Seq(Stages),
           Polls(c.todo) \/ c.todo = <<"version", "load">>, Begin(t, c),
           UNCHANGED <<inst, profile, known, held, sent>>
    PROVE  SceneInv'
<1> DEFINE next == NextStage(c, held, pieces, infoRead, seq)
<1>1. call' = [call EXCEPT ![t] = next]
  BY DEF Begin
<1>2. inst \in Instances /\ profile = inst.profile /\ VersionsOwn(held) /\ \A u \in Tasks : SceneCall(call[u], held)
  BY DEF SceneFrom, SceneInv, ReadsInv, DeviceInv
<1>3. SceneCall(next, held)
  BY <1>2, SceneNext
<1>4. call = [u \in Tasks |-> call[u]]
  BY DEF SceneFrom, ReadsInv, CallsInv
<1> HIDE DEF next
<1>5. VersionsOwn(held') /\ \A u \in Tasks : SceneCall(call'[u], held')
  BY <1>1, <1>2, <1>3, <1>4
<1> QED BY <1>5, SceneWent

\* The scene of a call is sent, or the call given up.
LEMMA PlayedScene ==
    ASSUME SceneFrom, NEW t \in Tasks, PlayScene(t), UNCHANGED <<inst, profile, known>>
    PROVE  SceneInv'
<1> DEFINE c == call[t]
           hits == {i \in Catalog(Store, Sku, c.set) : Store.pool[i].name = c.name}
           v == dev.mode + 1
<1>1. /\ c.reads # <<>> /\ Head(c.todo) = "load" /\ call' = [call EXCEPT ![t] = Idle]
      /\ \/ UNCHANGED <<held, sent>>
         \/ /\ held' = [held EXCEPT !.mode = v] \/ held' = held
            /\ sent' = [scene |-> hits, unread |-> c.unread, own |-> Catalog(Store, Sku, OwnSet)]
  BY DEF PlayScene, Committed, OwnSet
<1>2. IsHeld(held) /\ SceneCall(c, held) /\ c.todo \in Seq(Stages) /\ c.todo # <<>> /\ SceneOffered
  BY <1>1 DEF SceneFrom, SceneInv, ReadsInv, HeldInv, CallsInv, CallOk
<1> HIDE DEF v
<1>3. held'.soft = held.soft /\ held'.hard = held.hard
  BY <1>1, <1>2 DEF IsHeld
<1>4. profile.infoReads /\ ~c.unread => c.set = OwnSet
  <2>1. ~Polls(c.todo)
    BY <1>1, <1>2 DEF Polls, SceneStages
  <2>2. c.todo # <<"version", "load">>
    BY <1>1
  <2> QED BY <1>2, <2>1, <2>2 DEF SceneCall
<1>5. hits \subseteq Catalog(Store, Sku, c.set)
  OBVIOUS
<1> HIDE DEF hits, c
<1>6. SceneOffered'
  <2>1. CASE UNCHANGED <<held, sent>>
    BY <1>2, <2>1 DEF SceneOffered
  <2>2. CASE sent' = [scene |-> hits, unread |-> c.unread, own |-> Catalog(Store, Sku, OwnSet)]
    <3>1. sent'.scene = hits /\ sent'.unread = c.unread /\ sent'.own = Catalog(Store, Sku, OwnSet)
      BY <2>2
    <3> QED BY <1>4, <1>5, <3>1 DEF SceneOffered
  <2> QED BY <1>1, <2>1, <2>2
<1> QED BY <1>1, <1>3, <1>6, SceneLeft

LEMMA SceneStep == ReadsInv /\ (Use("air") \/ SceneInv) /\ [Next]_vars => (Use("air") \/ SceneInv)'
<1>1. CASE Use("air")
  <2> SUFFICES ASSUME [Next]_vars PROVE inst' = inst
    BY <1>1 DEF Use
  <2>1. CASE Next /\ ~Air
    BY <2>1, OthersKeepAir
  <2>2. CASE Air
    BY <2>2 DEF Air, readVars
  <2>3. CASE UNCHANGED vars
    BY <2>3 DEF vars, readVars
  <2> QED BY <2>1, <2>2, <2>3
<1>2. ASSUME SceneFrom, [Next]_vars PROVE SceneInv'
  <2>1. UNCHANGED <<inst, profile, known>>
    <3>1. ~Air
      BY <1>2 DEF Air, SceneFrom
    <3>2. CASE Next
      BY <3>1, <3>2, OthersKeepAir DEF airVars
    <3>3. CASE UNCHANGED vars
      BY <3>3 DEF vars, readVars, airVars
    <3> QED BY <1>2, <3>2, <3>3
  <2>2. ASSUME NEW t \in Tasks, Update(t) PROVE SceneInv'
    <3> DEFINE todo == PollStages(profile)
               c == [Idle EXCEPT !.todo = todo]
    <3>1. Begin(t, c) /\ UNCHANGED <<held, sent>>
      BY <2>2 DEF Update
    <3>2. todo \in Seq(Stages) /\ Polls(todo)
      BY PollStagesOk, PollsPoll
    <3> HIDE DEF todo
    <3>3. c = [Idle EXCEPT !.todo = todo]
      OBVIOUS
    <3> HIDE DEF c
    <3>4. IsCall(c) /\ c.todo \in Seq(Stages) /\ Polls(c.todo)
      BY <3>2, <3>3 DEF Idle, IsCall
    <3> QED BY <1>2, <2>1, <3>1, <3>4, BeginScene
  <2>3. ASSUME NEW t \in Tasks, NEW name \in Names, SetSceneByName(t, name) PROVE SceneInv'
    <3> DEFINE todo == <<"version", "load">>
               c == [Idle EXCEPT !.todo = todo, !.name = name]
    <3>1. Begin(t, c) /\ UNCHANGED <<held, sent>>
      BY <2>3 DEF SetSceneByName
    <3>2. todo \in Seq(Stages)
      BY DEF Stages
    <3> HIDE DEF todo
    <3>3. c = [Idle EXCEPT !.todo = todo, !.name = name]
      OBVIOUS
    <3> HIDE DEF c
    <3>4. IsCall(c) /\ c.todo = todo
      BY <3>3 DEF Idle, IsCall
    <3>5. c.todo \in Seq(Stages) /\ c.todo = <<"version", "load">>
      BY <3>2, <3>4 DEF todo
    <3> QED BY <1>2, <2>1, <3>1, <3>5, <3>4, BeginScene
  <2>4. ASSUME NEW t \in Tasks, OnWire(t), NEW answer, AnswerOk(t, answer), Replied(t, answer) PROVE SceneInv'
    <3>1. VersionsOwn(held') /\ \A u \in Tasks : SceneCall(call'[u], held')
      BY <1>2, <2>1, <2>4, RepliedScene
    <3>2. sent' = sent
      BY <2>4 DEF Replied
    <3> QED BY <1>2, <2>1, <3>1, <3>2, SceneWent
  <2>5. ASSUME NEW t \in Tasks, Answered(t) \/ Unanswered(t) \/ LateTaken(t) PROVE SceneInv'
    <3>1. PICK answer : OnWire(t) /\ Replied(t, answer) /\ AnswerOk(t, answer)
      BY <1>2, <2>5, CameOk DEF SceneFrom
    <3> QED BY <2>4, <3>1
  <2>6. ASSUME NEW t \in Tasks, Fails(t) PROVE SceneInv'
    <3>1. call' = [call EXCEPT ![t] = Idle] /\ UNCHANGED <<held, sent>>
      BY <2>6 DEF Fails
    <3>2. SceneOffered'
      BY <1>2, <2>1, <3>1 DEF SceneFrom, SceneInv, SceneOffered
    <3> QED BY <1>2, <2>1, <3>1, <3>2, SceneLeft
  <2>7. ASSUME NEW t \in Tasks, PlayScene(t) PROVE SceneInv'
    BY <1>2, <2>1, <2>7, PlayedScene
  <2>8. ASSUME UNCHANGED <<call, sent>>, held'.soft = held.soft, held'.hard = held.hard PROVE SceneInv'
    <3>1. SceneOffered'
      BY <1>2, <2>1, <2>8 DEF SceneFrom, SceneInv, SceneOffered
    <3> QED BY <1>2, <2>1, <2>8, <3>1, SceneLeft
  <2>9. IsHeld(held)
    BY <1>2 DEF SceneFrom, ReadsInv, HeldInv
  <2>10. ASSUME NEW f \in Fields, SetField(f) \/ Touch(f) PROVE SceneInv'
    <3> DEFINE v == dev[f] + 1
    <3>1. UNCHANGED <<call, sent>> /\ (held' = [held EXCEPT ![f] = v] \/ held' = held)
      BY <2>10 DEF SetField, Committed, Touch, Touched
    <3> HIDE DEF v
    <3>2. held'.soft = held.soft /\ held'.hard = held.hard
      <4>1. f = "power" \/ f = "level" \/ f = "mode" \/ f = "gradual"
        BY DEF Fields
      <4> QED BY <2>9, <3>1, <4>1 DEF IsHeld
    <3> QED BY <2>8, <3>1, <3>2
  <2>11. ASSUME NEW s \in DOMAIN dev.piece, SetPiece(s) \/ TouchPiece(s) PROVE SceneInv'
    <3> DEFINE segs == Merged(s, PieceBumped(s))
    <3>1. UNCHANGED <<call, sent>> /\ (held' = [held EXCEPT !.segs = segs] \/ held' = held)
      BY <2>11 DEF SetPiece, Committed, TouchPiece, Touched
    <3> HIDE DEF segs
    <3>2. held'.soft = held.soft /\ held'.hard = held.hard
      BY <2>9, <3>1 DEF IsHeld
    <3> QED BY <2>8, <3>1, <3>2
  <2>12. CASE EnsureSegmentCount \/ LookUp \/ Shelf \/ UNCHANGED vars
    BY <2>8, <2>12 DEF EnsureSegmentCount, LookUp, Shelf, vars, readVars
  <2>13. ~Air
    BY <1>2 DEF Air, SceneFrom
  <2> QED BY <1>2, <2>2, <2>3, <2>5, <2>6, <2>7, <2>10, <2>11, <2>12, <2>13 DEF Next
<1> QED BY <1>1, <1>2 DEF SceneFrom

\* A scene set by name is one the device's own firmware offers, unless the device left a version its set
\* depends on unread or a late reply was taken for the read (_scene_by_name); an advertisement may change
\* the pact between the set's choice and the sending, so a device that is heard meanwhile is left out.
THEOREM SceneAlwaysOffered == Spec => [](Use("air") \/ SceneOffered)
<1> DEFINE Inv == ReadsInv /\ (Use("air") \/ SceneInv)
<1>1. Init => Inv
  BY ReadsInitially, SceneInitially
<1>2. Inv /\ [Next]_vars => Inv'
  BY ReadsStep, SceneStep
<1>3. Inv => Use("air") \/ SceneOffered
  BY DEF SceneInv
<1> QED BY <1>1, <1>2, <1>3, PTL DEF Spec
=============================================================================
