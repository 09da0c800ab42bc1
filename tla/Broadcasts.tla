----------------------------- MODULE Broadcasts -----------------------------
(***************************************************************************)
(* What the library reads from advertisements (identify.py, and the        *)
(* advertisement half of devices/device.py): the pact, the cipher flag and *)
(* the on/off, from the record a scanner merges out of every frame it      *)
(* heard under the address.                                                *)
(*                                                                         *)
(* A record is a sequence of entries in the dict's order.  An entry's key  *)
(* (its company id) holds the header; its value the pact and the on/off.   *)
(***************************************************************************)
EXTENDS ProfileRoutes

CONSTANTS
    Header,    \* the header of each company id: encrypted, version and the signed byte of the app
    Table,     \* the rows that route the SKU
    Sku,
    Fallback,  \* the SKUs of the 1.x pact rule
    OwnKeys,   \* the company ids the device uses, one at a time
    ForeignKeys, \* ... and those of other devices' frames filed under its address
    AirPacts   \* the pacts broadcast

ASSUME BroadcastsAssumption ==
    /\ OwnKeys # {} /\ AirPacts # {} /\ OwnKeys \cup ForeignKeys \subseteq DOMAIN Header
    /\ \A p \in AirPacts : p = NoPact \/ PactKey(p)

VARIABLES
    profile,
    radio,     \* the device as it broadcasts: key, pact, on
    record,    \* the scanner's merged record
    last,      \* _govee_last: the record given last
    latest,    \* _govee_latest: the key of the entry whose value changed last, or none
    known,     \* what the Device knows: pact, and encrypted of the advertised mode
    aired,     \* history: the device's own frame the scanner merged last
    heard,     \* history: ... and the one in the record given last
    mine       \* history: the last change between two records given was of the device's own entry

airVars == <<radio, record, last, latest, known, aired, heard, mine>>

NoKey == "none"
Entry(frame) == [key |-> frame.key, pact |-> frame.pact, on |-> frame.on]
Entries(r) == {r[i] : i \in DOMAIN r}
HeldKeys(r) == {r[i].key : i \in DOMAIN r}
EntryOf(r, key) == CHOOSE e \in Entries(r) : e.key = key

\* A scanner's merge: a key keeps its place and holds the value it came with last.
Merge(r, e) ==
    IF e.key \in HeldKeys(r) THEN [i \in DOMAIN r |-> IF r[i].key = e.key THEN e ELSE r[i]]
    ELSE Append(r, e)

\* The entries with a pact: a broadcast version of 0 has none.
PactEntries(r) == {e \in Entries(r) : Header[e.key].version >= 1 /\ e.pact # NoPact}

\* The first of these entries in the dict's order: one, or none.
First(r, entries) ==
    {r[i] : i \in {j \in DOMAIN r : r[j] \in entries /\ \A k \in 1 .. j - 1 : r[k] \notin entries}}

\* parse_manufacturer_data: the pact and the flag create_device and the constructor take.
ParseManufacturerData(r) == First(r, PactEntries(r))

\* parse_broadcast_onoff: a header below 2 as a signed byte carries no switch.
Switched(r) == {e \in Entries(r) : Header[e.key].signed >= 2 /\ e.on # "none"}
ParseBroadcastOnOff(r) ==
    LET hits == First(r, Switched(r)) IN IF hits = {} THEN "none" ELSE (CHOOSE e \in hits : TRUE).on

\* Fault: an entry under a new key counts as the latest as well.
LatestCountsNew(r, previous, before) ==
    LET hits == First(r, {e \in Entries(r) : e.key \notin HeldKeys(previous) \/ EntryOf(previous, e.key) # e})
    IN  IF hits = {} THEN before ELSE (CHOOSE e \in hits : TRUE).key

\* _latest_govee_key: only an entry whose value changed is known to come from the latest frame.
LatestGoveeKey(r, previous, before) ==
    LET hits == First(r, {e \in Entries(r) : e.key \in HeldKeys(previous) /\ EntryOf(previous, e.key) # e})
    IN  IF hits = {} THEN before ELSE (CHOOSE e \in hits : TRUE).key

\* Device.advertised_on, for a profile whose power is not a light switch of its own.
AdvertisedOn(p, r, key) ==
    IF p.lightSwitch THEN "none"
    ELSE ParseBroadcastOnOff(IF key \in HeldKeys(r) THEN <<EntryOf(r, key)>> ELSE r)

-----------------------------------------------------------------------------
(* Learning.  Entries that disagree say nothing.                           *)

LearnedPact(r) ==
    LET pacts == {e.pact : e \in PactEntries(r)}
    IN  IF Cardinality(pacts) = 1 THEN CHOOSE p \in pacts : TRUE ELSE known.pact
LearnedCipher(r) ==
    LET flags == {Header[e.key].encrypted : e \in PactEntries(r)}
    IN  IF Cardinality(flags) = 1 THEN TRUE \in flags ELSE known.encrypted

\* _learn_pact: a pact the profile refuses reroutes it, where another row differs only in what a pact picks.
RoutedProfile(p, pact) ==
    LET others == Reroute(Table, p, Sku, pact, Fallback)
    IN  IF pact = known.pact \/ pact = NoPact \/ others = {} THEN p ELSE CHOOSE q \in others : TRUE

\* What a Device is built with: the first pact entry of the advertisement it is given, and the
\* profile's cipher where that has none.
BuiltPact(r) == IF ParseManufacturerData(r) = {} THEN NoPact ELSE (CHOOSE e \in ParseManufacturerData(r) : TRUE).pact
BuiltCipher(p, r) == LET e == ParseManufacturerData(r)
                     IN  IF e = {} THEN p.aes ELSE Header[(CHOOSE x \in e : TRUE).key].encrypted

-----------------------------------------------------------------------------
AirInit(p) ==
    /\ radio \in [key : OwnKeys, pact : AirPacts, on : {"on", "off"}]
    /\ record \in {<<>>, <<Entry(radio)>>}
                    \cup {<<[key |-> k, pact |-> t, on |-> "on"], Entry(radio)>> :
                             k \in ForeignKeys \ {radio.key}, t \in AirPacts}
    /\ last = record /\ latest = NoKey
    /\ known = [pact |-> BuiltPact(record), encrypted |-> BuiltCipher(p, record)]
    /\ aired = Entry(radio) /\ heard = aired /\ mine = FALSE

\* No advertisement in this instance: the device's pact was heard when it was found.
AirStill(p) ==
    /\ radio \in [key : {CHOOSE k \in OwnKeys : TRUE}, on : {"on"},
                  pact : IF p.setsByPact \cup p.statusByPact = {} THEN {CHOOSE t \in AirPacts : TRUE} ELSE AirPacts]
    /\ record = <<Entry(radio)>> /\ last = record /\ latest = NoKey
    /\ known = [pact |-> radio.pact, encrypted |-> BuiltCipher(p, record)]
    /\ aired = Entry(radio) /\ heard = aired /\ mine = FALSE

\* ingest_advertisement: the Device takes in the record r, in which own is the device's last frame.
Ingest(r, own) ==
    LET pact == LearnedPact(r)
        changed == {e.key : e \in {x \in Entries(r) : x.key \in HeldKeys(last) /\ EntryOf(last, x.key) # x}}
    IN  /\ known' = [pact |-> pact, encrypted |-> LearnedCipher(r)]
        /\ profile' = RoutedProfile(profile, pact)
        /\ latest' = LatestGoveeKey(r, last, latest) /\ last' = r
        /\ heard' = own
        /\ mine' = CASE changed = {radio.key} -> own.key = radio.key
                     [] changed = {} -> mine
                     [] OTHER -> FALSE

\* A frame reaches the scanner, and its record the Device unless the callback finds no Device yet.
Heard(e, own) ==
    /\ record' = Merge(record, e) /\ aired' = own
    /\ \/ Ingest(Merge(record, e), own)
       \/ UNCHANGED <<profile, last, latest, known, heard, mine>>
    /\ UNCHANGED radio

OwnFrame == Heard(Entry(radio), Entry(radio))

\* Another device's frame filed under the address; it keeps its pact.
ForeignFrame(key, pact, on) ==
    /\ radio.key # key /\ \A e \in Entries(record) : e.key = key => e.pact = pact
    /\ Heard([key |-> key, pact |-> pact, on |-> on], aired)

\* Somebody switches the device, or a firmware update gives it a header it never had; then it broadcasts.
Switch == /\ radio' = [radio EXCEPT !.on = IF @ = "on" THEN "off" ELSE "on"]
          /\ UNCHANGED <<profile, record, last, latest, known, aired, heard, mine>>
NewHeader(key, pact) ==
    /\ key \notin HeldKeys(record) /\ key # radio.key /\ radio' = [radio EXCEPT !.key = key, !.pact = pact] /\ mine' = FALSE
    /\ UNCHANGED <<profile, record, last, latest, known, aired, heard>>

(***************************************************************************)
(* The on/off read from an advertisement is the device's own, whatever     *)
(* stale or foreign entries its record holds, from the first change of the *)
(* device's entry on and until another entry changes                       *)
(* (_latest_govee_key, Device.advertised_on).                              *)
(***************************************************************************)
AdvertOwn == mine /\ Header[radio.key].signed >= 2 /\ ~profile.lightSwitch =>
             AdvertisedOn(profile, last, latest) = heard.on
=============================================================================
