---------------------------- MODULE MCDeviceReads ----------------------------
(* DeviceReads over one small device of every way to read one back, and    *)
(* the checks of the operators it is built from.                           *)
EXTENDS DeviceReads, TLC

Row(p, pacts, needs) == [sku |-> "H1", pacts |-> pacts, needsPact |-> needs, admitted |-> TRUE, profile |-> p]

Plain == [skus |-> {"H1"}, readback |-> "polled", walk |-> "", session |-> "gatt", size |-> 2, perPiece |-> 2,
          icRange |-> <<>>, groupsPact |-> NoPact, statusRead |-> <<>>, statusByPact |-> {},
          caps |-> {"power", "brightness", "mode"}, bar |-> FALSE, sets |-> {1}, setsByPact |-> {},
          setsByFirmware |-> <<>>, kelvinBy |-> "", detail |-> FALSE, sectionRead |-> FALSE, icOnly |-> FALSE,
          liveIc |-> FALSE, icSections |-> FALSE, pieces |-> 0, gradual |-> "", infoReads |-> FALSE,
          aes |-> FALSE, lightSwitch |-> FALSE, decode |-> [rule |-> "by_pieces", size |-> 2, groups |-> FALSE, zones |-> FALSE]]
NoIc == [ic |-> 0, second |-> 0, sections |-> <<>>]
Instance(p, uses, count) ==
    [profile |-> p, uses |-> uses \cup {"poll"}, calls |-> 2, count |-> count, ic |-> NoIc, soft |-> 2, hard |-> 1]
Once(i) == [i EXCEPT !.calls = 1]

Lamp == [Plain EXCEPT !.caps = {"power", "brightness"}, !.gradual = "state", !.infoReads = TRUE]
Bars == [Plain EXCEPT !.caps = {"power", "mode"}, !.bar = TRUE, !.detail = TRUE, !.gradual = "read", !.icOnly = TRUE]
Plug == [Plain EXCEPT !.readback = "plug", !.caps = {"power"}, !.infoReads = TRUE]
Tap == [Plain EXCEPT !.session = "per_command", !.caps = {"power", "brightness"}]
Batches == [Plain EXCEPT !.walk = "batch", !.pieces = 3, !.caps = {"power"}]
Direct == [Batches EXCEPT !.walk = "direct"]
Live == [Direct EXCEPT !.liveIc = TRUE, !.icRange = <<4, 6>>]
Sections == [Direct EXCEPT !.icSections = TRUE]
Counted == [Direct EXCEPT !.pieces = 0, !.sectionRead = TRUE]
Ceiling == [Plain EXCEPT !.readback = "status", !.statusRead = <<1, 4, 5, 165>>, !.pieces = 3, !.decode.groups = TRUE]
Airy == [Ceiling EXCEPT !.pieces = 0, !.groupsPact = <<1, 2>>, !.decode.groups = FALSE,
                        !.statusByPact = {[pact |-> <<1, 1>>, types |-> <<1>>]}]
AiryOld == [Airy EXCEPT !.groupsPact = NoPact]
Scenic == [Plain EXCEPT !.caps = {"mode", "scenes"}, !.infoReads = TRUE, !.kelvinBy = "hard",
                        !.setsByFirmware = <<[soft |-> 2, hard |-> 0, set |-> {2}]>>,
                        !.setsByPact = {[pact |-> <<1, 2>>, set |-> {3}]}]

MCInstances ==
    {Once(Instance(Lamp, {"set", "late", "fail"}, 0)), Once(Instance(Bars, {"set", "late", "touch"}, 0)),
     Instance(Plug, {"set", "late", "fail"}, 0), Instance(Tap, {"set", "fail"}, 0),
     Once(Instance(Batches, {"set", "late", "touch"}, 3)), Instance(Direct, {"set", "late"}, 3),
     Once([Instance(Live, {"set", "late", "fail"}, 3) EXCEPT !.ic.ic = 70]), [Instance(Live, {}, 3) EXCEPT !.ic.ic = 4096],
     Once([Instance(Sections, {"set", "fail"}, 3) EXCEPT !.ic.sections = <<1, 2>>]),
     [Instance(Sections, {}, 3) EXCEPT !.ic.sections = <<255, 1>>],
     Instance(Counted, {"set"}, 3), Instance(Counted, {}, 200), Instance(Ceiling, {"set", "fail"}, 3),
     [Instance(Airy, {"air"}, 0) EXCEPT !.calls = 0], Once(Instance(Airy, {"set"}, 0)),
     [Instance(Scenic, {"scene", "set", "fail", "late"}, 0) EXCEPT !.soft = 1]}

MCStore == [pool |-> [i \in 1 .. 4 |-> [name |-> IF i = 2 THEN "sea" ELSE IF i = 4 THEN "moon" ELSE "sun", code |-> i, param |-> "none"]],
            skus |-> [H1 |-> {1, 2}, H2 |-> {4}],
            bySet |-> {[sku |-> "H1", set |-> {2}, name |-> "sun", index |-> 3], [sku |-> "H1", set |-> {3}, name |-> "sea", index |-> Hidden]}]

MCHeader == [a |-> [encrypted |-> TRUE, version |-> 1, signed |-> 2], b |-> [encrypted |-> FALSE, version |-> 1, signed |-> 3],
             x |-> [encrypted |-> TRUE, version |-> 1, signed |-> 2]]
MCTable == {Row(Airy, {<<1, 1>>}, FALSE), Row(AiryOld, {<<1, 2>>}, TRUE)}
MCAirPacts == {<<1, 1>>, <<1, 2>>}
CallerSymmetry == Permutations(Tasks)

-----------------------------------------------------------------------------
(* The operators against what they are for.                                *)

Bytes(n) == [i \in 1 .. n |-> i]
StripOf(n) == [piece |-> [s \in 0 .. n - 1 |-> 1]]

\* Every upload carries the whole payload, whatever its length and the link's MTU.
ASSUME \A n \in 0 .. 60 : Framed(ScenesA3(Bytes(n), "v1"), Bytes(n), 255)
ASSUME \A n \in 0 .. 60, mtu \in {20, 23, 64} : Framed(ScenesA4(Bytes(n), "h60a6", mtu), Bytes(n), A4End)
\* ... in frames the link takes, whatever size it says.
ASSUME \A n \in {0, 60, 600}, sizes \in {{}, {0}, {20}, {21}, {182}, {509}, {600}} :
           LET size == WritePayload(sizes) frames == ScenesA4(Bytes(n), "h60a6", size)
           IN  /\ size \in A4Mtus /\ Framed(frames, Bytes(n), A4End)
               /\ \A i \in DOMAIN frames : A4Length(frames, i) <= size
ASSUME \A type \in DOMAIN LibraryScene : LET blob == [raw |-> Bytes(9), reads |-> {type}] IN
           /\ PlanUpload(type, blob, "", {}, 20) = NoUpload
           /\ Framed(PlanUpload(type, blob, "", {LibraryScene[type].version}, 20),
                     After(blob.raw, LibraryScene[type].strip), 255)
ASSUME LET blob(r) == [raw |-> Bytes(30), reads |-> {"h60a6_diy", r}] IN
           /\ Framed(PlanUpload("diy", blob("wire_graffiti"), "B_h60a6", {}, 23), After(Bytes(30), 1), A4End)
           /\ Framed(PlanUpload("diy", blob("wire_diy"), "B_h60a6", {}, 23), After(Bytes(30), 1), 255)

\* A code names the first of the scenes that play it, at every set.
ASSUME \A set \in {{1}, {2}, {3}} : LET named == NamesByCode(MCStore, "H1", set) IN
           \A c \in DOMAIN named : \E i \in Catalog(MCStore, "H1", set) :
               MCStore.pool[i].code = c /\ MCStore.pool[i].name = named[c]

\* A walk answered whole gives each piece once and at its place, its last group's filling left out.
ASSUME \A total \in 1 .. 9, size \in 1 .. 4 :
           LET groups == [g \in 1 .. StaticWalk(total, size).groups |->
                             [group |-> g, records |-> Trimmed(GroupAt(StripOf(total), g, size).records, total, size, g)]]
               walked == GroupsToSegments(groups, size)
           IN  DOMAIN walked = 0 .. total - 1 /\ \A s \in DOMAIN walked : walked[s] = PieceAt(StripOf(total), s)
\* Java's count is the walk's, but for the section sums that are negative.
ASSUME \A n \in 0 .. 9, size \in 1 .. 4 : JavaGroupCount(n, size) = Groups(n, size)

\* A status stream that has the device's groups gives its pieces, whatever else the stream carries, and one
\* with a group the app cannot place gives nothing.
ASSUME \A n \in 1 .. 7, size \in 2 .. 3, rule \in {"by_pieces", "fixed"} :
           LET decode == [rule |-> rule, size |-> size, groups |-> TRUE, zones |-> FALSE]
               whole == [g \in 1 .. Groups(n, size) |-> Tlv("group", GroupAt(StripOf(n), g, size))]
               extra == Tlv("group", GroupAt(StripOf(n), Groups(n, size) + 1, size))
               zero == Tlv("group", [group |-> 0, records |-> GroupAt(StripOf(n), 1, size).records])
               beyond == Tlv("group", GroupAt(StripOf(n), Groups(n, size) + 2, size))
               segs(tlvs) == {st.segments : st \in ParseStatus(tlvs, TRUE, FALSE, decode, n)}
               own == [s \in 0 .. n - 1 |-> PieceAt(StripOf(n), s)]
           IN  /\ segs(whole) = {own} /\ segs(<<Tlv("zones", <<TRUE>>)>> \o whole) = {own}
               /\ segs(Append(whole, extra)) = IF n % size = 0 THEN {own} ELSE {}
               /\ segs(Append(whole, zero)) = {} /\ segs(Append(whole, beyond)) = {}
               /\ ParseStatus(whole, FALSE, FALSE, decode, n) = {} /\ ParseStatus(whole, TRUE, TRUE, decode, n) = {}
\* The chunks of a burst give back the stream they were cut from.
ASSUME \A n \in 1 .. 9 :
           LET cut(i) == [data |-> [k \in 1 .. 3 |-> (i - 1) * 3 + k], firstLen |-> AtMost(3, n), lastLen |-> n - 3 * (Groups(n, 3) - 1)]
           IN  Join([i \in 1 .. Groups(n, 3) |-> cut(i)], TRUE) = Bytes(n)

\* Each pact routes to its own row, one nobody lists to none, but for the 1.x rule.
ASSUME /\ ProfileFor(MCTable, Sku, <<1, 1>>, FALSE, {}) = {Airy} /\ ProfileFor(MCTable, Sku, <<1, 2>>, FALSE, {}) = {AiryOld}
       /\ ProfileFor(MCTable, Sku, <<9, 9>>, FALSE, {}) = {} /\ ProfileFor(MCTable, Sku, <<9, 9>>, FALSE, {Sku}) = {Airy}

\* A power write is read back as the power it wrote, by each kind of plug and light.
R == INSTANCE Replies
Relays(byte, old) == [i \in 0 .. 3 |-> IF R!Bit(byte, i + 4) THEN R!Bit(byte, i) ELSE R!Bit(old, i)]
RelayByte(on) == (IF on[0] THEN 1 ELSE 0) + (IF on[1] THEN 2 ELSE 0) + (IF on[2] THEN 4 ELSE 0) + (IF on[3] THEN 8 ELSE 0)
Answer(frame, old) == [frame EXCEPT !.body = <<RelayByte(Relays(frame.body[1], old))>>]
PlugOf(kind) == [lightSwitch |-> FALSE, zones |-> <<>>, globalPower |-> TRUE, bar |-> FALSE, relay |-> TRUE, relayPower |-> kind]
ASSUME \A on \in BOOLEAN, old \in 0 .. 15 :
           /\ R!ParseRelayOn(Answer(R!PowerFrames(PlugOf("outlet0"), on)[1], old), 1) = {on}
           /\ \A mask \in 1 .. 15 : R!ParseRelayOn(Answer(R!PowerFrames(PlugOf("all_outlets"), on)[1], old), mask) = {on}
ASSUME \A l, r \in BOOLEAN : R!ParseBarSwitch(R!BarSwitch(l, r)) = {<<l, r>>} /\ R!ParseGradual(R!GradualFrame(l)) = {l}
ASSUME \A on, nonzero \in BOOLEAN : R!ParseLightPower(R!Switch(on), nonzero) = {on}
\* Different device ids are shown differently.
ASSUME Cardinality({R!UidSerial(uid) : uid \in [1 .. 8 -> {0, 1}]}) = 256
=============================================================================
