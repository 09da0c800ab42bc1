---------------------------- MODULE StatusStream ----------------------------
(***************************************************************************)
(* What a 0xAC status burst says (wire/reassemble.py): its chunks joined,  *)
(* and the stream of TLVs read as far as the app reads it.                 *)
(*                                                                         *)
(* A TLV is [tag, ok, value]; ok is FALSE where the app's read of it fails *)
(* (an empty value, say; the empty mode, which the library reads, is the   *)
(* value "unknown").  A group's value is [group, records] with the records *)
(* the value has room for.                                                 *)
(***************************************************************************)
EXTENDS SegmentWalk

Unset == "unset"

\* _join: every chunk of a complete burst gives its data, the first and the last as much as they say.
Part(chunk, i, n) ==
    IF i = 1 THEN SubSeq(chunk.data, 1, chunk.firstLen)
    ELSE IF i = n THEN SubSeq(chunk.data, 1, AtMost(chunk.lastLen, Len(chunk.data))) ELSE chunk.data
Join(chunks, complete) ==
    LET n == Len(chunks)
        upTo[i \in 0 .. n] == IF i = 0 THEN <<>> ELSE LET before == upTo[i - 1] IN before \o Part(chunks[i], i, n)
    IN  IF complete THEN upTo[n] ELSE <<>>

\* status_profile: the groups are counted from the TLV's length where the pieces are not known.
GroupForm(form, pieces) ==
    [rule |-> IF pieces = None THEN "from_len" ELSE form.rule, size |-> form.size,
     pieces |-> IF pieces = None THEN 0 ELSE pieces]

IsLast(g, f) == g.group = IF f.size = 0 THEN 0 ELSE Groups(f.pieces, f.size)
ByPieces(f) == f.rule = "by_pieces"
PlacesByGroup(f) == ByPieces(f) \/ (f.rule = "fixed" /\ f.pieces # 0)
Wanted(g, f) ==
    CASE f.rule = "from_len" -> Len(g.records)
      [] ByPieces(f) /\ IsLast(g, f) -> f.pieces - (g.group - 1) * f.size
      [] OTHER -> f.size
IsShort(g, f) == Wanted(g, f) > Len(g.records)
StartOf(g, f) == (g.group - 1) * f.size
RejectsGroup(g, f) ==
    /\ PlacesByGroup(f)
    /\ g.group = 0 \/ (ByPieces(f) /\ g.group >= 128) \/ (~IsLast(g, f) /\ StartOf(g, f) > f.pieces)
IsPlaced(g, f) == ~PlacesByGroup(f) \/ IsLast(g, f) \/ StartOf(g, f) # f.pieces

\* _color_group: the groups that fail the read (with no pieces group 0 does not), and those that copy nothing.
GroupZero(g, f) == f.pieces = 0 /\ g.group = 0 /\ ~IsShort(g, f)
GroupFails(g, f) == PlacesByGroup(f) /\ (IsShort(g, f) \/ RejectsGroup(g, f)) /\ ~GroupZero(g, f)
GroupPlaced(g, f) == IsPlaced(g, f) /\ ~(RejectsGroup(g, f) /\ GroupZero(g, f))
ColorGroup(g, f) == [group |-> g.group, records |-> SubSeq(g.records, 1, AtMost(Wanted(g, f), Len(g.records)))]

\* The TLVs the device's decode does not read are skipped.
Reads(tlv, decode) == /\ tlv.tag = "group" => decode.groups
                      /\ tlv.tag = "zones" => decode.zones
TlvFails(tlv, decode, form) ==
    Reads(tlv, decode) /\ (~tlv.ok \/ (tlv.tag = "group" /\ GroupFails(tlv.value, form)))

Tagged(tlvs, tag) == {i \in DOMAIN tlvs : tlvs[i].tag = tag}
LastOf(tlvs, tag, absent) == LET at == Tagged(tlvs, tag) IN IF at = {} THEN absent ELSE tlvs[Max(at)].value

\* 0x07: the basic block sets the serial where its UID is valid and always the versions, the Wi-Fi block the MAC.
SerialOf(tlvs) ==
    LET at == {i \in Tagged(tlvs, "basic") : tlvs[i].value.serial # Unset}
    IN  IF at = {} THEN Unset ELSE tlvs[Max(at)].value.serial
VersionsOf(tlvs) == LET v == LastOf(tlvs, "basic", [soft |-> 0, hard |-> 0]) IN [soft |-> v.soft, hard |-> v.hard]

SuccessBrightness == 100

\* parse_status: a burst that is not whole, a stream that stops or a TLV the app's read fails on gives no
\* state; a read that succeeds has a switch and a brightness whether or not the stream does.
ParseStatus(tlvs, complete, stopped, decode, pieces) ==
    LET form == GroupForm(decode, pieces)
        placed(t) == t.tag = "group" /\ decode.groups /\ GroupPlaced(t.value, form)
        groups == [i \in {j \in DOMAIN tlvs : placed(tlvs[j])} |-> ColorGroup(tlvs[i].value, form)]
        segments == GroupsToSegments(groups, decode.size)
        within == IF form.pieces = 0 THEN DOMAIN segments ELSE {s \in DOMAIN segments : s < form.pieces}
    IN  IF ~complete \/ stopped \/ \E i \in DOMAIN tlvs : TlvFails(tlvs[i], decode, form) THEN {}
        ELSE {[on |-> LastOf(tlvs, "switch", FALSE), level |-> LastOf(tlvs, "brightness", SuccessBrightness),
               mode |-> LastOf(tlvs, "mode", "unknown"),
               zones |-> IF decode.zones THEN LastOf(tlvs, "zones", <<>>) ELSE <<>>,
               segments |-> [s \in within |-> segments[s]],
               serial |-> SerialOf(tlvs), versions |-> VersionsOf(tlvs), mac |-> LastOf(tlvs, "wifi", Unset)]}
=============================================================================
