----------------------------- MODULE SegmentWalk -----------------------------
(***************************************************************************)
(* The colour walk over a device's pieces (devices/_readback.py, the group *)
(* parsers of wire/parse.py): how many groups are read, how many records   *)
(* of a reply are the device's and which segment each of them is.          *)
(*                                                                         *)
(* A group is [group, records]; a record stands for a piece's brightness   *)
(* and colour.  None is a count a reply did not give.                      *)
(***************************************************************************)
EXTENDS Integers, Sequences, FiniteSetsExt

None == -1000
AtMost(x, hi) == Min({x, hi})
AtLeast(x, lo) == Max({x, lo})
Groups(total, size) == (total + size - 1) \div size

\* parse_ic_count: the app's byte-order check, and the section bytes as Java bytes.
SuspectIc == 4096
IcCountChecked(reply) == IF reply.ic >= SuspectIc THEN None ELSE reply.ic
JavaByte(b) == IF b >= 128 THEN b - 256 ELSE b
SectionSum(reply) == IF Len(reply.sections) < 2 \/ reply.ic >= SuspectIc \/ reply.second >= SuspectIc THEN None
                     ELSE JavaByte(reply.sections[1]) + JavaByte(reply.sections[2])

\* A live IC count, clamped to the strip's range, in pieces of so many ICs.
LiveIcPieces(p, ic) ==
    Groups(IF p.icRange = <<>> THEN AtLeast(ic, 0) ELSE AtLeast(AtMost(ic, p.icRange[2]), p.icRange[1]), p.perPiece)

\* Java's division goes towards zero, a remainder of either sign adds a group.
JavaGroupCount(pieces, size) ==
    LET size0 == IF pieces >= 0 THEN pieces ELSE -pieces
        whole == size0 \div size
    IN  AtLeast((IF pieces >= 0 THEN whole ELSE -whole) + (IF size0 % size = 0 THEN 0 ELSE 1), 0)

NoWalk == [groups |-> 0, total |-> 0]
StaticWalk(total, size) == [groups |-> Groups(total, size), total |-> total]

\* The walk a live count starts; without a plausible count nothing is read.
LiveWalk(p, reply) ==
    IF IcCountChecked(reply) = None THEN NoWalk ELSE StaticWalk(LiveIcPieces(p, IcCountChecked(reply)), p.size)

\* The walk the section sum starts; a sum of 0 leaves the static count, a negative one keeps no piece.
SectionWalk(p, reply, pieces) ==
    LET sum == SectionSum(reply)
        wanted == IF sum = 0 THEN pieces ELSE sum
    IN  IF sum = None THEN NoWalk
        ELSE [groups |-> JavaGroupCount(wanted, p.size), total |-> AtLeast(wanted, 0)]

\* The records of group g that are the device's: the last group is zero-filled to the frame.
Expected(total, size, g) == AtLeast(AtMost(size, total - (g - 1) * size), 0)
Trimmed(records, total, size, g) == SubSeq(records, 1, AtMost(Len(records), Expected(total, size, g)))

\* Segment indices count from 0; a group of no number has no place.
GroupBaseIndex(g, size) == (g - 1) * size
Placed(group, size) ==
    [i \in {GroupBaseIndex(group.group, size) + k - 1 : k \in DOMAIN group.records} |->
        group.records[i - GroupBaseIndex(group.group, size) + 1]]

\* The segments of several groups, the last reply for an index kept.
GroupsToSegments(groups, size) ==
    LET named == {i \in DOMAIN groups : groups[i].group >= 1}
        indices == UNION {DOMAIN Placed(groups[i], size) : i \in named}
        lastOf(s) == Max({i \in named : s \in DOMAIN Placed(groups[i], size)})
    IN  [s \in indices |-> Placed(groups[lastOf(s)], size)[s]]
=============================================================================
