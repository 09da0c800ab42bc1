--------------------------- MODULE BurstAssembler ---------------------------
(***************************************************************************)
(* BurstAssembler (wire/reassemble.py): the 0xAC reply burst put together  *)
(* record by record.  A chunk is reduced to its index, which reply it is   *)
(* of (its data), and in a first chunk the declared packet count, whether  *)
(* lastLen fits the packet and whether command and sub are the request's.  *)
(* The count of conflicting copies is a diagnostic and left out.           *)
(***************************************************************************)
EXTENDS Integers, Sequences

CONSTANT EndTag       \* 0xFF: the index that tags a last packet

ASSUME EndTagAssumption == EndTag \in Nat \ {0}

VARIABLES
    status,     \* status
    backPos,    \* _back_pos: the next index expected, 0 before a first chunk
    total,      \* _total: the packets the first chunk declares, -1 before
    chunks      \* chunks: the chunks taken, in order

assembler == <<status, backPos, total, chunks>>

Empty == status = "waiting" /\ backPos = 0 /\ total = -1 /\ chunks = <<>>

\* Fault: the assembler of the query before is used on.
RenewKept == UNCHANGED assembler

\* A query makes an assembler of its own.
Renew == status' = "waiting" /\ backPos' = 0 /\ total' = -1 /\ chunks' = <<>>

AtLast == backPos = total - 1

IsHead(c) == backPos = 0 /\ c.index = 0 /\ c.fits /\ c.asked

IsMisfit(c) == backPos = 0 /\ c.index = 0 /\ ~c.fits

\* Fault: an end tag is taken wherever it comes.
IsNextAnyEnd(c) == backPos > 0 /\ c.index \in {backPos, EndTag}

\* Fault: a last packet must carry the end tag.
IsNextTagged(c) ==
    /\ backPos > 0
    /\ c.index = IF AtLast THEN EndTag ELSE backPos

\* The next in order; an end tag only once every packet before it is in.
IsNext(c) ==
    /\ backPos > 0 /\ c.index # 0
    /\ \/ c.index = EndTag /\ AtLast
       \/ c.index # EndTag /\ c.index = backPos

\* feed, one disjunct per outcome.
TakesFirst(c) ==
    /\ IsHead(c)
    /\ total' = c.packets
    /\ backPos' = 1
    /\ chunks' = Append(chunks, c)
    /\ status' = IF c.packets = 1 THEN "complete" ELSE status

RejectsFirst(c) ==
    /\ IsMisfit(c)
    /\ status' = "failed"
    /\ UNCHANGED <<backPos, total, chunks>>

TakesNext(c) ==
    /\ IsNext(c)
    /\ chunks' = Append(chunks, c)
    /\ IF AtLast
       THEN status' = "complete" /\ UNCHANGED backPos
       ELSE backPos' = backPos + 1 /\ UNCHANGED status
    /\ UNCHANGED total

Ignores(c) ==
    /\ ~IsHead(c) /\ ~IsMisfit(c) /\ ~IsNext(c)
    /\ UNCHANGED assembler

Feed(c) ==
    /\ status = "waiting"
    /\ TakesFirst(c) \/ RejectsFirst(c) \/ TakesNext(c) \/ Ignores(c)
=============================================================================
