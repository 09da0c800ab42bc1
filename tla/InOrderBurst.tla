---------------------------- MODULE InOrderBurst ----------------------------
(***************************************************************************)
(* What the status read promises of a 0xAC reply burst (the docstring of   *)
(* BurstAssembler, wire/reassemble.py): nothing of a burst is handed over  *)
(* until all of it is there, in order, and then the whole of it at once.   *)
(***************************************************************************)
EXTENDS Naturals, Sequences

CONSTANT EndTag       \* the index that tags a last packet (0xFF)

VARIABLES
    outcome,    \* of the read under way: "waiting", "complete" or "failed"
    reply       \* the burst handed over, <<>> before

\* A head that declares as many packets as there are, then every index in its
\* place; the last packet carries its own index or the end tag.
IsWholeReply(s) ==
    /\ Len(s) >= 1
    /\ s[1].index = 0 /\ s[1].fits /\ s[1].asked
    /\ s[1].packets = Len(s)
    /\ \A i \in 2 .. (Len(s) - 1) : s[i].index = i - 1
    /\ Len(s) > 1 => s[Len(s)].index \in {Len(s) - 1, EndTag}

Init == outcome = "waiting" /\ reply = <<>>

Begin == outcome' = "waiting" /\ reply' = <<>>

Fail == outcome = "waiting" /\ outcome' = "failed" /\ reply' = <<>>

Complete == outcome = "waiting" /\ outcome' = "complete" /\ IsWholeReply(reply')

Next == Begin \/ Fail \/ Complete

Spec == Init /\ [][Next]_<<outcome, reply>>
=============================================================================
