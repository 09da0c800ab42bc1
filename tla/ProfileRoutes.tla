---------------------------- MODULE ProfileRoutes ---------------------------
(***************************************************************************)
(* Which profile a SKU and its pact route a device to (devices/profile.py),*)
(* and what DeviceProfile.__post_init__ accepts of the facts a poll reads. *)
(* A pact is <<type, code>>, NoPact when none was heard; a version is its  *)
(* place among the versions, 0 for none.                                   *)
(***************************************************************************)
EXTENDS Integers, Sequences, FiniteSets

NoPact == <<>>
PactKey(pact) == Len(pact) = 2 /\ \A i \in 1 .. 2 : pact[i] >= 0

Distinct(types) == \A i, j \in DOMAIN types : types[i] = types[j] => i = j
StatusTypes(types) == Distinct(types) /\ \A i \in DOMAIN types : types[i] \in 0 .. 255

-----------------------------------------------------------------------------
(* The facts of a poll.                                                    *)

\* What a device-list card has: power and brightness.
CardCaps == {"power", "brightness"}

CheckSceneVersions(p) ==
    /\ \A e \in p.setsByPact : PactKey(e.pact) /\ e.set \subseteq Nat
    /\ \A i \in DOMAIN p.setsByFirmware :
           LET e == p.setsByFirmware[i] IN {e.soft, e.hard} \subseteq Nat /\ {e.soft, e.hard} # {0} /\ e.set \subseteq Nat

ValidReads(p) ==
    /\ p.skus # {}
    /\ p.readback \in {"status", "polled", "plug", "none"}
    /\ p.walk \in {"", "batch", "direct"}
    /\ p.session \in {"gatt", "per_command"}
    /\ p.size >= 1 /\ p.perPiece >= 1
    /\ p.icRange # <<>> => 0 <= p.icRange[1] /\ p.icRange[1] <= p.icRange[2]
    /\ p.groupsPact # NoPact => PactKey(p.groupsPact)
    /\ StatusTypes(p.statusRead)
    /\ \A e \in p.statusByPact : PactKey(e.pact) /\ StatusTypes(e.types)
    /\ \A d, e \in p.statusByPact : d.pact = e.pact => d = e
    /\ p.session = "per_command" => p.caps \subseteq CardCaps /\ ~p.bar
    /\ CheckSceneVersions(p)

-----------------------------------------------------------------------------
(* Routing: the rows a SKU has, in the table of admitted ones or only in   *)
(* the table that holds the modelled ones as well.                         *)

\* A row that needs no pact takes a device with none; one that names no pacts takes any.
Accepts(row, pact) == IF pact = NoPact THEN ~row.needsPact ELSE row.pacts = {} \/ pact \in row.pacts

\* The one profile of the rows, no profile (a set) when they have none or several.
Only(rows) == LET hits == {r.profile : r \in rows} IN IF Cardinality(hits) = 1 THEN hits ELSE {}
Rows(rows, sku) == {r \in rows : r.sku = sku}

\* profile_for: the admitted rows, then the modelled ones when they are allowed, then the 1.x rule
\* that a pact nobody lists leaves the row a device without one would have.
ProfileFor(table, sku, pact, allowModelled, fallback) ==
    LET rows == Rows(table, sku)
        admitted == {r \in rows : r.admitted}
        hits == {r \in admitted : Accepts(r, pact)}
        modelled == {r \in rows \ admitted : Accepts(r, pact)}
    IN  CASE hits # {} -> Only(hits)
          [] hits = {} /\ allowModelled /\ modelled # {} -> Only(modelled)
          [] OTHER -> IF pact # NoPact /\ sku \in fallback
                      THEN Only({r \in admitted : Accepts(r, NoPact)}) ELSE {}

RefusesPact(table, p, sku, pact, fallback) ==
    LET mine == {r \in Rows(table, sku) : r.profile = p}
    IN  /\ mine # {} /\ \A r \in mine : ~Accepts(r, pact)
        /\ ProfileFor(table, sku, pact, FALSE, fallback) # {p}

\* The facts a pact picks; a row that differs in any other would change a held link or the entities.
PactPicked == {"skus", "statusRead", "statusByPact", "groupsPact", "sets", "setsByPact"}
SameButPactPicked(p, q) == \A f \in DOMAIN p \ PactPicked : p[f] = q[f]

\* The profile that replaces p once a pact it refuses is heard; none (an empty set) keeps p.
Reroute(table, p, sku, pact, fallback) ==
    LET modelled == \E r \in Rows(table, sku) : r.profile = p /\ ~r.admitted
        others == ProfileFor(table, sku, pact, modelled, fallback)
    IN  IF ~RefusesPact(table, p, sku, pact, fallback) THEN {}
        ELSE {q \in others : SameButPactPicked(p, q)}
=============================================================================
