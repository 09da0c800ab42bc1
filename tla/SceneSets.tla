------------------------------ MODULE SceneSets ------------------------------
(***************************************************************************)
(* The bundled scenes (scenes/__init__.py): which effects a device's scene *)
(* set lists, how one is uploaded and the frames of the upload             *)
(* (wire/build.py).                                                        *)
(*                                                                         *)
(* A scene set is a set of versions.  The store holds a pool of scenes and *)
(* for each SKU the indexes of its catalogue; at some sets a name plays    *)
(* another pool entry, or Hidden.  A payload is a sequence of bytes, of    *)
(* which only the position matters.                                        *)
(***************************************************************************)
EXTENDS Integers, Sequences, FiniteSets, FiniteSetsExt

Hidden == 0
MaxCode == 65535
Indexed(f) == {f[i] : i \in DOMAIN f}
DefaultCatalog(store, sku) == IF sku \in DOMAIN store.skus THEN store.skus[sku] ELSE {}

\* _validate_entry
ValidScene(s) == s.code \in 0 .. MaxCode /\ s.param \in {"none", "base64"}

\* _catalogs: what a store that loads holds.
WellFormed(store) ==
    LET pool == DOMAIN store.pool
        overrides == {o \in store.bySet : o.index # Hidden}
    IN  /\ \A i \in pool : ValidScene(store.pool[i])
        /\ \A i, j \in pool : store.pool[i] = store.pool[j] => i = j
        /\ \A sku \in DOMAIN store.skus :
               /\ store.skus[sku] # {} /\ store.skus[sku] \subseteq pool
               /\ \A i, j \in store.skus[sku] : store.pool[i].name = store.pool[j].name => i = j
        /\ \A o \in store.bySet :
               /\ \E i \in DefaultCatalog(store, o.sku) : store.pool[i].name = o.name
               /\ o \in overrides => /\ o.index \in pool \ DefaultCatalog(store, o.sku)
                                     /\ store.pool[o.index].name = o.name
        /\ pool = UNION {store.skus[sku] : sku \in DOMAIN store.skus} \cup {o.index : o \in overrides}

\* The pool entry a scene of the SKU plays at a set.
Played(store, sku, set, i) ==
    LET mine == {o \in store.bySet : o.sku = sku /\ o.set = set /\ o.name = store.pool[i].name}
    IN  IF mine = {} THEN i ELSE (CHOOSE o \in mine : TRUE).index

\* load_scenes: the indexes the SKU's list plays, hidden ones left out.
Catalog(store, sku, set) == {Played(store, sku, set, i) : i \in DefaultCatalog(store, sku)} \ {Hidden}
SceneNames(store, sku, set) == {store.pool[i].name : i \in Catalog(store, sku, set)}

\* scene_names_by_code: of several scenes of one code, the first of the SKU's list.
NamesByCode(store, sku, set) ==
    LET listed(c) == {i \in DefaultCatalog(store, sku) :
                         /\ Played(store, sku, set, i) # Hidden
                         /\ store.pool[Played(store, sku, set, i)].code = c}
        codes == {store.pool[i].code : i \in Catalog(store, sku, set)}
    IN  [c \in codes |-> store.pool[Min(listed(c))].name]

-----------------------------------------------------------------------------
(* The set in force (devices/_fold.py).  Version 0 is one not read yet.    *)

Meets(version, gate) == gate = 0 \/ version = 0 \/ version >= gate

SceneVersions(p, soft, hard, pact) ==
    LET keyed == {e \in p.setsByPact : e.pact = pact}
        base == IF keyed = {} THEN p.sets ELSE (CHOOSE e \in keyed : TRUE).set
        met == {i \in DOMAIN p.setsByFirmware : /\ Meets(soft, p.setsByFirmware[i].soft)
                                                /\ Meets(hard, p.setsByFirmware[i].hard)}
    IN  IF met = {} THEN base ELSE p.setsByFirmware[Max(met)].set

\* Which versions the profile's gates test: those of the scenes only, or of the Kelvin ranges as well.
GatedSoft(p, scenes) == (\E e \in Indexed(p.setsByFirmware) : e.soft > 0) \/ (~scenes /\ p.kelvinBy = "soft")
GatedHard(p, scenes) == (\E e \in Indexed(p.setsByFirmware) : e.hard > 0) \/ (~scenes /\ p.kelvinBy = "hard")

-----------------------------------------------------------------------------
(* The upload.                                                             *)

\* The version a scene type asks for, the command byte and the bytes to strip.
LibraryScene == [rgb |-> [version |-> 1, comm |-> "v1", strip |-> 0],
                 rgbic |-> [version |-> 2, comm |-> "v2", strip |-> 0],
                 graffiti |-> [version |-> 3, comm |-> "v3", strip |-> 2],
                 compose |-> [version |-> 6, comm |-> "v4", strip |-> 1]]

NoUpload == <<>>
TooLarge == <<"too large">>
CeilOf(a, b) == (a + b - 1) \div b

\* 0xA3: the marker, the count and the command byte lead the stream, cut into pieces of 17; the start
\* and the end are always two frames.
A3Header == 3
A3Piece == 17
A3Inline == A3Piece - A3Header
ScenesA3(value, comm) ==
    LET pieces == Max({2, CeilOf(A3Header + Len(value), A3Piece)})
        from(i) == A3Inline + (i - 2) * A3Piece
        chunk(i) == IF i = 1 THEN SubSeq(value, 1, Min({A3Inline, Len(value)}))
                    ELSE SubSeq(value, from(i) + 1, Min({from(i) + A3Piece, Len(value)}))
    IN  IF pieces > 255 THEN TooLarge
        ELSE [i \in 1 .. pieces |-> [index |-> IF i = pieces THEN 255 ELSE i - 1, count |-> pieces,
                                     comm |-> comm, chunk |-> chunk(i)]]

\* 0xA4: frames of the link's own size.
A4Mtus == 20 .. 512
\* write_payload_size: what the link takes in one write, none when it cannot say.
WritePayload(sizes) == IF sizes = {} THEN 20 ELSE Max({20, Min({Max(sizes), 509})})
\* The type, the index, the head of the start, the chunk and the checksum.
A4Length(frames, i) == 3 + (IF i = 1 THEN 4 ELSE 0) + Len(frames[i].chunk) + 1
A4End == 65535
ScenesA4(value, comm, mtu) ==
    LET head == mtu - 8
        middle == mtu - 4
        rest == Max({0, Len(value) - head})
        total == 1 + Max({1, CeilOf(rest, middle)})
        chunk(i) == IF i = 1 THEN SubSeq(value, 1, Min({head, Len(value)}))
                    ELSE SubSeq(value, head + (i - 2) * middle + 1, Min({head + (i - 1) * middle, Len(value)}))
    IN  IF total > A4End THEN TooLarge
        ELSE [i \in 1 .. total |-> [index |-> IF i = total THEN A4End ELSE i - 1, count |-> total,
                                    comm |-> comm, chunk |-> chunk(i)]]

After(value, n) == SubSeq(value, n + 1, Len(value))

\* The parameter of a DIY scene; blob.reads has the kinds a blob reads as.
H60A6Upload(blob, mtu) ==
    LET value == After(blob.raw, 1)
    IN  CASE "h60a6_diy" \notin blob.reads \/ value = <<>> -> NoUpload
          [] OTHER -> IF "wire_diy" \in blob.reads THEN ScenesA3(value, "h60a6")
                      ELSE IF "wire_graffiti" \in blob.reads THEN ScenesA4(value, "h60a6", mtu) ELSE NoUpload
H6052Upload(blob) ==
    IF "h6052_graffiti" \in blob.reads THEN ScenesA3(After(blob.raw, 1), "h6052") ELSE NoUpload

\* A scene whose type, set or blob has no upload is only activated.
LibraryUpload(type, blob, set) ==
    LET spec == LibraryScene[type]
    IN  IF spec.version \in set /\ type \in blob.reads THEN ScenesA3(After(blob.raw, spec.strip), spec.comm)
        ELSE NoUpload
PlanUpload(type, blob, dialect, set, mtu) ==
    CASE type = "diy" /\ dialect = "B_h60a6" -> H60A6Upload(blob, mtu)
      [] type = "diy" /\ dialect = "B_h6052" -> H6052Upload(blob)
      [] type \in DOMAIN LibraryScene -> LibraryUpload(type, blob, set)
      [] OTHER -> NoUpload

\* What the frames carry, put together again.
Carries(frames) == IF Len(frames) = 0 THEN <<>>
                   ELSE LET upTo[i \in 0 .. Len(frames)] ==
                                IF i = 0 THEN <<>> ELSE LET before == upTo[i - 1] IN before \o frames[i].chunk
                        IN  upTo[Len(frames)]
Framed(frames, value, last) ==
    /\ Carries(frames) = value /\ Len(frames) >= 2
    /\ \A i \in DOMAIN frames : /\ frames[i].count = Len(frames)
                                /\ frames[i].index = IF i = Len(frames) THEN last ELSE i - 1
=============================================================================
