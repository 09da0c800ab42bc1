---------------------------- MODULE DeviceReads ----------------------------
(***************************************************************************)
(* What a Device reads (devices/device.py, devices/_readback.py): the poll *)
(* that update() makes, one read after the other with the awaits between   *)
(* them, a scene set by its name, and what they leave in the state while   *)
(* setters, other hands and advertisements change it.                      *)
(*                                                                         *)
(* The device answers in the order it was asked.  An answer may be lost,   *)
(* or come late and be taken for that of the next read of its command.  A  *)
(* value is the version its field had, a piece's together with the piece.  *)
(* The locks are DeviceCalls's, the frames of a status reply StatusRead's, *)
(* colours ColourState's, zones ZonePower's.                               *)
(***************************************************************************)
EXTENDS Broadcasts, SceneSets, StatusStream

CONSTANTS
    Tasks,      \* the callers of update() and set_scene_by_name()
    Instances,  \* the devices looked at: [profile, uses, calls, count, ic, soft, hard]
    Store,      \* the bundled scenes
    Names,      \* the scene names asked for
    MaxVersion  \* bound: how often a field changes

Uses == {"poll", "set", "touch", "air", "scene", "fail", "late"}
Fields == {"power", "level", "mode", "gradual"}
InfoHard == 3
InfoSn == 2
MaxMaskSegments == 112

ASSUME DeviceReadsAssumption ==
    /\ MaxVersion \in Nat
    /\ \A i \in Instances : ValidReads(i.profile) /\ i.uses \subseteq Uses /\ i.calls \in Nat
    /\ WellFormed(Store)

\* What a pact may reroute an instance to.
Routed(i) == {i.profile} \cup {p \in {row.profile : row \in Table} : SameButPactPicked(i.profile, p)}
CountsPieces(p) ==
    /\ {"size", "pieces", "sectionRead", "decode"} \subseteq DOMAIN p
    /\ {p.size, p.perPiece, p.decode.size} \subseteq Nat \ {0} /\ p.pieces \in Nat
    /\ p.icRange \in {<<>>} \cup (Nat \X Nat)

\* A device has the pieces its profile names and those it reports; the groups of a status reply are read by
\* a number of pieces the profile has (_resolve.py: a colour read-back needs num_segments). A strip cut
\* shorter than the least its live count is clamped to (live_ic_pieces) is left out.
ASSUME PiecesAssumption ==
    \A i \in Instances :
        /\ i.count \in Nat /\ i.ic \in [ic : Nat, second : Nat, sections : Seq(Nat)] /\ SectionSum(i.ic) <= i.count
        /\ \A row \in Table : DOMAIN row.profile = DOMAIN i.profile
        /\ \A p \in Routed(i) :
               /\ CountsPieces(p) /\ p.pieces <= i.count
               /\ p.liveIc => LiveWalk(p, i.ic).total <= i.count
               /\ p.decode.groups => p.pieces # 0 /\ ~p.sectionRead

VARIABLES
    inst,      \* the device looked at, what happens to it and the calls at most made (a bound), fixed
    dev,       \* the device: version of each field and piece
    held,      \* _state: the version read or set of each field (0: none), segments, versions, serial, ...
    pieces,    \* segment_count: _segment_count or the profile's, None while it has to be read
    infoRead,  \* _device_info_read
    scenes,    \* _scenes_warm, _scenes_error; broken: the store cannot be read just now
    seq,       \* _mutation_seq
    call,      \* each task's call
    calls,     \* how many were made
    late,      \* an answer still to come: [read, dev], at most one
    acked,     \* history: the versions the last acknowledged setters left
    tainted,   \* history: what an answer to an earlier read was taken for
    sent       \* history: the scene set sent last, the device's own, unread: a version read told it nothing

readVars == <<inst, dev, held, pieces, infoRead, scenes, seq, call, calls, late, acked, tainted, sent>>
vars == <<profile, airVars, readVars>>

Use(u) == u \in inst.uses
Idle == [todo |-> <<>>, reads |-> <<>>, snap |-> 0, got |-> <<>>, total |-> 0, live |-> FALSE,
         answered |-> FALSE, info |-> FALSE, mixed |-> FALSE, name |-> "", set |-> {}, unread |-> FALSE]
Has(p, cap) == cap \in p.caps
PieceAt(d, s) == [piece |-> s, ver |-> IF s \in DOMAIN d.piece THEN d.piece[s] ELSE 0]

-----------------------------------------------------------------------------
(* The reads.                                                              *)

Read(cmd, sel) == [cmd |-> cmd, sel |-> sel]
One(cond, r) == IF cond THEN <<r>> ELSE <<>>
GroupReads(groups) == [g \in 1 .. groups |-> Read("group", g)]

\* The stages of _update, in its order; the first seven are _read_polled's.
StateStages == {"power", "level", "detail", "bars", "sections", "mode", "plug", "status"}
PollStages(p) ==
    CASE p.session = "per_command" -> <<>>
      [] p.readback = "polled" -> <<"power", "level", "detail", "bars", "sections", "mode", "ic", "walk", "gradual", "info">>
      [] p.readback = "plug" -> <<"plug", "info">>
      [] p.readback = "status" -> <<"status", "ic", "walk", "gradual", "info">>
      [] OTHER -> <<"ic", "walk", "gradual">>

\* Fault: a version not read yet is not read for a scene.
MissingForPoll(p, h, forScenes) ==
    IF forScenes \/ ~p.infoReads THEN <<>>
    ELSE One(GatedSoft(p, FALSE) /\ h.soft = 0, Read("soft", 0))

\* _versions_missing: what a gate still waits for.
Missing(p, h, forScenes) ==
    IF ~p.infoReads THEN <<>>
    ELSE One(GatedSoft(p, forScenes) /\ h.soft = 0, Read("soft", 0))
         \o One(GatedHard(p, forScenes) /\ h.hard = 0, Read("info", InfoHard))
DeviceInfoReads == <<Read("soft", 0), Read("info", InfoHard), Read("info", InfoSn)>>

WalkTotal(p, count) == IF p.pieces # 0 THEN p.pieces ELSE count
WalkReads(p, count) ==
    IF p.walk = "" \/ (p.walk = "direct" /\ p.sectionRead /\ count = None) THEN <<>>
    ELSE IF p.walk = "direct" /\ (p.liveIc \/ p.icSections) THEN <<Read("ic", 0)>>
    ELSE GroupReads(Groups(WalkTotal(p, count), p.size))

\* The reads a stage makes, as its condition stands when it is reached.
StageReads(stage, p, h, count, infoDone) ==
    CASE stage = "power" -> One(~p.detail, Read("power", 0))
      [] stage = "level" -> One(Has(p, "brightness"), Read("level", 0))
      [] stage = "detail" -> One(p.detail, Read("power", 1))
      [] stage = "bars" -> One(p.bar, Read("power", 2))
      [] stage = "sections" -> One(p.sectionRead, Read("sections", 0))
      [] stage = "mode" -> One(Has(p, "mode"), Read("mode", 0))
      [] stage = "plug" -> <<Read("power", 0)>>
      [] stage = "status" -> <<Read("status", 1)>>
      [] stage = "ic" -> One(p.icOnly /\ ~p.liveIc /\ ~p.icSections, Read("ic", 0))
      [] stage = "walk" -> WalkReads(p, count)
      [] stage = "gradual" -> One(p.gradual = "state", Read("gradual", 0)) \o One(p.gradual = "read", Read("fade", 0))
      [] stage = "info" -> IF ~p.infoReads THEN <<>> ELSE IF infoDone THEN Missing(p, h, FALSE) ELSE DeviceInfoReads
      [] stage = "version" -> Missing(p, h, TRUE)
      [] stage = "load" -> <<Read("load", 0)>>

\* _wants_color_groups and _status_types: the TLV types asked for.
ColorGroupType == 165
WantsColorGroups(p) ==
    p.groupsPact = NoPact \/ known.pact = NoPact
        \/ (known.pact[1] = p.groupsPact[1] /\ known.pact[2] >= p.groupsPact[2])
StatusTypesAsked(p) ==
    LET byPact == {e \in p.statusByPact : e.pact = known.pact}
        types == IF known.pact = NoPact \/ byPact = {} THEN p.statusRead ELSE (CHOOSE e \in byPact : TRUE).types
    IN  IF WantsColorGroups(p) THEN Indexed(types) ELSE Indexed(types) \ {ColorGroupType}

-----------------------------------------------------------------------------
(* The device's side.                                                      *)

GroupAt(d, g, size) == [group |-> g, records |-> [k \in 1 .. size |-> PieceAt(d, GroupBaseIndex(g, size) + k - 1)]]
Tlv(tag, value) == [tag |-> tag, ok |-> TRUE, value |-> value]
Stream(d, p, asked) ==
    <<Tlv("switch", d.power), Tlv("brightness", d.level), Tlv("mode", d.mode)>>
        \o (IF p.infoReads THEN <<>> ELSE <<Tlv("basic", [serial |-> "sn", soft |-> inst.soft, hard |-> inst.hard])>>)
        \o (IF ColorGroupType \notin asked THEN <<>>
            ELSE [g \in 1 .. Groups(inst.count, p.decode.size) |-> Tlv("group", GroupAt(d, g, p.decode.size))])

\* The reply to a read has the read's command, of which the power has three (aa 01, aa 34, aa 36);
\* one to a version or a group says which of them it answers.
Tells(r, reply) == reply.read.sel = r.sel
Matches(r, reply) == r.cmd = reply.read.cmd /\ (r.cmd = "power" => Tells(r, reply))

-----------------------------------------------------------------------------
(* Applying a reply.                                                       *)

\* Fault: a reading that a setter overtook is applied.
FreshAlways(c) == TRUE
Fresh(c) == c.snap = seq

\* The state after one reply; a field whose reading a setter overtook keeps the setter's value.
Applied(r, reply, fresh, h) ==
    CASE r.cmd \in Fields /\ fresh -> [h EXCEPT ![r.cmd] = reply.dev[r.cmd]]
      [] r.cmd = "soft" -> [h EXCEPT !.soft = inst.soft]
      [] r.cmd = "info" -> IF ~Tells(r, reply) THEN h    \* a late reply to the read before it
                           ELSE IF r.sel = InfoHard THEN [h EXCEPT !.hard = inst.hard] ELSE [h EXCEPT !.serial = "sn"]
      [] OTHER -> h

\* _fold.apply_status: what the stream carries; the segments it has are merged in.
AppliedStatus(d, p, fresh, h, count) ==
    LET read == ParseStatus(Stream(d, p, StatusTypesAsked(p)), TRUE, FALSE, p.decode, count)
        st == CHOOSE x \in read : TRUE
        known_(new, old) == IF new = 0 THEN old ELSE new
    IN  IF ~fresh \/ read = {} THEN h
        ELSE [h EXCEPT !.power = st.on, !.level = st.level, !.mode = st.mode,
                       !.segs = [s \in DOMAIN @ \cup DOMAIN st.segments |->
                                    IF s \in DOMAIN st.segments THEN st.segments[s] ELSE @[s]],
                       !.soft = known_(st.versions.soft, @), !.hard = known_(st.versions.hard, @),
                       !.serial = IF st.serial = Unset THEN @ ELSE st.serial]

\* The walk an aa 40 reply starts, and the groups' records as the walk keeps them.
WalkOf(p, count) == IF p.liveIc THEN LiveWalk(p, inst.ic) ELSE SectionWalk(p, inst.ic, WalkTotal(p, count))
\* Fault: the filling of the last group is kept.
KeptFilling(r, reply, c, p) ==
    [group |-> r.sel, records |-> GroupAt(reply.dev, reply.read.sel, p.size).records]
Kept(r, reply, c, p) ==
    [group |-> r.sel, records |-> Trimmed(GroupAt(reply.dev, reply.read.sel, p.size).records, c.total, p.size, r.sel)]

-----------------------------------------------------------------------------
(* The calls.                                                              *)

\* On to the first stage that has something to read; none is left when the call returns.
NextStage(c, h, count, infoDone, s) ==
    LET p == profile
        hits == {i \in DOMAIN c.todo : StageReads(c.todo[i], p, h, count, infoDone) # <<>>}
        i == Min(hits)
    IN  IF hits = {} THEN Idle
        ELSE [c EXCEPT !.todo = After(c.todo, i - 1), !.snap = s, !.got = <<>>, !.answered = FALSE,
                       !.reads = StageReads(c.todo[i], p, h, count, infoDone), !.mixed = FALSE,
                       !.total = WalkTotal(p, count), !.info = ~infoDone,
                       !.set = IF c.todo[i] = "load" THEN SceneVersions(p, h.soft, h.hard, known.pact) ELSE @]

\* _update loads the catalogue until one load has worked.
Warmed == IF scenes.warm \/ ~Has(profile, "scenes") THEN scenes
          ELSE [scenes EXCEPT !.warm = ~scenes.broken, !.error = scenes.broken]

Begin(t, c) ==
    /\ calls < inst.calls /\ call[t] = Idle /\ calls' = calls + 1
    /\ call' = [call EXCEPT ![t] = NextStage(c, held, pieces, infoRead, seq)]

Update(t) ==
    /\ Use("poll") /\ Begin(t, [Idle EXCEPT !.todo = PollStages(profile)])
    /\ scenes' = IF profile.session = "per_command" THEN scenes ELSE Warmed
    /\ UNCHANGED <<profile, airVars, inst, dev, held, pieces, infoRead, seq, late, acked, tainted, sent>>

SetSceneByName(t, name) ==
    /\ Use("scene") /\ Has(profile, "scenes")
    /\ Begin(t, [Idle EXCEPT !.todo = <<"version", "load">>, !.name = name])
    /\ UNCHANGED <<profile, airVars, inst, dev, held, pieces, infoRead, scenes, seq, late, acked, tainted, sent>>

\* A read came back, with a reply or with none: fold it in and go on.
Replied(t, answer) ==
    LET c == call[t]
        p == profile
        r == Head(c.reads)
        stage == Head(c.todo)
        fresh == Fresh(c)
        has == answer # {}
        reply == CHOOSE x \in answer : TRUE
        ofWalk == stage = "walk" /\ r.cmd = "ic"
        walk == IF ofWalk /\ has THEN WalkOf(p, pieces) ELSE NoWalk
        more == CASE ofWalk -> GroupReads(walk.groups)
                  [] r.cmd = "status" -> One(~has /\ r.sel = 1, Read("status", 2))
                  [] OTHER -> Tail(c.reads)
        live == fresh /\ has /\ stage \in StateStages \ {"sections"}
        c1 == [c EXCEPT !.reads = more, !.total = IF ofWalk THEN walk.total ELSE @,
                        !.got = IF has /\ r.cmd = "group" THEN Append(@, Kept(r, reply, c, p)) ELSE @,
                        !.mixed = @ \/ (has /\ r.cmd = "group" /\ answer = late),
                        !.answered = @ \/ has, !.live = @ \/ live,
                        !.unread = @ \/ (stage = "version" /\ ~(has /\ Tells(r, reply)))]
        ends == more = <<>>
        segments == GroupsToSegments(c1.got, p.size)
        walked == ends /\ stage = "walk" /\ fresh /\ DOMAIN segments # {}
        over == ends /\ stage \in StateStages
                     /\ (Len(c.todo) = 1 \/ \A i \in 2 .. Len(c.todo) : c.todo[i] \in StateStages =>
                            StageReads(c.todo[i], p, held, pieces, infoRead) = <<>>)
        folded == CASE ~has -> held
                    [] has /\ r.cmd = "status" -> AppliedStatus(reply.dev, p, fresh, held, pieces)
                    [] OTHER -> Applied(r, reply, fresh, held)
        h == [folded EXCEPT !.segs = IF walked THEN segments ELSE @, !.optimistic = @ /\ ~(over /\ c1.live)]
        count == IF has /\ r.cmd = "sections" /\ inst.count \in 1 .. MaxMaskSegments THEN inst.count ELSE pieces
        infoDone == IF ends /\ stage = "info" /\ c.info THEN c1.answered \/ c1.live ELSE infoRead
        target == IF walked THEN {"segs"} ELSE IF has /\ fresh THEN {r.cmd} \cap Fields ELSE {}
    IN  /\ held' = h /\ pieces' = count /\ infoRead' = infoDone
        /\ call' = [call EXCEPT ![t] =
               IF ends THEN NextStage([c1 EXCEPT !.todo = Tail(@)], h, count, infoDone, seq) ELSE c1]
        /\ tainted' = IF (walked /\ c1.mixed) \/ (~walked /\ has /\ answer = late) THEN tainted \cup target
                      ELSE tainted \ target
        /\ UNCHANGED <<profile, airVars, inst, dev, scenes, seq, calls, acked, sent>>

OnWire(t) == call[t].reads # <<>> /\ Head(call[t].todo) # "load"
OwnReply(t) == [read |-> Head(call[t].reads), dev |-> dev]

\* The reply comes; one to an earlier read that had not come is lost, or came before this read.
Answered(t) == OnWire(t) /\ Replied(t, {OwnReply(t)}) /\ late' = {}

\* It does not come in time, and may come later; or what came of a status burst parses to nothing,
\* which is read once more all the same.
Unanswered(t) ==
    /\ OnWire(t) /\ Replied(t, {})
    /\ late' \in {late, {}} \cup (IF Use("late") /\ Head(call[t].reads).cmd # "status" THEN {{OwnReply(t)}} ELSE {})

\* The reply to an earlier read of the command comes first.
LateTaken(t) ==
    /\ OnWire(t) /\ \E x \in late : Matches(Head(call[t].reads), x)
    /\ Replied(t, late) /\ late' \in {{}, {OwnReply(t)}}

\* The link is lost, or its setup fails: the call raises, but update() not from its version reads, its last.
Fails(t) ==
    /\ Use("fail") /\ OnWire(t)
    /\ call' = [call EXCEPT ![t] = Idle] /\ late' = {}
    /\ UNCHANGED <<profile, airVars, inst, dev, held, pieces, infoRead, scenes, seq, calls, acked, tainted, sent>>

-----------------------------------------------------------------------------
(* Setters, and other hands on the device.                                 *)

Settable(p) == {f \in Fields : CASE f = "power" -> Has(p, "power") [] f = "level" -> Has(p, "brightness")
                                 [] f = "mode" -> Has(p, "mode") [] f = "gradual" -> p.gradual = "state"}
Bumped(f) == [dev EXCEPT ![f] = @ + 1]
PieceBumped(s) == [dev EXCEPT !.piece[s] = @ + 1]
Merged(s, d) == [x \in DOMAIN held.segs \cup {s} |-> IF x = s THEN PieceAt(d, s) ELSE held.segs[x]]

\* _commit: acknowledged, or it raised and reached the device or not.
Committed(d, h, a, cleared) ==
    \/ dev' = d /\ held' = h /\ acked' = a /\ seq' = seq + 1 /\ tainted' = tainted \ cleared
    \/ Use("fail") /\ dev' \in {dev, d} /\ UNCHANGED <<held, acked, seq, tainted>>

SetField(f) ==
    /\ Use("set") /\ f \in Settable(profile) /\ dev[f] < MaxVersion
    /\ LET v == dev[f] + 1 IN Committed(Bumped(f), [held EXCEPT ![f] = v], [acked EXCEPT ![f] = v], {f})
    /\ UNCHANGED <<profile, airVars, inst, pieces, infoRead, scenes, call, calls, late, sent>>

\* A segment's colour: its mask needs the count, which is read first (_ensure_segment_count).
SetPiece(s) ==
    /\ Use("set") /\ s \in DOMAIN dev.piece /\ pieces # None /\ s < pieces /\ dev.piece[s] < MaxVersion
    /\ Committed(PieceBumped(s), [held EXCEPT !.segs = Merged(s, PieceBumped(s))],
                 [acked EXCEPT !.piece[s] = dev.piece[s] + 1], {})
    /\ UNCHANGED <<profile, airVars, inst, pieces, infoRead, scenes, call, calls, late, sent>>
EnsureSegmentCount ==
    /\ Use("set") /\ profile.sectionRead /\ pieces = None /\ inst.count \in 1 .. MaxMaskSegments
    /\ pieces' = inst.count /\ late' = {}
    /\ UNCHANGED <<profile, airVars, inst, dev, held, infoRead, scenes, seq, call, calls, acked, tainted, sent>>

Touched(d) ==
    /\ Use("touch") /\ dev' = d
    /\ UNCHANGED <<profile, airVars, inst, held, pieces, infoRead, scenes, seq, call, calls, late, acked, tainted, sent>>
Touch(f) == dev[f] < MaxVersion /\ f \in Settable(profile) /\ Touched(Bumped(f))
TouchPiece(s) == s \in DOMAIN dev.piece /\ dev.piece[s] < MaxVersion /\ Touched(PieceBumped(s))

-----------------------------------------------------------------------------
(* Scenes.                                                                 *)

\* The catalogue of the set taken is loaded and the scene sent, unless the load fails or has no such name.
PlayScene(t) ==
    LET c == call[t]
        p == profile
        hits == {i \in Catalog(Store, Sku, c.set) : Store.pool[i].name = c.name}
        v == dev.mode + 1
    IN  /\ c.reads # <<>> /\ Head(c.todo) = "load" /\ dev.mode < MaxVersion
        /\ call' = [call EXCEPT ![t] = Idle]
        /\ IF scenes.broken \/ hits = {} THEN UNCHANGED <<dev, held, acked, seq, tainted, sent>>
           ELSE /\ Committed(Bumped("mode"), [held EXCEPT !.mode = v], [acked EXCEPT !.mode = v], {"mode"})
                /\ sent' = [scene |-> hits, unread |-> c.unread,
                            own |-> Catalog(Store, Sku, SceneVersions(p, inst.soft, inst.hard, known.pact))]
        /\ UNCHANGED <<profile, airVars, inst, pieces, infoRead, scenes, calls, late>>

\* _scene_lookup, what scene_names and active_scene read: a load that fails is remembered.
LookUp ==
    /\ Use("scene") /\ Has(profile, "scenes") /\ ~scenes.error
    /\ scenes.broken /\ scenes' = [scenes EXCEPT !.warm = FALSE, !.error = TRUE]
    /\ UNCHANGED <<profile, airVars, inst, dev, held, pieces, infoRead, seq, call, calls, late, acked, tainted, sent>>
Shelf ==
    /\ Use("scene") /\ scenes' = [scenes EXCEPT !.broken = ~@]
    /\ UNCHANGED <<profile, airVars, inst, dev, held, pieces, infoRead, seq, call, calls, late, acked, tainted, sent>>

-----------------------------------------------------------------------------
Init ==
    /\ inst \in Instances /\ profile = inst.profile
    /\ IF Use("air") THEN AirInit(profile) ELSE AirStill(profile)
    /\ dev = [power |-> 1, level |-> 1, mode |-> 1, gradual |-> 1, piece |-> [s \in 0 .. inst.count - 1 |-> 1]]
    /\ held = [power |-> 0, level |-> 0, mode |-> 0, gradual |-> 0, segs |-> <<>>, soft |-> 0, hard |-> 0,
               serial |-> Unset, optimistic |-> TRUE]
    /\ pieces = (IF profile.sectionRead THEN None ELSE profile.pieces)
    /\ infoRead = FALSE /\ scenes = [warm |-> FALSE, error |-> FALSE, broken |-> FALSE] /\ seq = 0
    /\ call = [t \in Tasks |-> Idle] /\ calls = 0 /\ late = {}
    /\ acked = [power |-> 0, level |-> 0, mode |-> 0, gradual |-> 0, piece |-> [s \in 0 .. inst.count - 1 |-> 0]]
    /\ tainted = {} /\ sent = [scene |-> {}, unread |-> FALSE, own |-> {}]

Air ==
    /\ Use("air")
    /\ \/ OwnFrame
       \/ \E k \in ForeignKeys, pact \in AirPacts, on \in {"on", "off"} : ForeignFrame(k, pact, on)
       \/ Switch
       \/ \E k \in OwnKeys, pact \in AirPacts : NewHeader(k, pact)
    /\ UNCHANGED readVars

Next ==
    \/ \E t \in Tasks : \/ Update(t) \/ \E name \in Names : SetSceneByName(t, name)
                        \/ Answered(t) \/ Unanswered(t) \/ LateTaken(t) \/ Fails(t) \/ PlayScene(t)
    \/ \E f \in Fields : SetField(f) \/ Touch(f)
    \/ \E s \in DOMAIN dev.piece : SetPiece(s) \/ TouchPiece(s)
    \/ EnsureSegmentCount \/ LookUp \/ Shelf \/ Air

Spec == Init /\ [][Next]_vars

-----------------------------------------------------------------------------
(* Properties.                                                             *)

(***************************************************************************)
(* What a setter the device acknowledged has left is not undone by a read  *)
(* begun before it, a walk over all the pieces included, unless the reply  *)
(* to an earlier read was taken for that read's (_stale, _read_fresh).     *)
(***************************************************************************)
NewerSetterKept ==
    /\ \A f \in Fields \ tainted : held[f] >= acked[f]
    /\ "segs" \notin tainted =>
           \A s \in DOMAIN held.segs : held.segs[s].ver >= acked.piece[s]

(***************************************************************************)
(* A segment of the state is a piece the device has, with that piece's own *)
(* colour: the filling of a last group is none, whichever of the profile,  *)
(* a live count and the section sum sized the walk and whichever groups    *)
(* went unanswered (walk_mechanism_a_direct, walk_mechanism_b,             *)
(* parse_status), unless a late reply was taken.  The sizes are within the *)
(* device's (PiecesAssumption).                                            *)
(***************************************************************************)
SegmentsOwn ==
    "segs" \notin tainted =>
        \A s \in DOMAIN held.segs : s \in DOMAIN dev.piece /\ held.segs[s].piece = s

(***************************************************************************)
(* A scene set by name is one the device's own firmware offers: a version  *)
(* its set depends on is read first, so only a device that left that read  *)
(* unanswered, or answered it with the late reply to another, gets a scene *)
(* of another set (_scene_by_name).                                        *)
(***************************************************************************)
SceneOffered == profile.infoReads /\ ~sent.unread => sent.scene \subseteq sent.own
=============================================================================
