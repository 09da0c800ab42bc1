----------------------------- MODULE ColourState -----------------------------
(***************************************************************************)
(* What the device facade holds of a light's colour, brightness and        *)
(* segments (devices/_fold.py), what its setters send (devices/device.py,  *)
(* ColourFrames) and what its read-backs fold (wire/parse.py).             *)
(*                                                                         *)
(* The light is the other side: it does what a frame says and reports it   *)
(* in the layout its model's mode decode names.  Somebody else (the app, a *)
(* remote) may change it too, and a write that raises may have reached it. *)
(* Calls do not overlap here: DeviceCalls and ZonePower interleave them.   *)
(***************************************************************************)
EXTENDS ProfileRules

CONSTANTS
    Profiles,  \* the DeviceProfiles, each with its positions told apart (at)
    Colours,   \* the colours picked
    Kelvins,   \* the Kelvins asked for
    Levels,    \* the percents asked for
    Codes,     \* scene codes
    MaxSteps,  \* bound on the calls, reads and changes of a behaviour
    Versions,  \* the firmware versions and
    Pacts      \* ... the pacts the device may have, 0 is not known

ASSUME ColourStateAssumption ==
    /\ Kelvins \subseteq Nat /\ Levels \subseteq 1 .. 100 /\ NoColour \notin Colours /\ Codes \subseteq Nat \ {0}
    /\ MaxSteps \in Nat /\ Versions \subseteq Nat \ {0} /\ Pacts \subseteq Nat \ {0}

\* The profiles are ones the library has.
ASSUME ProfilesAssumption == \A p \in Profiles : ValidColours(p)

VARIABLES
    profile,
    real,     \* the version and pact the device has
    known,    \* ... and what of it the Device knows, 0 before
    state,    \* DeviceState: level, rgb, kelvin, last, scene, segments, zone (its zone_color_temp_kelvin)
    light,    \* the device: level, look and piece level of each position, scene
    ours,     \* history: the light shows what an acknowledged write, or a read, last told the state
    oursLevel,
    claimed,  \* history: the positions whose held colour, and
    claimedLevel, \* ... whose held brightness, an acknowledged write gave
    steps,    \* the ones made, up to MaxSteps
    sent      \* history: the Kelvin the write just made sends, 0 otherwise

vars == <<profile, real, known, state, light, ours, oursLevel, claimed, claimedLevel, sent, steps>>
history == <<ours, oursLevel, claimed, claimedLevel>>

Unknown == -1
NoZone == [z \in Zones |-> 0]
NoSegment == [rgb |-> NoColour, level |-> Unknown]

-----------------------------------------------------------------------------
(* The ranges in force (devices/_fold.py).                                 *)

Cut(span, entries) ==
    <<Max({span[1]} \cup {e.lo : e \in entries}), Min({span[2]} \cup {e.hi : e \in entries})>>

\* The range of the newest entry.
Chosen(entries) == LET e == CHOOSE x \in entries : \A y \in entries : x.key >= y.key IN <<e.lo, e.hi>>

\* Fault: an unknown version or pact leaves the base range.
BaseKelvinRange(p, version, pact) == p.span

\* With the pact or the gating version not known, what every one of them allows.
ByPact(p, pact) ==
    LET keyed == {e \in p.byPact : e.key = pact}
    IN  IF pact = 0 THEN Cut(p.span, p.byPact) ELSE IF keyed = {} THEN p.span ELSE Chosen(keyed)
KelvinRange(p, version, pact) ==
    LET met == {e \in p.byVersion : version >= e.key}
    IN  CASE p.span = <<>> -> <<>>
          [] p.span # <<>> /\ version = 0 -> Cut(ByPact(p, pact), p.byVersion)
          [] p.span # <<>> /\ version # 0 -> IF met = {} THEN ByPact(p, pact) ELSE Chosen(met)

Span == KelvinRange(profile, known.version, known.pact)
CheckKelvin(k) == NormalizeKelvin(k, Span)

BrightnessRange(p, pact) ==
    LET keyed == {e \in p.levelByPact : e.key = pact}
    IN  IF keyed = {} THEN p.levels ELSE Chosen(keyed)
BrightnessPending(p, pact) == p.levelByPact # {} /\ pact = 0
\* brightness_max is 100: it is deprecated, and no row sets another.
BrightnessPct(p, raw, pact) ==
    IF BrightnessPending(p, pact) THEN Unknown
    ELSE LET span == BrightnessRange(p, pact)
         IN  IF span = <<>> THEN Clamp(raw, 0, 100) ELSE RawToPercent(raw, span)
BrightnessFrame(pct) ==
    IF BrightnessPending(profile, known.pact) THEN Refused
    ELSE LET span == BrightnessRange(profile, known.pact)
         IN  Brightness(IF span = <<>> THEN pct ELSE PercentToRaw(pct, span))

-----------------------------------------------------------------------------
(* The folds (devices/_fold.py): state to state.                           *)

RememberKelvin(s) == IF s.kelvin > 0 THEN [s EXCEPT !.last = s.kelvin] ELSE s

\* The bars' Kelvins, and the whole device's while they are the same.
ApplyZoneKelvin(s, kelvin) ==
    IF ~profile.bar THEN s
    ELSE LET zone == [z \in Zones |-> IF z \in DOMAIN kelvin THEN Max({kelvin[z], 0}) ELSE s.zone[z]]
             whole == IF zone[0] = zone[1] THEN zone[0] ELSE 0
         IN  RememberKelvin([s EXCEPT !.zone = zone, !.kelvin = whole,
                                      !.rgb = IF whole # 0 THEN NoColour ELSE @])

\* Fault: a pick that went out as a Kelvin is held as the colour picked.
ApplyRgbAsPicked(s, rgb, span) ==
    RememberKelvin(ApplyZoneKelvin([s EXCEPT !.rgb = rgb, !.kelvin = 0, !.scene = 0], NoZone))

ApplyRgb(s, rgb, span) ==
    LET kelvin == IF profile.colorTemp THEN RgbAsKelvin(rgb, profile.scheme, span) ELSE 0
        held == [s EXCEPT !.rgb = IF kelvin = 0 THEN rgb ELSE NoColour, !.kelvin = kelvin, !.scene = 0]
    IN  RememberKelvin(ApplyZoneKelvin(held, [z \in Zones |-> kelvin]))

ApplyKelvin(s, kelvin) ==
    RememberKelvin(ApplyZoneKelvin([s EXCEPT !.kelvin = kelvin, !.rgb = NoColour, !.scene = 0],
                                   [z \in Zones |-> kelvin]))

\* Fault: a scene leaves the bars their Kelvins.
ApplySceneKeepsZones(s, code) == [s EXCEPT !.scene = code, !.rgb = NoColour, !.kelvin = 0]

ApplyScene(s, code) ==
    ApplyZoneKelvin([s EXCEPT !.scene = code, !.rgb = NoColour, !.kelvin = 0], NoZone)

UpdateSegmentsRgb(s, indices, rgb) ==
    [s EXCEPT !.segments = [i \in Positions |-> IF i \in indices THEN [@[i] EXCEPT !.rgb = rgb] ELSE @[i]]]
UpdateSegmentsLevel(s, indices, level) ==
    [s EXCEPT !.segments = [i \in Positions |-> IF i \in indices THEN [@[i] EXCEPT !.level = level] ELSE @[i]]]

\* The segments of a report over the ones held.
MergeSegments(s, reported) ==
    [s EXCEPT !.segments = [i \in Positions |-> IF i \in DOMAIN reported THEN reported[i] ELSE @[i]]]

ApplyKelvinReport(s, kelvin) ==
    IF kelvin > 0 THEN [s EXCEPT !.kelvin = kelvin, !.rgb = NoColour] ELSE [s EXCEPT !.kelvin = 0]

\* The H7061's heads are segments 0 and 1; the whole has a colour while both show the same. The
\* range here is the one of an unknown pact.
ApplyHeadPair(s, heads) ==
    LET shared == IF heads[1].rgb = heads[2].rgb THEN heads[1].rgb ELSE NoColour
        kelvin == IF shared = NoColour THEN 0
                  ELSE RgbAsKelvin(shared, profile.scheme, KelvinRange(profile, known.version, 0))
    IN  [MergeSegments(s, [i \in {0, 1} |-> heads[i + 1]])
            EXCEPT !.rgb = IF kelvin = 0 THEN shared ELSE NoColour, !.kelvin = kelvin]

\* A mode report (aa 05 or the status burst's TLV 05).
ApplyMode(s, report) ==
    LET t == [s EXCEPT !.scene = 0]
    IN  RememberKelvin(
            CASE report.kind = "scene" -> ApplyScene(s, report.code)
              [] report.kind = "pair" -> ApplyZoneKelvin(t, [z \in Zones |-> report.kelvins[z]])
              [] report.kind = "kelvin" ->
                     IF report.kelvin > 0 \/ profile.reportsKelvin THEN ApplyKelvinReport(t, report.kelvin) ELSE t
              [] report.kind = "heads" -> ApplyHeadPair(t, report.heads)
              [] report.kind = "colour" -> [t EXCEPT !.rgb = report.rgb, !.kelvin = report.kelvin]
              [] report.kind = "none" -> t)

-----------------------------------------------------------------------------
(* The light.                                                              *)

Pieces == profile.at

\* What a colour frame shows: a Kelvin with its tint, or a colour.
Look(f) ==
    CASE f.form = "02" -> IF f.tint = NoColour THEN [kelvin |-> 0, shown |-> f.rgb]
                          ELSE [kelvin |-> KelvinForTint(f.tint), shown |-> f.tint]
      [] f.form = "v9" -> [kelvin |-> f.kelvin, shown |-> TintForKelvin(f.kelvin)]
      [] f.form = "15" /\ f.kelvin > 0 -> [kelvin |-> f.kelvin, shown |-> f.tint]
      [] OTHER -> [kelvin |-> f.kelvin, shown |-> f.rgb]

Does(l, f) ==
    CASE f.cmd = "colour" -> [l EXCEPT !.scene = 0,
                                       !.look = [i \in Positions |-> IF i \in f.mask \cap Pieces THEN Look(f) ELSE @[i]]]
      [] f.cmd = "pieceLevel" -> [l EXCEPT !.scene = 0,
                                           !.piece = [i \in Positions |-> IF i \in f.mask \cap Pieces THEN f.level ELSE @[i]]]
      [] f.cmd = "brightness" -> [l EXCEPT !.level = f.level]
      [] f.cmd = "scene" -> [l EXCEPT !.scene = f.code]
\* The one or two frames of a write, in order.
DoesAll(l, frames) == IF Len(frames) = 1 THEN Does(l, frames[1]) ELSE Does(Does(l, frames[1]), frames[2])

Looks(l, where) == {l.look[i] : i \in where}
Colour(look) == IF look.kelvin > 0 THEN [kind |-> "colour", rgb |-> NoColour, kelvin |-> look.kelvin]
                ELSE [kind |-> "colour", rgb |-> look.shown, kelvin |-> 0]

\* What a colour mask of the light reaches: the mode is of these.
Moded == MaskBits(Pieces, profile.segments, ColourMaskCap)

\* mode_color: the report in the profile's layout; of a light of several colours, of any of them.
Reports(l) ==
    IF l.scene # 0 THEN {[kind |-> "scene", code |-> l.scene]}
    ELSE CASE profile.decode = "none" -> {[kind |-> "none"]}
           [] profile.decode = "kelvin" -> {[kind |-> "kelvin", kelvin |-> k.kelvin] : k \in Looks(l, Moded)}
           [] profile.decode = "colour" -> {Colour(k) : k \in Looks(l, Moded)}
           [] profile.decode = "rgb" -> {[kind |-> "colour", rgb |-> k.shown, kelvin |-> 0] : k \in Looks(l, Moded)}
           [] profile.decode = "pair" ->
                  {[kind |-> "pair", kelvins |-> [z \in Zones |-> IF z = 0 THEN a.kelvin ELSE b.kelvin]] :
                      a \in Looks(l, profile.zones[0]), b \in Looks(l, profile.zones[1])}
           [] profile.decode = "heads" ->
                  {[kind |-> "heads", heads |-> [h \in 1 .. 2 |-> [rgb |-> l.look[h - 1].shown, level |-> l.piece[h - 1]]]]}

Segment(l, i) == [rgb |-> l.look[i].shown, level |-> l.piece[i]]

-----------------------------------------------------------------------------
\* A revision no range of the profile asks for makes no difference.
Asks(p) == [version |-> p.byVersion # {}, pact |-> p.byPact # {} \/ p.levelByPact # {}]

Init ==
    /\ profile \in Profiles
    /\ real \in [version : Versions, pact : Pacts]
    /\ ~Asks(profile).version => real.version = Min(Versions)
    /\ ~Asks(profile).pact => real.pact = Min(Pacts)
    /\ known = [version |-> 0, pact |-> 0]
    /\ state = [level |-> Unknown, rgb |-> NoColour, kelvin |-> 0, last |-> 0, scene |-> 0, zone |-> NoZone,
                segments |-> [i \in Positions |-> NoSegment]]
    /\ light = [level |-> 100, look |-> [i \in Positions |-> [kelvin |-> 0, shown |-> Black]],
                piece |-> [i \in Positions |-> 100], scene |-> 0]
    /\ ours = FALSE /\ oursLevel = FALSE /\ claimed = {} /\ claimedLevel = {} /\ sent = 0 /\ steps = 0

Step == steps < MaxSteps /\ steps' = steps + 1

KelvinOf(frames) ==
    LET colours == {i \in DOMAIN frames : frames[i].cmd = "colour"}
    IN  IF colours = {} THEN 0 ELSE Look(frames[CHOOSE i \in colours : TRUE]).kelvin

\* _commit: the frames of one write, acknowledged and folded, or raising after any of them arrived.
Acked(frames, folded) ==
    /\ Step
    /\ \A i \in DOMAIN frames : frames[i] # Refused
    /\ light' = DoesAll(light, frames) /\ state' = folded /\ sent' = KelvinOf(frames)
    /\ UNCHANGED <<profile, real, known>>
Raised(frames) ==
    /\ Step
    /\ \A i \in DOMAIN frames : frames[i] # Refused
    /\ \E n \in DOMAIN frames : light' = DoesAll(light, SubSeq(frames, 1, n))
    /\ sent' = KelvinOf(frames)
    /\ ours' = FALSE /\ oursLevel' = FALSE /\ claimed' = {} /\ claimedLevel' = {}
    /\ UNCHANGED <<profile, real, known, state>>

SetBrightness(pct) ==
    LET frames == <<BrightnessFrame(pct)>>
    IN  \/ /\ Acked(frames, [state EXCEPT !.level = pct])
           /\ oursLevel' = TRUE /\ UNCHANGED <<ours, claimed, claimedLevel>>
        \/ Raised(frames)

SetRgb(rgb) ==
    LET frames == <<ColorRgbFrames(rgb, profile.scheme, profile.segments, Span, profile.pieces, profile.white)>>
    IN  /\ profile.rgb
        /\ \/ /\ Acked(frames, ApplyRgb(state, rgb, Span))
              /\ ours' = TRUE /\ claimed' = {} /\ UNCHANGED <<oursLevel, claimedLevel>>
           \/ Raised(frames)

\* On the illumination profile, the Kelvin and then the brightness held. When none is, its read comes
\* first, folded whether or not the write then goes out (ReadBrightness, ReadStatus).
HeldBrightness == state.level # Unknown

SetColorTemp(k) ==
    LET kelvin == CheckKelvin(k)
        frame == ColorTemp(kelvin, profile.scheme, profile.segments, profile.pieces, profile.white)
        frames == IF profile.withBrightness THEN <<frame, BrightnessFrame(state.level)>> ELSE <<frame>>
        folded == ApplyKelvin(state, kelvin)
    IN  /\ profile.colorTemp
        /\ profile.withBrightness => HeldBrightness
        /\ \/ /\ Acked(frames, IF profile.withBrightness THEN [folded EXCEPT !.level = state.level] ELSE folded)
              /\ ours' = TRUE /\ oursLevel' = (oursLevel \/ profile.withBrightness)
              /\ claimed' = {} /\ UNCHANGED claimedLevel
           \/ Raised(frames)

\* turn_on's batch: the brightness and then the colour, the illumination profile's pair the other
\* way about. The power frame before them is ZonePower's.
TurnOnRgb(pct, rgb) ==
    LET frames == <<BrightnessFrame(pct),
                    ColorRgbFrames(rgb, profile.scheme, profile.segments, Span, profile.pieces, profile.white)>>
    IN  /\ profile.rgb
        /\ \/ /\ Acked(frames, ApplyRgb([state EXCEPT !.level = pct], rgb, Span))
              /\ ours' = TRUE /\ oursLevel' = TRUE /\ claimed' = {} /\ UNCHANGED claimedLevel
           \/ Raised(frames)

TurnOnKelvin(pct, k) ==
    LET kelvin == CheckKelvin(k)
        frame == ColorTemp(kelvin, profile.scheme, profile.segments, profile.pieces, profile.white)
        frames == IF profile.withBrightness THEN <<frame, BrightnessFrame(pct)>> ELSE <<BrightnessFrame(pct), frame>>
    IN  /\ profile.colorTemp
        /\ \/ /\ Acked(frames, ApplyKelvin([state EXCEPT !.level = pct], kelvin))
              /\ ours' = TRUE /\ oursLevel' = TRUE /\ claimed' = {} /\ UNCHANGED claimedLevel
           \/ Raised(frames)

\* Fault: the state takes every segment picked.
CarriedAll(indices, cap) == indices
\* The picked segments the frame's mask reaches.
Carried(indices, cap) ==
    IF profile.scheme # "h60a6" THEN indices
    ELSE {i \in indices : i < MaskPositions(profile.segments, cap)}

LeavesScene(s) == [s EXCEPT !.scene = 0]

SetSegmentRgb(indices, rgb) ==
    LET frames == <<SegmentRgb(indices, rgb, profile.scheme, profile.segments, Span, profile.white)>>
        carried == Carried(indices, ColourMaskCap)
    IN  /\ profile.pick /\ indices \subseteq Pieces
        /\ \/ /\ Acked(frames, LeavesScene(UpdateSegmentsRgb(state, carried, rgb)))
              /\ claimed' = claimed \cup carried
              /\ ours' = FALSE /\ UNCHANGED <<oursLevel, claimedLevel>>
           \/ Raised(frames)

\* A group of segments with one slider takes its brightness together.
BrightnessPieces(indices) == indices \cup UNION {g \in profile.groups : g \cap indices # {}}

SetSegmentBrightness(indices, pct) ==
    LET pieces == BrightnessPieces(indices)
        frames == <<SegmentBrightness(pieces, pct, profile.scheme, profile.segments)>>
        carried == Carried(pieces, BrightnessMaskCap)
    IN  /\ profile.pick /\ profile.pickLevel /\ indices \subseteq Pieces
        /\ \/ /\ Acked(frames, LeavesScene(UpdateSegmentsLevel(state, carried, pct)))
              /\ claimedLevel' = claimedLevel \cup carried
              /\ ours' = FALSE /\ UNCHANGED <<oursLevel, claimed>>
           \/ Raised(frames)

\* A Kelvin on part of the device: a piece selection, or a zone.
MaskedKelvin(piecewise) ==
    profile.pick /\ profile.colorTemp /\ ~profile.wholeKelvin /\ (piecewise => profile.pickKelvin)

SetSegmentColorTemp(indices, k) ==
    LET kelvin == CheckKelvin(k)
        frames == <<SegmentColorTemp(indices, kelvin, profile.scheme, profile.segments,
                                     TintForKelvin(kelvin), profile.white)>>
    IN  /\ MaskedKelvin(TRUE) /\ indices \subseteq Pieces
        /\ \/ /\ Acked(frames, LeavesScene(state))
              /\ claimed' = claimed \ indices
              /\ ours' = FALSE /\ UNCHANGED <<oursLevel, claimedLevel>>
           \/ Raised(frames)

\* The bars report their Kelvins, so that what one of them shows stays the state's.
BarStaysOurs == ours /\ profile.bar /\ light.scene = 0

SetZoneRgb(z, rgb) ==
    LET where == profile.zones[z]
        frames == <<SegmentRgb(where, rgb, profile.scheme, profile.segments, Span, profile.white)>>
        picked == LeavesScene(UpdateSegmentsRgb(state, where, rgb))
    IN  /\ profile.pick /\ profile.rgb /\ where # {}
        /\ \/ /\ Acked(frames, ApplyZoneKelvin(picked, [b \in {z} |-> RgbAsKelvin(rgb, profile.scheme, Span)]))
              /\ claimed' = claimed \cup where /\ ours' = BarStaysOurs
              /\ UNCHANGED <<oursLevel, claimedLevel>>
           \/ Raised(frames)

SetZoneColorTemp(z, k) ==
    LET where == profile.zones[z] kelvin == CheckKelvin(k)
        frames == <<SegmentColorTemp(where, kelvin, profile.scheme, profile.segments,
                                     TintForKelvin(kelvin), profile.white)>>
    IN  /\ MaskedKelvin(FALSE) /\ where # {}
        /\ \/ /\ Acked(frames, ApplyZoneKelvin(LeavesScene(state), [b \in {z} |-> kelvin]))
              /\ claimed' = claimed \ where /\ ours' = BarStaysOurs
              /\ UNCHANGED <<oursLevel, claimedLevel>>
           \/ Raised(frames)

SetScene(code) ==
    LET frames == <<SceneActivate(code)>>
    IN  \/ /\ Acked(frames, ApplyScene(state, code))
           /\ ours' = TRUE /\ claimed' = {} /\ UNCHANGED <<oursLevel, claimedLevel>>
        \/ Raised(frames)

-----------------------------------------------------------------------------
(* Reads and what is not ours.                                             *)

ReadMode ==
    /\ Step
    /\ \E r \in Reports(light) : state' = ApplyMode(state, r)
    /\ ours' = (\E r \in Reports(light) : Reports(light) = {r})
    /\ sent' = 0 /\ UNCHANGED <<profile, real, known, light, oursLevel, claimed, claimedLevel>>

ReadBrightness ==
    /\ Step
    /\ state' = [state EXCEPT !.level = BrightnessPct(profile, light.level, known.pact)]
    /\ oursLevel' = ~BrightnessPending(profile, known.pact)
    /\ sent' = 0 /\ UNCHANGED <<profile, real, known, light, ours, claimed, claimedLevel>>

\* A walk of the colour groups replaces the segments.
ReadSegments ==
    /\ Step
    /\ profile.pick
    /\ state' = [state EXCEPT !.segments = [i \in Positions |-> IF i \in Pieces THEN Segment(light, i) ELSE NoSegment]]
    /\ claimed' = Pieces /\ claimedLevel' = Pieces
    /\ sent' = 0 /\ UNCHANGED <<profile, real, known, light, ours, oursLevel>>

\* A status burst: the brightness, a prefix of the segments (its tail may be lost) and the mode.
ReadStatus ==
    \E n \in Pieces \cup {-1} : \E r \in Reports(light) :
        LET prefix == {i \in Pieces : i <= n}
            lit == [state EXCEPT !.level = BrightnessPct(profile, light.level, known.pact)]
        IN  /\ profile.status /\ Step
            /\ state' = ApplyMode(MergeSegments(lit, [i \in prefix |-> Segment(light, i)]), r)
            /\ claimed' = claimed \cup prefix /\ claimedLevel' = claimedLevel \cup prefix
            /\ oursLevel' = ~BrightnessPending(profile, known.pact)
            /\ ours' = (Reports(light) = {r})
            /\ sent' = 0 /\ UNCHANGED <<profile, real, known, light>>

\* The advertisement's pact, and the version reads.
LearnPact ==
    /\ Step
    /\ Asks(profile).pact /\ known.pact = 0 /\ known' = [known EXCEPT !.pact = real.pact]
    /\ sent' = 0 /\ UNCHANGED <<profile, real, state, light, history>>
LearnVersion ==
    /\ Step
    /\ Asks(profile).version /\ known.version = 0 /\ known' = [known EXCEPT !.version = real.version]
    /\ sent' = 0 /\ UNCHANGED <<profile, real, state, light, history>>

\* The app, a remote or another controller.
Elsewhere ==
    /\ Step
    /\ \/ \E c \in Colours : light' = [light EXCEPT !.scene = 0, !.look = [i \in Positions |-> IF i \in Pieces THEN [kelvin |-> 0, shown |-> c] ELSE @[i]]]
       \/ \E code \in Codes : light' = [light EXCEPT !.scene = code]
    /\ ours' = FALSE /\ claimed' = {}
    /\ sent' = 0 /\ UNCHANGED <<profile, real, known, state, oursLevel, claimedLevel>>

\* The picks of pieces: every one with the last piece, of which the others are the mirror image.
Picks == {x \in SUBSET Pieces : Max(Pieces) \in x}

Setters ==
    \/ \E pct \in Levels : SetBrightness(pct)
    \/ \E c \in Colours : SetRgb(c)
    \/ \E k \in Kelvins : SetColorTemp(k)
    \/ \E pct \in Levels, c \in Colours : TurnOnRgb(pct, c)
    \/ \E pct \in Levels, k \in Kelvins : TurnOnKelvin(pct, k)
    \/ \E code \in Codes : SetScene(code)
PieceSetters ==
    \/ \E x \in Picks, c \in Colours : SetSegmentRgb(x, c)
    \/ \E x \in Picks, pct \in Levels : SetSegmentBrightness(x, pct)
    \/ \E x \in Picks, k \in Kelvins : SetSegmentColorTemp(x, k)
    \/ \E z \in Zones, c \in Colours : SetZoneRgb(z, c)
    \/ \E z \in Zones, k \in Kelvins : SetZoneColorTemp(z, k)
Reads == ReadMode \/ ReadBrightness \/ ReadSegments \/ ReadStatus

Next == Setters \/ PieceSetters \/ Reads \/ LearnPact \/ LearnVersion \/ Elsewhere

Spec == Init /\ [][Next]_vars

-----------------------------------------------------------------------------
\* The colour, the colour temperature and the scene held exclude one another on every path, the
\* whole device has a Kelvin exactly while both bars of a bar device hold it, and the Kelvin held is
\* the one remembered: whatever order writes and reports of every layout are folded in.
ColourConsistent ==
    /\ state.rgb # NoColour => state.kelvin = 0
    /\ state.scene # 0 => state.rgb = NoColour /\ state.kelvin = 0
    /\ profile.bar => state.kelvin = IF state.zone[0] = state.zone[1] THEN state.zone[0] ELSE 0
    /\ state.kelvin # 0 => state.last = state.kelvin

\* What a report can give back of what was written: the rows of the catalogue have it, but for three of
\* scheme legacy_02 that have colours and no colour temperature (H6165, H7310, H7318), whose state keeps the
\* colour picked where the report shows its Kelvin (apply_rgb).
OneLook(p) ==
    /\ p.pieces \in Nat
    /\ p.scheme \in {"h60a6", "h61a8", "h6061"} => \A i \in p.at : i < p.segments
    /\ p.bar => p.white # "rgb_self_tem_color" /\ p.zones[0] \cap p.zones[1] = {}
PicksTold(p) ==
    /\ p.colorTemp => p.span # <<>>
    /\ p.rgb => p.colorTemp \/ p.scheme \notin PickAsKelvinSchemes \/ p.decode = "none"
    /\ p.decode = "heads" => /\ p.scheme = "h60a6" /\ p.byVersion = {} /\ p.byPact = {}
                             /\ {0, 1} \subseteq MaskBits(p.at, p.segments, ColourMaskCap)
    /\ p.colorTemp /\ (p.scheme = "legacy_02" \/ p.decode = "heads") =>
           \A k \in Kelvins, v \in Versions \cup {0}, c \in Pacts \cup {0} :
               NormalizeKelvin(k, KelvinRange(p, v, c)) \in DOMAIN FirstTint
\* Over fewer bytes 100 % is sent past the end of the range, and read as less.
WideLevels(p) ==
    \A span \in {p.levels} \cup {<<e.lo, e.hi>> : e \in p.levelByPact} :
        span \in {<<>>, <<1, 100>>} \/ span[2] - span[1] >= 198
TellsBack(p) == OneLook(p) /\ PicksTold(p) /\ WideLevels(p)

Colours4(s) == <<s.rgb, s.kelvin, s.scene, s.zone>>

\* A report of [r, g, b] alone shows a Kelvin as its tint, so that it says nothing of one held (H6052).
Reportable(s) == profile.decode = "rgb" => s.kelvin = 0

\* The light's own report of what an acknowledged write set, or of what a read folded, leaves the
\* colour, the scene and the brightness held as they are: a poll after a write shows the user what
\* was written, though the frame sent may have been another form than the one asked for (a tint
\* picked goes out as a Kelvin, the bars' Kelvins by segment masks, a percent as a raw byte).
OwnReportAgrees ==
    /\ ours /\ Reportable(state) => \A r \in Reports(light) : Colours4(ApplyMode(state, r)) = Colours4(state)
    /\ oursLevel => state.level = BrightnessPct(profile, light.level, known.pact)

\* The state holds no segment colour or brightness of a write whose frame did not carry it: where
\* the mask of a long strip is cut, the device keeps the old value and so does the state
\* (Device._carried).
SegmentsClaimed ==
    /\ \A i \in claimed : state.segments[i].rgb = light.look[i].shown
    /\ \A i \in claimedLevel : state.segments[i].level = light.piece[i]

\* A Kelvin sent is one the device in hand has, whichever of its pact and version are known when
\* it goes out (kelvin_range is cut to what every revision allows).
SentInRange ==
    LET newest == {e \in profile.byVersion : real.version >= e.key
                                            /\ \A f \in profile.byVersion : f.key > e.key => real.version < f.key}
        own == newest \cup {e \in profile.byPact : e.key = real.pact}
    IN  sent # 0 /\ profile.span # <<>> =>
            IF own = {} THEN sent \in profile.span[1] .. profile.span[2] ELSE \A e \in own : sent \in e.lo .. e.hi
=============================================================================
