---------------------------- MODULE ProfileRules ----------------------------
(***************************************************************************)
(* The colour facts a profile may hold: what DeviceProfile.__post_init__   *)
(* accepts of the fields ColourState reads (devices/profile.py).           *)
(***************************************************************************)
EXTENDS ColourFrames, Sequences

Zones == {0, 1}

\* A raw brightness range whose 100 % still fits a byte.
RawRange(span) ==
    /\ span \in Nat \X Nat /\ span[1] < span[2] /\ span[2] <= 255
    /\ PercentToRaw(100, span) <= 255

\* The spans have a value in common, which is what an unknown version or pact leaves.
OverlapEvery(base, entries) ==
    /\ \A e \in entries : e.lo <= base[2] /\ e.hi >= base[1]
    /\ Max({base[1]} \cup {e.lo : e \in entries}) <= Min({base[2]} \cup {e.hi : e \in entries})

OneEach(entries) == \A d, e \in entries : d.key = e.key => d = e
Ordered(e) == e.key \in Nat /\ e.lo \in Nat /\ e.hi \in Nat /\ 0 < e.lo /\ e.lo <= e.hi
\* The base range, <<>> for none.
BaseSpan(p) == p.span # <<>> => p.span \in Nat \X Nat /\ 0 < p.span[1] /\ p.span[1] <= p.span[2]

CheckKelvinByVersion(p) ==
    p.byVersion # {} => /\ p.span # <<>>
                        /\ \A e \in p.byVersion : Ordered(e)
                        /\ OneEach(p.byVersion)
                        /\ OverlapEvery(p.span, p.byVersion)
CheckRangesByPact(p) ==
    /\ p.byPact # {} => p.span # <<>> /\ p.byVersion = {} /\ OverlapEvery(p.span, p.byPact)
    /\ \A e \in p.byPact : Ordered(e)
    /\ \A e \in p.levelByPact : RawRange(<<e.lo, e.hi>>)

\* The catalogue keys a row's ranges by pact.
OnePerPact(p) == OneEach(p.byPact)

Schemes == {"h60a6", "h6006", "h61a8", "h6188", "h6061", "legacy_02", "kelvin_v9"}
WhiteTypes == {"rgb_black", "rgb_white", "rgb_self_tem_color"}
Layouts == {"none", "kelvin", "colour", "rgb", "pair", "heads"}

\* A bar device's mode report is the bars' pair, whatever its parse is otherwise.
BarsReportPairs(p) == p.bar => p.decode = "pair"

\* Pieces that can be picked are below the segment count, and zones and groups are of them. A zoned
\* row has few enough (30) for one colour mask to reach its zones.
OwnPieces(p) ==
    /\ p.segments \in Nat /\ p.at \subseteq Positions
    /\ p.pick => \A i \in p.at : i < p.segments
    /\ \A z \in Zones : /\ p.zones[z] \subseteq p.at
                        /\ \A i \in p.zones[z] : i < MaskPositions(p.segments, ColourMaskCap)
    /\ \A g \in p.groups : g \subseteq p.at

ValidColours(p) ==
    /\ p.scheme \in Schemes /\ p.white \in WhiteTypes /\ p.decode \in Layouts
    /\ p.white # "rgb_white" => p.scheme = "h60a6"
    /\ p.withBrightness => p.wholeKelvin
    /\ p.levels # <<>> => RawRange(p.levels)
    /\ \A g, h \in p.groups : g # {} /\ (g # h => g \cap h = {})
    /\ BaseSpan(p) /\ CheckKelvinByVersion(p) /\ CheckRangesByPact(p) /\ OnePerPact(p)
    /\ BarsReportPairs(p) /\ OwnPieces(p)
=============================================================================
