---------------------------- MODULE ColourFrames ----------------------------
(***************************************************************************)
(* The frames of the light: which write frame each setter's request        *)
(* becomes under a device's colour scheme (wire/build.py), with the        *)
(* brightness byte and Kelvin conversions they carry                       *)
(* (devices/brightness.py, wire/cct.py).                                   *)
(*                                                                         *)
(* A frame is a record of the fields its bytes hold; a colour is a name, a *)
(* mask the set of the positions it selects among Positions; Kelvin 0 is   *)
(* no Kelvin.  A request no frame exists for is Refused.                   *)
(***************************************************************************)
EXTENDS Integers, FiniteSets, FiniteSetsExt

CONSTANTS
    Positions,     \* the segment indices told apart
    KelvinByTint,  \* wire/cct.py's table: the Kelvin of each tint colour
    FirstTint      \* ... and the first tint of each Kelvin

White == "white"
Black == "black"
NoColour == "none"

\* A Kelvin has several tints, of which the first is one; black is none.
ASSUME TintAssumption ==
    /\ Positions \subseteq Nat
    /\ \A k \in DOMAIN FirstTint : FirstTint[k] \in DOMAIN KelvinByTint /\ KelvinByTint[FirstTint[k]] = k
    /\ \A t \in DOMAIN KelvinByTint : KelvinByTint[t] \in DOMAIN FirstTint
    /\ DOMAIN FirstTint \subseteq Nat \ {0} /\ {Black, NoColour} \cap DOMAIN KelvinByTint = {}

Clamp(x, lo, hi) == Max({lo, Min({x, hi})})
CeilDiv(a, b) == (a + b - 1) \div b

TintForKelvin(k) == IF k \in DOMAIN FirstTint THEN FirstTint[k] ELSE Black
KelvinForTint(c) == IF c \in DOMAIN KelvinByTint THEN KelvinByTint[c] ELSE 0

\* Inside the range, then to the 100 K steps (halves up), then inside it again.
KelvinStep == 100
NormalizeKelvin(k, span) ==
    LET inside == IF span = <<>> THEN k ELSE Clamp(k, span[1], span[2])
        stepped == ((inside + KelvinStep \div 2) \div KelvinStep) * KelvinStep
    IN  IF span = <<>> THEN stepped ELSE Clamp(stepped, span[1], span[2])

\* The percent range is sent as it is; another spreads 1 .. 100 over its bytes.
PercentToRaw(pct, span) ==
    IF span = <<1, 100>> THEN Clamp(pct, 1, 100)
    ELSE span[1] + ((Clamp(pct, 1, 100) - 1) * (span[2] - span[1] + 3)) \div 100

RawToPercent(raw, span) ==
    IF span = <<1, 100>> THEN Clamp(raw, 0, 100)
    ELSE Clamp(CeilDiv(100 * (Clamp(raw, span[1], span[2]) - span[1]), span[2] - span[1] + 3) + 1, 1, 100)

-----------------------------------------------------------------------------
(* Segment masks.                                                          *)

LegacyMaskSegments == 16
ColourMaskCap == 7       \* bytes of a colour frame's mask at most
BrightnessMaskCap == 14  \* ... of a segment brightness frame's

MaskWidth(segments, cap) ==
    Min({cap, IF segments <= LegacyMaskSegments THEN 2 ELSE CeilDiv(segments, 8)})
\* What of a device's segments a mask reaches.
MaskPositions(segments, cap) == Min({segments, 8 * MaskWidth(segments, cap)})
\* The bits of a mask as a frame of this cap carries them.
MaskBits(mask, segments, cap) == {i \in mask : i < 8 * MaskWidth(segments, cap)}
AllSegmentsMask(segments) == {i \in Positions : i < segments}

-----------------------------------------------------------------------------
(* Colour frames.                                                          *)

Refused == [cmd |-> "refused"]

ColourFrame(form, rgb, kelvin, tint, mask) ==
    [cmd |-> "colour", form |-> form, rgb |-> rgb, kelvin |-> kelvin, tint |-> tint, mask |-> mask]

\* 15 01 with the tint (the h60a6 family), 15 01 without (h6061), 0d, 02, 0b and 15 04.
Op15Colour(rgb, kelvin, tint, mask, segments) ==
    ColourFrame("15", rgb, kelvin, tint, MaskBits(mask, segments, ColourMaskCap))
PanelColour(rgb, kelvin, panels) == ColourFrame("15k", rgb, kelvin, Black, AllSegmentsMask(panels))
Cct0d(rgb, kelvin, tint) == ColourFrame("0d", rgb, kelvin, tint, Positions)
Color02(rgb, tint) == ColourFrame("02", rgb, 0, tint, Positions)
Rgbic0b(rgb, mask) ==
    IF \E i \in mask : i >= LegacyMaskSegments THEN Refused ELSE ColourFrame("0b", rgb, 0, Black, mask)
KelvinV9(kelvin) == ColourFrame("v9", Black, kelvin, Black, Positions)

\* A layout of panels on a device of pieces; one panel is widened for a colour temperature.
H6061Panels(panels, pieces, expandOne) == IF expandOne /\ panels = 1 THEN pieces ELSE panels
H6061Colour(rgb, kelvin, panels, pieces, expandOne) ==
    IF panels \notin 1 .. pieces THEN Refused
    ELSE PanelColour(rgb, kelvin, H6061Panels(panels, pieces, expandOne))
H6061ColorTemp(kelvin, panels, tint, pieces) == H6061Colour(tint, kelvin, panels, pieces, TRUE)

\* Slot, Kelvin and tint of the h60a6 colour temperature, by the device's white type.
WhiteSlot(whiteType, mask, segments, kelvin, tint) ==
    CASE whiteType = "rgb_white" -> <<White, kelvin, tint>>
      [] whiteType = "rgb_black" -> <<Black, kelvin, tint>>
      [] whiteType = "rgb_self_tem_color" ->
             IF AllSegmentsMask(segments) \subseteq mask THEN <<Black, kelvin, tint>> ELSE <<tint, 0, Black>>

SegmentColorTemp(mask, kelvin, scheme, segments, tint, whiteType) ==
    IF scheme # "h60a6" THEN Refused
    ELSE LET slot == WhiteSlot(whiteType, mask, segments, kelvin, tint)
         IN  Op15Colour(slot[1], slot[2], slot[3], mask, segments)

\* The pick of a tint colour inside the range is written as its Kelvin; h6061 has a range of its own.
PickAsKelvinSchemes == {"h60a6", "h6006", "h6188", "h6061", "legacy_02"}
H6061KelvinRange == <<2000, 9000>>
PickRange(scheme, span) == IF span = <<>> /\ scheme = "h6061" THEN H6061KelvinRange ELSE span
RgbAsKelvin(rgb, scheme, span) ==
    LET range == PickRange(scheme, span) kelvin == KelvinForTint(rgb)
    IN  IF scheme \in PickAsKelvinSchemes /\ range # <<>> /\ kelvin # 0 /\ kelvin \in range[1] .. range[2]
        THEN kelvin ELSE 0

\* ... with the colour picked as its tint.
RgbPickColorTemp(rgb, kelvin, scheme, segments, mask, pieces, whiteType) ==
    CASE scheme = "h60a6" -> SegmentColorTemp(mask, kelvin, scheme, segments, rgb, whiteType)
      [] scheme \in {"h6006", "h6188"} -> Cct0d(rgb, kelvin, TintForKelvin(kelvin))
      [] scheme = "h6061" -> H6061ColorTemp(kelvin, segments, rgb, pieces)
      [] scheme = "legacy_02" -> Color02(White, rgb)

ColorRgb(rgb, scheme, segments, pieces) ==
    CASE scheme = "h60a6" -> Op15Colour(rgb, 0, Black, AllSegmentsMask(segments), segments)
      [] scheme \in {"h6006", "h6188"} -> Cct0d(rgb, 0, Black)
      [] scheme = "legacy_02" -> Color02(rgb, NoColour)
      [] scheme = "h61a8" -> Rgbic0b(rgb, AllSegmentsMask(segments))
      [] scheme = "h6061" -> H6061Colour(rgb, 0, segments, pieces, FALSE)
      [] scheme = "kelvin_v9" -> Refused

ColorRgbFrames(rgb, scheme, segments, span, pieces, whiteType) ==
    LET kelvin == RgbAsKelvin(rgb, scheme, span)
    IN  IF kelvin # 0
        THEN RgbPickColorTemp(rgb, kelvin, scheme, segments, AllSegmentsMask(segments), pieces, whiteType)
        ELSE ColorRgb(rgb, scheme, segments, pieces)

ColorTemp(kelvin, scheme, segments, pieces, whiteType) ==
    CASE scheme = "h60a6" -> SegmentColorTemp(AllSegmentsMask(segments), kelvin, scheme, segments,
                                              TintForKelvin(kelvin), whiteType)
      [] scheme = "h6006" -> Cct0d(TintForKelvin(kelvin), kelvin, TintForKelvin(kelvin))
      [] scheme = "h6188" -> Cct0d(White, kelvin, TintForKelvin(kelvin))
      [] scheme = "legacy_02" -> Color02(White, TintForKelvin(kelvin))
      [] scheme = "h6061" -> H6061ColorTemp(kelvin, segments, TintForKelvin(kelvin), pieces)
      [] scheme = "kelvin_v9" -> KelvinV9(kelvin)
      [] scheme = "h61a8" -> Refused

SegmentRgb(mask, rgb, scheme, segments, span, whiteType) ==
    CASE scheme = "h60a6" ->
             LET kelvin == RgbAsKelvin(rgb, scheme, span)
             IN  IF kelvin # 0 THEN SegmentColorTemp(mask, kelvin, scheme, segments, rgb, whiteType)
                 ELSE Op15Colour(rgb, 0, Black, mask, segments)
      [] scheme = "h61a8" -> Rgbic0b(rgb, mask)
      [] OTHER -> Refused

SegmentBrightness(mask, pct, scheme, segments) ==
    IF scheme # "h60a6" THEN Refused
    ELSE [cmd |-> "pieceLevel", level |-> Max({1, pct}), mask |-> MaskBits(mask, segments, BrightnessMaskCap)]

Brightness(level) == [cmd |-> "brightness", level |-> level]
SceneActivate(code) == [cmd |-> "scene", code |-> code]
=============================================================================
