------------------------- MODULE ColourState_proofs -------------------------
(***************************************************************************)
(* Proofs about ColourState, for every set of profiles the library has     *)
(* (ProfilesAssumption), every colour, Kelvin, percent and scene code.     *)
(*                                                                         *)
(* HeldInv says what the state holds is consistent, ClaimsHold which of    *)
(* its segments the light shows; a Kelvin goes out through one of the      *)
(* frame builders, each of which sends the one it is given, or none.       *)
(* AgreeInv adds that the reports of the light are ones the state holds.   *)
(***************************************************************************)
EXTENDS ColourState, SequenceTheorems, WellFoundedInduction, TLAPS

-----------------------------------------------------------------------------
(* Ranges.                                                                 *)

\* What is inside a range is left, what is outside is moved to its end.
LEMMA ClampBetween ==
    ASSUME NEW x \in Int, NEW lo \in Int, NEW hi \in Int, lo <= hi
    PROVE  Clamp(x, lo, hi) \in lo .. hi
<1>1. Min({x, hi}) = IF x <= hi THEN x ELSE hi
  BY DEF Min
<1> QED
  BY <1>1 DEF Clamp, Max

LEMMA LeastOf ==
    ASSUME NEW S, S \subseteq Nat, S # {}
    PROVE  Min(S) \in S /\ \A x \in S : Min(S) <= x
<1>1. PICK m \in S : \A x \in S : <<x, m>> \notin OpToRel(<, Nat)
  BY NatLessThanWellFounded, WFMin
<1>2. \A x \in S : ~(x < m)
  BY <1>1 DEF OpToRel
<1>3. \A x \in S : m <= x
  BY <1>2
<1> QED
  BY <1>3 DEF Min

LEMMA GreatestOf ==
    ASSUME NEW S, S \subseteq Nat, S # {}, NEW b \in Nat, \A x \in S : x <= b
    PROVE  Max(S) \in S /\ \A x \in S : x <= Max(S)
<1> DEFINE T == {b - x : x \in S}
<1>1. T \subseteq Nat /\ T # {}
  <2>1. \A x \in S : b - x \in Nat
    OBVIOUS
  <2> QED
    BY <2>1
<1>2. PICK t \in T : \A y \in T : <<y, t>> \notin OpToRel(<, Nat)
  BY <1>1, NatLessThanWellFounded, WFMin
<1> HIDE DEF T
<1>3. \A y \in T : ~(y < t)
  BY <1>1, <1>2 DEF OpToRel
<1>4. PICK m \in S : t = b - m
  BY DEF T
<1>5. \A x \in S : b - x \in T /\ x \in Nat
  BY DEF T
<1>6. \A x \in S : m >= x
  BY <1>3, <1>4, <1>5
<1> QED
  BY <1>6 DEF Max

\* A base range cut to every entry's, where they overlap.
LEMMA CutSound ==
    ASSUME NEW span \in Nat \X Nat, NEW entries,
           \A e \in entries : e.lo \in Nat /\ e.hi \in Nat,
           span[1] <= span[2], OverlapEvery(span, entries)
    PROVE  /\ Cut(span, entries) \in Nat \X Nat
           /\ Cut(span, entries)[1] <= Cut(span, entries)[2]
           /\ span[1] <= Cut(span, entries)[1] /\ Cut(span, entries)[2] <= span[2]
           /\ \A e \in entries : e.lo <= Cut(span, entries)[1] /\ Cut(span, entries)[2] <= e.hi
<1> DEFINE los == {span[1]} \cup {e.lo : e \in entries}
           his == {span[2]} \cup {e.hi : e \in entries}
<1>1. los \subseteq Nat /\ los # {} /\ his \subseteq Nat /\ his # {}
  OBVIOUS
<1>2. \A x \in los : x <= span[2]
  BY DEF OverlapEvery
<1>3. Max(los) \in los /\ \A x \in los : x <= Max(los)
  BY <1>1, <1>2, GreatestOf
<1>4. Min(his) \in his /\ \A x \in his : Min(his) <= x
  BY <1>1, LeastOf
<1>5. Max(los) <= Min(his)
  BY DEF OverlapEvery
<1>6. Cut(span, entries) = <<Max(los), Min(his)>>
  BY DEF Cut
<1>7. span[1] \in los /\ span[2] \in his /\ \A e \in entries : e.lo \in los /\ e.hi \in his
  OBVIOUS
<1> DEFINE lo == Max(los)
           hi == Min(his)
<1>8. /\ lo \in Nat /\ hi \in Nat /\ lo <= hi /\ span[1] <= lo /\ hi <= span[2]
      /\ \A e \in entries : e.lo <= lo /\ hi <= e.hi
  <2> HIDE DEF los, his
  <2> QED
    BY <1>1, <1>3, <1>4, <1>5, <1>7
<1>9. Cut(span, entries) = <<lo, hi>>
  BY <1>6
<1> HIDE DEF lo, hi
<1> QED
  BY <1>8, <1>9

\* The entry Chosen takes is one of them, and no other is newer.
LEMMA ChosenEntry ==
    ASSUME NEW entries, entries # {}, \A e \in entries : e.key \in Nat,
           NEW b \in Nat, \A e \in entries : e.key <= b
    PROVE  \E e \in entries : Chosen(entries) = <<e.lo, e.hi>> /\ \A x \in entries : x.key <= e.key
<1> DEFINE keys == {e.key : e \in entries}
<1>1. keys \subseteq Nat /\ keys # {} /\ \A k \in keys : k <= b
  OBVIOUS
<1>2. Max(keys) \in keys /\ \A k \in keys : k <= Max(keys)
  BY <1>1, GreatestOf
<1>3. PICK m \in entries : m.key = Max(keys)
  BY <1>2
<1>4. \A x \in entries : m.key >= x.key
  BY <1>1, <1>2, <1>3
<1> DEFINE e == CHOOSE x \in entries : \A y \in entries : x.key >= y.key
<1>5. e \in entries /\ \A y \in entries : e.key >= y.key
  BY <1>4
<1>6. Chosen(entries) = <<e.lo, e.hi>>
  BY DEF Chosen
<1> HIDE DEF e
<1> QED
  BY <1>5, <1>6

LEMMA CutNone ==
    ASSUME NEW span \in Nat \X Nat, span[1] <= span[2]
    PROVE  Cut(span, {}) = span
<1>1. {span[1]} \cup {e.lo : e \in {}} = {span[1]} /\ {span[2]} \cup {e.hi : e \in {}} = {span[2]}
  OBVIOUS
<1>2. Max({span[1]}) = span[1] /\ Min({span[2]}) = span[2]
  BY DEF Max, Min
<1> QED
  BY <1>1, <1>2 DEF Cut

\* The ranges of the revision in hand: the entries of its version and of its pact.
NewestMet(p, version) ==
    {e \in p.byVersion : version >= e.key /\ \A f \in p.byVersion : f.key > e.key => version < f.key}
OwnEntries(p, version, pact) == NewestMet(p, version) \cup {e \in p.byPact : e.key = pact}

IsSpan(r) == r \in Nat \X Nat /\ r[1] <= r[2]
\* Every Kelvin of r is one of the revision.
Within(r, p, version, pact) ==
    LET own == OwnEntries(p, version, pact)
    IN  IF own = {} THEN p.span[1] <= r[1] /\ r[2] <= p.span[2]
        ELSE \A e \in own : e.lo <= r[1] /\ r[2] <= e.hi

\* kelvin_range: whichever of the version and the pact are known, the range in force is a range of
\* the device in hand.
LEMMA RangeSound ==
    ASSUME NEW p, ValidColours(p), p.span # <<>>,
           NEW version \in Nat \ {0}, NEW pact \in Nat \ {0},
           NEW v \in {0, version}, NEW q \in {0, pact}
    PROVE  IsSpan(KelvinRange(p, v, q)) /\ Within(KelvinRange(p, v, q), p, version, pact)
<1>1. IsSpan(p.span)
  BY DEF ValidColours, BaseSpan, IsSpan
<1>2. /\ \A e \in p.byVersion : e.key \in Nat /\ e.lo \in Nat /\ e.hi \in Nat /\ e.lo <= e.hi
      /\ \A e \in p.byPact : e.key \in Nat /\ e.lo \in Nat /\ e.hi \in Nat /\ e.lo <= e.hi
  BY DEF ValidColours, CheckKelvinByVersion, CheckRangesByPact, Ordered
<1>3. /\ p.byVersion # {} => OneEach(p.byVersion) /\ OverlapEvery(p.span, p.byVersion)
      /\ p.byPact # {} => p.byVersion = {} /\ OneEach(p.byPact) /\ OverlapEvery(p.span, p.byPact)
  BY DEF ValidColours, CheckKelvinByVersion, CheckRangesByPact, OnePerPact
<1> DEFINE keyed == {e \in p.byPact : e.key = q}
           met == {e \in p.byVersion : v >= e.key}
<1>4. /\ q = 0 => ByPact(p, q) = Cut(p.span, p.byPact)
      /\ q # 0 => ByPact(p, q) = IF keyed = {} THEN p.span ELSE Chosen(keyed)
  BY DEF ByPact
<1>5. /\ v = 0 => KelvinRange(p, v, q) = Cut(ByPact(p, q), p.byVersion)
      /\ v # 0 => KelvinRange(p, v, q) = IF met = {} THEN ByPact(p, q) ELSE Chosen(met)
  BY DEF KelvinRange
<1>6. CASE p.byPact # {}
  <2>1. p.byVersion = {} /\ NewestMet(p, version) = {} /\ met = {}
    BY <1>3, <1>6 DEF NewestMet
  <2>2. CASE q = 0
    <3>1. /\ IsSpan(ByPact(p, q)) /\ p.span[1] <= ByPact(p, q)[1] /\ ByPact(p, q)[2] <= p.span[2]
          /\ \A e \in p.byPact : e.lo <= ByPact(p, q)[1] /\ ByPact(p, q)[2] <= e.hi
      BY <1>1, <1>2, <1>3, <1>4, <1>6, <2>2, CutSound DEF IsSpan
    <3>2. KelvinRange(p, v, q) = ByPact(p, q)
      BY <1>5, <2>1, <3>1, CutNone DEF IsSpan
    <3> QED
      BY <2>1, <3>1, <3>2 DEF Within, OwnEntries
  <2>3. CASE q # 0 /\ keyed = {}
    <3>1. ByPact(p, q) = p.span /\ q = pact
      BY <1>4, <2>3
    <3>2. KelvinRange(p, v, q) = ByPact(p, q)
      BY <1>1, <1>5, <2>1, <3>1, CutNone DEF IsSpan
    <3>3. OwnEntries(p, version, pact) = {}
      BY <2>1, <2>3, <3>1 DEF OwnEntries
    <3> QED
      BY <1>1, <3>1, <3>2, <3>3 DEF Within, IsSpan
  <2>4. CASE q # 0 /\ keyed # {}
    <3>1. ByPact(p, q) = Chosen(keyed) /\ q = pact
      BY <1>4, <2>4
    <3>2. keyed # {} /\ \A e \in keyed : e.key \in Nat /\ e.key <= q
      BY <1>2, <2>4
    <3>3. PICK e \in keyed : Chosen(keyed) = <<e.lo, e.hi>> /\ \A x \in keyed : x.key <= e.key
      <4> HIDE DEF keyed
      <4> QED
        BY <3>2, ChosenEntry
    <3>4. IsSpan(ByPact(p, q))
      BY <1>2, <3>1, <3>3 DEF IsSpan
    <3>5. KelvinRange(p, v, q) = ByPact(p, q)
      BY <1>5, <2>1, <3>4, CutNone DEF IsSpan
    <3>6. OwnEntries(p, version, pact) = {e}
      BY <1>3, <1>6, <2>1, <3>1, <3>3 DEF OwnEntries, OneEach
    <3> QED
      BY <1>2, <3>1, <3>3, <3>4, <3>5, <3>6 DEF Within
  <2> QED
    BY <2>2, <2>3, <2>4
<1>7. CASE p.byPact = {}
  <2>1. ByPact(p, q) = p.span
    BY <1>1, <1>4, <1>7, CutNone DEF IsSpan
  <2>2. OwnEntries(p, version, pact) = NewestMet(p, version)
    BY <1>7 DEF OwnEntries
  <2>3. CASE v = 0 /\ p.byVersion = {}
    <3>1. KelvinRange(p, v, q) = p.span
      BY <1>1, <1>5, <2>1, <2>3, CutNone DEF IsSpan
    <3>2. NewestMet(p, version) = {}
      BY <2>3 DEF NewestMet
    <3> QED
      BY <1>1, <2>2, <3>1, <3>2 DEF Within, IsSpan
  <2>4. CASE v = 0 /\ p.byVersion # {}
    <3> DEFINE r == KelvinRange(p, v, q)
    <3>1. r = Cut(p.span, p.byVersion)
      BY <1>5, <2>1, <2>4
    <3>2. /\ IsSpan(r) /\ p.span[1] <= r[1] /\ r[2] <= p.span[2]
          /\ \A e \in p.byVersion : e.lo <= r[1] /\ r[2] <= e.hi
      BY <1>1, <1>2, <1>3, <2>4, <3>1, CutSound DEF IsSpan
    <3> HIDE DEF r
    <3>3. NewestMet(p, version) \subseteq p.byVersion
      BY DEF NewestMet
    <3> QED
      BY <2>2, <3>2, <3>3 DEF Within, r
  <2>5. CASE v # 0 /\ met = {}
    <3>1. KelvinRange(p, v, q) = p.span /\ v = version
      BY <1>5, <2>1, <2>5
    <3>2. NewestMet(p, version) = {}
      BY <2>5, <3>1 DEF NewestMet
    <3> QED
      BY <1>1, <2>2, <3>1, <3>2 DEF Within, IsSpan
  <2>6. CASE v # 0 /\ met # {}
    <3>1. KelvinRange(p, v, q) = Chosen(met) /\ v = version
      BY <1>5, <2>6
    <3>2. met # {} /\ v \in Nat /\ \A e \in met : e.key \in Nat /\ e.key <= v
      BY <1>2, <2>6
    <3>3. PICK e \in met : Chosen(met) = <<e.lo, e.hi>> /\ \A x \in met : x.key <= e.key
      <4> HIDE DEF met
      <4> QED
        BY <3>2, ChosenEntry
    <3>4. ASSUME NEW x \in NewestMet(p, version)
          PROVE  x = e
      <4>1. x \in met /\ ~(e.key > x.key)
        BY <3>1, <3>3, <3>2 DEF NewestMet
      <4>2. x.key = e.key
        BY <1>2, <3>3, <4>1
      <4> QED
        BY <1>3, <3>3, <4>1, <4>2 DEF OneEach
    <3>5. e \in NewestMet(p, version)
      <4>1. \A f \in p.byVersion : f.key > e.key => version < f.key
        BY <1>2, <3>1, <3>3
      <4> QED
        BY <3>1, <3>3, <4>1 DEF NewestMet
    <3>6. OwnEntries(p, version, pact) = {e}
      BY <2>2, <3>4, <3>5
    <3> QED
      BY <1>2, <3>1, <3>3, <3>6 DEF Within, IsSpan
  <2> QED
    BY <2>3, <2>4, <2>5, <2>6
<1> QED
  BY <1>6, <1>7

\* A Kelvin asked for goes out inside the range in force.
LEMMA NormalizedIn ==
    ASSUME NEW k \in Nat, NEW span, span = <<>> \/ IsSpan(span)
    PROVE  /\ NormalizeKelvin(k, span) \in Nat
           /\ span # <<>> => NormalizeKelvin(k, span) \in span[1] .. span[2]
<1> DEFINE Stepped(x) == ((x + KelvinStep \div 2) \div KelvinStep) * KelvinStep
<1>1. \A x \in Nat : Stepped(x) \in Nat
  BY DEF KelvinStep
<1>2. CASE span = <<>>
  BY <1>1, <1>2 DEF NormalizeKelvin
<1>3. CASE span # <<>>
  <2>1. span[1] \in Nat /\ span[2] \in Nat /\ span[1] <= span[2]
    BY <1>3 DEF IsSpan
  <2> DEFINE inside == Clamp(k, span[1], span[2])
  <2>2. \A x \in Nat : Clamp(x, span[1], span[2]) \in Nat /\ Clamp(x, span[1], span[2]) \in span[1] .. span[2]
    <3> TAKE x \in Nat
    <3>1. x \in Int /\ span[1] \in Int /\ span[2] \in Int
      BY <2>1
    <3>2. Clamp(x, span[1], span[2]) \in span[1] .. span[2]
      BY <2>1, <3>1, ClampBetween
    <3> QED
      BY <2>1, <3>2
  <2>3. Stepped(inside) \in Nat
    <3>1. inside \in Nat
      BY <2>2
    <3> HIDE DEF inside, Stepped
    <3> QED
      BY <1>1, <3>1
  <2>4. NormalizeKelvin(k, span) = Clamp(Stepped(inside), span[1], span[2])
    BY <1>3 DEF NormalizeKelvin
  <2> HIDE DEF inside, Stepped
  <2> QED
    BY <1>3, <2>2, <2>3, <2>4
<1> QED
  BY <1>2, <1>3

-----------------------------------------------------------------------------
(* The frames: each builder sends the Kelvin it is given, or none.         *)

LEMMA TintFacts ==
    ASSUME NEW c, NEW k
    PROVE  /\ KelvinForTint(c) \in Nat
           /\ KelvinForTint(TintForKelvin(k)) \in {0, k}
           /\ KelvinForTint(c) # 0 => c # NoColour
BY TintAssumption DEF KelvinForTint, TintForKelvin

\* A colour frame that shows one of these Kelvins.
Paints(f, kelvins) == f.cmd = "colour" /\ Look(f).kelvin \in kelvins

LEMMA ColourFrameLook ==
    ASSUME NEW form, NEW rgb, NEW kelvin \in Nat, NEW tint, NEW mask
    PROVE  LET f == ColourFrame(form, rgb, kelvin, tint, mask)
           IN  /\ f.cmd = "colour" /\ f.mask = mask
               /\ form = "02" => Look(f) = IF tint = NoColour THEN [kelvin |-> 0, shown |-> rgb]
                                           ELSE [kelvin |-> KelvinForTint(tint), shown |-> tint]
               /\ form # "02" => Look(f).kelvin = kelvin
               /\ form = "15" => Look(f).shown = IF kelvin > 0 THEN tint ELSE rgb
               /\ form = "0b" => Look(f).shown = rgb
<1> DEFINE f == ColourFrame(form, rgb, kelvin, tint, mask)
<1>1. /\ f.cmd = "colour" /\ f.mask = mask /\ f.form = form /\ f.rgb = rgb /\ f.kelvin = kelvin /\ f.tint = tint
  BY DEF ColourFrame
<1> HIDE DEF f
<1>2. CASE form = "02"
  BY <1>1, <1>2 DEF Look, f
<1>3. CASE form = "v9"
  BY <1>1, <1>3 DEF Look, f
<1>4. CASE form = "15"
  <2>1. CASE kelvin > 0
    BY <1>1, <1>4, <2>1 DEF Look, f
  <2>2. CASE ~(kelvin > 0)
    BY <1>1, <1>4, <2>2 DEF Look, f
  <2> QED
    BY <2>1, <2>2
<1>5. CASE form \notin {"02", "v9", "15"}
  <2>1. Look(f) = [kelvin |-> kelvin, shown |-> rgb]
    BY <1>1, <1>5 DEF Look
  <2> QED
    BY <1>1, <1>5, <2>1 DEF f
<1> QED
  BY <1>2, <1>3, <1>4, <1>5

LEMMA Op15Look ==
    ASSUME NEW rgb, NEW kelvin \in Nat, NEW tint, NEW mask, NEW segments
    PROVE  LET f == Op15Colour(rgb, kelvin, tint, mask, segments)
           IN  /\ Paints(f, {kelvin}) /\ f.mask = MaskBits(mask, segments, ColourMaskCap)
               /\ Look(f).shown = IF kelvin > 0 THEN tint ELSE rgb
BY ColourFrameLook DEF Op15Colour, Paints

LEMMA PanelLook ==
    ASSUME NEW rgb, NEW kelvin \in Nat, NEW panels
    PROVE  Paints(PanelColour(rgb, kelvin, panels), {kelvin})
BY ColourFrameLook DEF PanelColour, Paints

LEMMA Cct0dLook ==
    ASSUME NEW rgb, NEW kelvin \in Nat, NEW tint
    PROVE  Paints(Cct0d(rgb, kelvin, tint), {kelvin})
BY ColourFrameLook DEF Cct0d, Paints

LEMMA Color02Look ==
    ASSUME NEW rgb, NEW tint
    PROVE  Paints(Color02(rgb, tint), IF tint = NoColour THEN {0} ELSE {KelvinForTint(tint)})
<1>1. /\ Color02(rgb, tint).cmd = "colour"
      /\ Look(Color02(rgb, tint)) = IF tint = NoColour THEN [kelvin |-> 0, shown |-> rgb]
                                    ELSE [kelvin |-> KelvinForTint(tint), shown |-> tint]
  BY ColourFrameLook DEF Color02
<1> QED
  BY <1>1 DEF Paints

LEMMA Rgbic0bLook ==
    ASSUME NEW rgb, NEW mask
    PROVE  LET f == Rgbic0b(rgb, mask)
           IN  f = Refused \/ (Paints(f, {0}) /\ f.mask = mask /\ Look(f).shown = rgb)
BY ColourFrameLook DEF Rgbic0b, Paints

LEMMA KelvinV9Look ==
    ASSUME NEW kelvin \in Nat
    PROVE  Paints(KelvinV9(kelvin), {kelvin})
BY ColourFrameLook DEF KelvinV9, Paints

LEMMA WhiteSlots ==
    ASSUME NEW whiteType \in WhiteTypes, NEW mask, NEW segments, NEW kelvin, NEW tint
    PROVE  WhiteSlot(whiteType, mask, segments, kelvin, tint)
              \in {<<White, kelvin, tint>>, <<Black, kelvin, tint>>, <<tint, 0, Black>>}
BY DEF WhiteSlot, WhiteTypes

LEMMA SegmentKelvinFrame ==
    ASSUME NEW mask, NEW kelvin \in Nat, NEW scheme, NEW segments, NEW tint, NEW whiteType \in WhiteTypes
    PROVE  LET f == SegmentColorTemp(mask, kelvin, scheme, segments, tint, whiteType)
           IN  \/ f = Refused
               \/ /\ Paints(f, {0, kelvin}) /\ f.mask = MaskBits(mask, segments, ColourMaskCap)
                  /\ kelvin # 0 => Look(f).shown = tint
<1> DEFINE f == SegmentColorTemp(mask, kelvin, scheme, segments, tint, whiteType)
           slot == WhiteSlot(whiteType, mask, segments, kelvin, tint)
<1>1. CASE scheme # "h60a6"
  BY <1>1 DEF SegmentColorTemp
<1>2. CASE scheme = "h60a6"
  <2>1. f = Op15Colour(slot[1], slot[2], slot[3], mask, segments)
    BY <1>2 DEF SegmentColorTemp
  <2>2. /\ slot[2] \in {0, kelvin} /\ slot[2] \in Nat
        /\ kelvin # 0 => (IF slot[2] > 0 THEN slot[3] ELSE slot[1]) = tint
    BY WhiteSlots
  <2> HIDE DEF f, slot
  <2>3. /\ Paints(f, {slot[2]}) /\ f.mask = MaskBits(mask, segments, ColourMaskCap)
        /\ Look(f).shown = IF slot[2] > 0 THEN slot[3] ELSE slot[1]
    BY <2>1, <2>2, Op15Look
  <2>4. Paints(f, {0, kelvin})
    BY <2>2, <2>3 DEF Paints
  <2> QED
    BY <2>2, <2>3, <2>4 DEF f
<1> QED
  BY <1>1, <1>2

LEMMA PanelFrame ==
    ASSUME NEW rgb, NEW kelvin \in Nat, NEW panels, NEW pieces, NEW expandOne
    PROVE  LET f == H6061Colour(rgb, kelvin, panels, pieces, expandOne)
           IN  f = Refused \/ Paints(f, {kelvin})
BY PanelLook DEF H6061Colour

\* The pick of a tint is none, or the Kelvin of the tint inside the range.
LEMMA PickedKelvin ==
    ASSUME NEW rgb, NEW scheme, NEW span
    PROVE  /\ RgbAsKelvin(rgb, scheme, span) \in Nat
           /\ RgbAsKelvin(rgb, scheme, span) # 0 =>
                 /\ RgbAsKelvin(rgb, scheme, span) = KelvinForTint(rgb)
                 /\ scheme \in PickAsKelvinSchemes
                 /\ span # <<>> => RgbAsKelvin(rgb, scheme, span) \in span[1] .. span[2]
BY TintFacts DEF RgbAsKelvin, PickRange

LEMMA ColorRgbShows ==
    ASSUME NEW rgb, NEW scheme \in Schemes, NEW segments, NEW pieces
    PROVE  LET f == ColorRgb(rgb, scheme, segments, pieces)
           IN  f = Refused \/ Paints(f, {0})
<1> DEFINE f == ColorRgb(rgb, scheme, segments, pieces)
<1>1. CASE scheme = "h60a6"
  BY <1>1, Op15Look DEF ColorRgb
<1>2. CASE scheme \in {"h6006", "h6188"}
  BY <1>2, Cct0dLook DEF ColorRgb
<1>3. CASE scheme = "legacy_02"
  BY <1>3, Color02Look DEF ColorRgb
<1>4. CASE scheme = "h61a8"
  BY <1>4, Rgbic0bLook DEF ColorRgb
<1>5. CASE scheme = "h6061"
  BY <1>5, PanelFrame DEF ColorRgb
<1>6. CASE scheme = "kelvin_v9"
  BY <1>6 DEF ColorRgb
<1> QED
  BY <1>1, <1>2, <1>3, <1>4, <1>5, <1>6 DEF Schemes

\* set_rgb's frame sends the Kelvin the pick stands for, or none.
LEMMA ColorRgbSends ==
    ASSUME NEW rgb, NEW scheme \in Schemes, NEW segments, NEW span, NEW pieces, NEW whiteType \in WhiteTypes
    PROVE  LET f == ColorRgbFrames(rgb, scheme, segments, span, pieces, whiteType)
           IN  f = Refused \/ Paints(f, {0, RgbAsKelvin(rgb, scheme, span)})
<1> DEFINE f == ColorRgbFrames(rgb, scheme, segments, span, pieces, whiteType)
           kelvin == RgbAsKelvin(rgb, scheme, span)
<1>1. CASE kelvin = 0
  <2>1. f = ColorRgb(rgb, scheme, segments, pieces)
    BY <1>1 DEF ColorRgbFrames
  <2> QED
    BY <2>1, <1>1, ColorRgbShows DEF Paints
<1>2. CASE kelvin # 0
  <2>1. /\ f = RgbPickColorTemp(rgb, kelvin, scheme, segments, AllSegmentsMask(segments), pieces, whiteType)
        /\ kelvin \in Nat \ {0} /\ kelvin = KelvinForTint(rgb) /\ scheme \in PickAsKelvinSchemes
    BY <1>2, PickedKelvin DEF ColorRgbFrames
  <2> HIDE DEF f, kelvin
  <2>2. CASE scheme = "h60a6"
    <3>1. f = SegmentColorTemp(AllSegmentsMask(segments), kelvin, scheme, segments, rgb, whiteType)
      BY <2>1, <2>2 DEF RgbPickColorTemp
    <3> QED
      BY <2>1, <3>1, SegmentKelvinFrame DEF f, kelvin
  <2>3. CASE scheme \in {"h6006", "h6188"}
    <3>1. f = Cct0d(rgb, kelvin, TintForKelvin(kelvin))
      BY <2>1, <2>3 DEF RgbPickColorTemp
    <3>2. Paints(f, {kelvin})
      BY <2>1, <3>1, Cct0dLook
    <3> QED
      BY <3>2 DEF Paints, f, kelvin
  <2>4. CASE scheme = "h6061"
    <3>1. f = H6061Colour(rgb, kelvin, segments, pieces, TRUE)
      BY <2>1, <2>4 DEF RgbPickColorTemp, H6061ColorTemp
    <3>2. f = Refused \/ Paints(f, {kelvin})
      BY <2>1, <3>1, PanelFrame
    <3> QED
      BY <3>2 DEF Paints, f, kelvin
  <2>5. CASE scheme = "legacy_02"
    <3>1. f = Color02(White, rgb) /\ rgb # NoColour
      BY <2>1, <2>5, TintFacts DEF RgbPickColorTemp
    <3>2. Paints(f, {kelvin})
      BY <2>1, <3>1, Color02Look
    <3> QED
      BY <3>2 DEF Paints, f, kelvin
  <2> QED
    BY <2>1, <2>2, <2>3, <2>4, <2>5 DEF PickAsKelvinSchemes
<1> QED
  BY <1>1, <1>2

\* set_color_temp's frame sends the Kelvin asked for, or none.
LEMMA ColorTempSends ==
    ASSUME NEW kelvin \in Nat, NEW scheme \in Schemes, NEW segments, NEW pieces, NEW whiteType \in WhiteTypes
    PROVE  LET f == ColorTemp(kelvin, scheme, segments, pieces, whiteType)
           IN  f = Refused \/ Paints(f, {0, kelvin})
<1> DEFINE f == ColorTemp(kelvin, scheme, segments, pieces, whiteType)
<1>1. CASE scheme = "h60a6"
  <2>1. f = SegmentColorTemp(AllSegmentsMask(segments), kelvin, scheme, segments, TintForKelvin(kelvin), whiteType)
    BY <1>1 DEF ColorTemp
  <2> QED
    BY <2>1, SegmentKelvinFrame
<1>2. CASE scheme \in {"h6006", "h6188"}
  <2>1. \E rgb : f = Cct0d(rgb, kelvin, TintForKelvin(kelvin))
    BY <1>2 DEF ColorTemp
  <2>2. Paints(f, {kelvin})
    BY <2>1, Cct0dLook
  <2> QED
    BY <2>2 DEF Paints
<1>3. CASE scheme = "legacy_02"
  <2>1. f = Color02(White, TintForKelvin(kelvin))
    BY <1>3 DEF ColorTemp
  <2>2. Paints(f, IF TintForKelvin(kelvin) = NoColour THEN {0} ELSE {KelvinForTint(TintForKelvin(kelvin))})
    BY <2>1, Color02Look
  <2> QED
    BY <2>2, TintFacts DEF Paints
<1>4. CASE scheme = "h6061"
  <2>1. f = H6061Colour(TintForKelvin(kelvin), kelvin, segments, pieces, TRUE)
    BY <1>4 DEF ColorTemp, H6061ColorTemp
  <2>2. f = Refused \/ Paints(f, {kelvin})
    BY <2>1, PanelFrame
  <2> QED
    BY <2>2 DEF Paints
<1>5. CASE scheme = "kelvin_v9"
  <2>1. f = KelvinV9(kelvin)
    BY <1>5 DEF ColorTemp
  <2>2. Paints(f, {kelvin})
    BY <2>1, KelvinV9Look
  <2> QED
    BY <2>2 DEF Paints
<1>6. CASE scheme = "h61a8"
  BY <1>6 DEF ColorTemp
<1> QED
  BY <1>1, <1>2, <1>3, <1>4, <1>5, <1>6 DEF Schemes

\* A segment pick shows the colour picked, on what the mask reaches of the picked segments.
LEMMA SegmentRgbShows ==
    ASSUME NEW mask, NEW rgb, NEW scheme \in Schemes, NEW segments, NEW span, NEW whiteType \in WhiteTypes
    PROVE  LET f == SegmentRgb(mask, rgb, scheme, segments, span, whiteType)
           IN  \/ f = Refused
               \/ /\ Paints(f, {0, RgbAsKelvin(rgb, scheme, span)}) /\ Look(f).shown = rgb
                  /\ f.mask = IF scheme = "h60a6" THEN MaskBits(mask, segments, ColourMaskCap) ELSE mask
<1> DEFINE f == SegmentRgb(mask, rgb, scheme, segments, span, whiteType)
           kelvin == RgbAsKelvin(rgb, scheme, span)
<1>1. CASE scheme = "h60a6" /\ kelvin = 0
  <2>1. f = Op15Colour(rgb, 0, Black, mask, segments)
    BY <1>1 DEF SegmentRgb
  <2> HIDE DEF f, kelvin
  <2>2. Paints(f, {0}) /\ f.mask = MaskBits(mask, segments, ColourMaskCap) /\ Look(f).shown = rgb
    BY <2>1, Op15Look
  <2> QED
    BY <1>1, <2>2 DEF Paints, f, kelvin
<1>2. CASE scheme = "h60a6" /\ kelvin # 0
  <2>1. f = SegmentColorTemp(mask, kelvin, scheme, segments, rgb, whiteType) /\ kelvin \in Nat
    BY <1>2, PickedKelvin DEF SegmentRgb
  <2> HIDE DEF f, kelvin
  <2>2. \/ f = Refused
        \/ (Paints(f, {0, kelvin}) /\ f.mask = MaskBits(mask, segments, ColourMaskCap) /\ Look(f).shown = rgb)
    BY <1>2, <2>1, SegmentKelvinFrame
  <2> QED
    BY <1>2, <2>2 DEF f, kelvin
<1>3. CASE scheme = "h61a8"
  <2>1. f = Rgbic0b(rgb, mask)
    BY <1>3 DEF SegmentRgb
  <2> HIDE DEF f, kelvin
  <2>2. f = Refused \/ (Paints(f, {0}) /\ f.mask = mask /\ Look(f).shown = rgb)
    BY <2>1, Rgbic0bLook
  <2> QED
    BY <1>3, <2>2 DEF Paints, f, kelvin
<1>4. CASE scheme \notin {"h60a6", "h61a8"}
  BY <1>4 DEF SegmentRgb
<1> QED
  BY <1>1, <1>2, <1>3, <1>4

LEMMA SegmentBrightnessFrame ==
    ASSUME NEW mask, NEW pct \in 1 .. 100, NEW scheme, NEW segments
    PROVE  LET f == SegmentBrightness(mask, pct, scheme, segments)
           IN  \/ f = Refused
               \/ /\ scheme = "h60a6" /\ f.cmd = "pieceLevel" /\ f.level = pct
                  /\ f.mask = MaskBits(mask, segments, BrightnessMaskCap)
<1>1. Max({1, pct}) = pct
  BY DEF Max
<1> QED
  BY <1>1 DEF SegmentBrightness

\* What a mask carries of pieces below the segment count is what it reaches.
LEMMA ReachCarried ==
    ASSUME NEW mask, mask \subseteq Nat, NEW segments \in Nat, NEW cap \in {ColourMaskCap, BrightnessMaskCap},
           \A i \in mask : i < segments
    PROVE  {i \in mask : i < MaskPositions(segments, cap)} = MaskBits(mask, segments, cap)
<1> DEFINE wide == IF segments <= LegacyMaskSegments THEN 2 ELSE CeilDiv(segments, 8)
           width == MaskWidth(segments, cap)
<1>1. wide \in Int /\ cap \in Int
  BY DEF CeilDiv, LegacyMaskSegments, ColourMaskCap, BrightnessMaskCap
<1>2. width = Min({cap, wide})
  BY DEF MaskWidth
<1> HIDE DEF wide, width
<1>3. width \in Int
  BY <1>1, <1>2 DEF Min
<1>4. MaskPositions(segments, cap) = Min({segments, 8 * width})
  BY DEF MaskPositions, width
<1> DEFINE bits == 8 * width
<1>5. MaskPositions(segments, cap) = IF segments <= bits THEN segments ELSE bits
  <2>1. bits \in Int /\ MaskPositions(segments, cap) = Min({segments, bits})
    BY <1>3, <1>4
  <2> HIDE DEF bits
  <2> QED
    BY <2>1 DEF Min
<1>6. MaskBits(mask, segments, cap) = {i \in mask : i < bits}
  BY DEF MaskBits, width
<1>7. bits \in Int
  BY <1>3
<1> HIDE DEF bits
<1>8. \A i \in mask : i < MaskPositions(segments, cap) <=> i < bits
  <2> TAKE i \in mask
  <2> QED
    BY <1>5, <1>7
<1> QED
  BY <1>6, <1>8

LEMMA BrightnessFrameIs ==
    ASSUME NEW pct
    PROVE  BrightnessFrame(pct) = Refused \/ BrightnessFrame(pct).cmd = "brightness"
BY DEF BrightnessFrame, Brightness

-----------------------------------------------------------------------------
(* The light.                                                              *)

LightOk(l) ==
    /\ l = [level |-> l.level, look |-> l.look, piece |-> l.piece, scene |-> l.scene]
    /\ l.look = [i \in Positions |-> l.look[i]] /\ l.piece = [i \in Positions |-> l.piece[i]]
    /\ \A i \in Positions : l.look[i].kelvin \in Nat
IsFrame(f) == (f.cmd = "colour" /\ Look(f).kelvin \in Nat) \/ f.cmd \in {"pieceLevel", "brightness", "scene"}

LEMMA DoesColour ==
    ASSUME NEW l, LightOk(l), NEW f, Paints(f, Nat)
    PROVE  /\ LightOk(Does(l, f)) /\ Does(l, f).piece = l.piece
           /\ \A i \in Positions : Does(l, f).look[i] = IF i \in f.mask \cap Pieces THEN Look(f) ELSE l.look[i]
<1> DEFINE look == [i \in Positions |-> IF i \in f.mask \cap Pieces THEN Look(f) ELSE l.look[i]]
           d == Does(l, f)
<1>1. l = [level |-> l.level, look |-> l.look, piece |-> l.piece, scene |-> l.scene]
  BY DEF LightOk
<1>2. d = [l EXCEPT !.scene = 0, !.look = look]
  BY DEF Does, Paints
<1>3. \A i \in Positions : look[i] = IF i \in f.mask \cap Pieces THEN Look(f) ELSE l.look[i]
  OBVIOUS
<1>4. look = [i \in Positions |-> look[i]]
  OBVIOUS
<1> HIDE DEF look, d
<1>5. d = [level |-> l.level, look |-> look, piece |-> l.piece, scene |-> 0]
  BY <1>1, <1>2
<1>6. d.look = look /\ d.piece = l.piece /\ d.level = l.level /\ d.scene = 0
  BY <1>5
<1>7. \A i \in Positions : look[i].kelvin \in Nat
  BY <1>3 DEF LightOk, Paints
<1>8. LightOk(d)
  BY <1>4, <1>5, <1>6, <1>7 DEF LightOk
<1> QED
  BY <1>3, <1>6, <1>8 DEF d

LEMMA DoesPieceLevel ==
    ASSUME NEW l, LightOk(l), NEW f, f.cmd = "pieceLevel"
    PROVE  /\ LightOk(Does(l, f)) /\ Does(l, f).look = l.look
           /\ \A i \in Positions : Does(l, f).piece[i] = IF i \in f.mask \cap Pieces THEN f.level ELSE l.piece[i]
<1> DEFINE piece == [i \in Positions |-> IF i \in f.mask \cap Pieces THEN f.level ELSE l.piece[i]]
           d == Does(l, f)
<1>1. l = [level |-> l.level, look |-> l.look, piece |-> l.piece, scene |-> l.scene]
  BY DEF LightOk
<1>2. d = [l EXCEPT !.scene = 0, !.piece = piece]
  BY DEF Does
<1>3. \A i \in Positions : piece[i] = IF i \in f.mask \cap Pieces THEN f.level ELSE l.piece[i]
  OBVIOUS
<1>4. piece = [i \in Positions |-> piece[i]]
  OBVIOUS
<1> HIDE DEF piece, d
<1>5. d = [level |-> l.level, look |-> l.look, piece |-> piece, scene |-> 0]
  BY <1>1, <1>2
<1>6. d.look = l.look /\ d.piece = piece /\ d.level = l.level /\ d.scene = 0
  BY <1>5
<1>7. LightOk(d)
  BY <1>4, <1>5, <1>6 DEF LightOk
<1> QED
  BY <1>3, <1>6, <1>7 DEF d

LEMMA DoesOther ==
    ASSUME NEW l, LightOk(l), NEW f, f.cmd \in {"brightness", "scene"}
    PROVE  LightOk(Does(l, f)) /\ Does(l, f).look = l.look /\ Does(l, f).piece = l.piece
<1>1. l = [level |-> l.level, look |-> l.look, piece |-> l.piece, scene |-> l.scene]
  BY DEF LightOk
<1>2. CASE f.cmd = "brightness"
  <2>1. Does(l, f) = [l EXCEPT !.level = f.level]
    BY <1>2 DEF Does
  <2>2. Does(l, f) = [level |-> f.level, look |-> l.look, piece |-> l.piece, scene |-> l.scene]
    BY <1>1, <2>1
  <2> QED
    BY <2>2 DEF LightOk
<1>3. CASE f.cmd = "scene"
  <2>1. Does(l, f) = [l EXCEPT !.scene = f.code]
    BY <1>3 DEF Does
  <2>2. Does(l, f) = [level |-> l.level, look |-> l.look, piece |-> l.piece, scene |-> f.code]
    BY <1>1, <2>1
  <2> QED
    BY <2>2 DEF LightOk
<1> QED
  BY <1>2, <1>3

LEMMA DoesKeeps ==
    ASSUME NEW l, LightOk(l), NEW f, IsFrame(f)
    PROVE  LightOk(Does(l, f))
BY DoesColour, DoesPieceLevel, DoesOther DEF IsFrame, Paints

\* A write's frames, all or the first of two, leave a light.
LEMMA WrittenKeeps ==
    ASSUME NEW l, LightOk(l), NEW a, IsFrame(a), NEW b, IsFrame(b), NEW frames \in {<<a>>, <<a, b>>}
    PROVE  /\ LightOk(DoesAll(l, frames))
           /\ \A n \in DOMAIN frames : LightOk(DoesAll(l, SubSeq(frames, 1, n)))
<1>1. LightOk(Does(l, a)) /\ LightOk(Does(Does(l, a), b))
  BY DoesKeeps
<1>2. DoesAll(l, <<a>>) = Does(l, a) /\ DoesAll(l, <<a, b>>) = Does(Does(l, a), b)
  BY DEF DoesAll
<1>3. /\ SubSeq(<<a>>, 1, 1) = <<a>> /\ SubSeq(<<a, b>>, 1, 1) = <<a>> /\ SubSeq(<<a, b>>, 1, 2) = <<a, b>>
      /\ DOMAIN <<a>> = {1} /\ DOMAIN <<a, b>> = {1, 2}
  <2> DEFINE S == {a, b}
  <2>1. \A q \in Seq(S) : \A n \in 1 .. Len(q) :
           /\ SubSeq(q, 1, n) \in Seq(S) /\ Len(SubSeq(q, 1, n)) = n
           /\ \A i \in 1 .. n : SubSeq(q, 1, n)[i] = q[i]
    OBVIOUS
  <2>2. <<a>> \in Seq(S) /\ Len(<<a>>) = 1 /\ <<a, b>> \in Seq(S) /\ Len(<<a, b>>) = 2
    OBVIOUS
  <2>3. <<a>>[1] = a /\ <<a, b>>[1] = a /\ <<a, b>>[2] = b
    OBVIOUS
  <2>4. DOMAIN <<a>> = {1} /\ DOMAIN <<a, b>> = {1, 2}
    OBVIOUS
  <2>5. \A s, t \in Seq(S) : (Len(s) = Len(t) /\ \A i \in 1 .. Len(s) : s[i] = t[i]) => s = t
    BY SeqEqual
  <2>6. SubSeq(<<a>>, 1, 1) = <<a>>
    <3>1. /\ SubSeq(<<a>>, 1, 1) \in Seq(S) /\ Len(SubSeq(<<a>>, 1, 1)) = 1
          /\ \A i \in 1 .. 1 : SubSeq(<<a>>, 1, 1)[i] = <<a>>[i]
      BY <2>1, <2>2
    <3> QED
      BY <2>2, <2>5, <3>1
  <2>7. SubSeq(<<a, b>>, 1, 1) = <<a>>
    <3>1. /\ SubSeq(<<a, b>>, 1, 1) \in Seq(S) /\ Len(SubSeq(<<a, b>>, 1, 1)) = 1
          /\ \A i \in 1 .. 1 : SubSeq(<<a, b>>, 1, 1)[i] = <<a>>[i]
      BY <2>1, <2>2, <2>3
    <3> QED
      BY <2>2, <2>5, <3>1
  <2>8. SubSeq(<<a, b>>, 1, 2) = <<a, b>>
    <3>1. /\ SubSeq(<<a, b>>, 1, 2) \in Seq(S) /\ Len(SubSeq(<<a, b>>, 1, 2)) = 2
          /\ \A i \in 1 .. 2 : SubSeq(<<a, b>>, 1, 2)[i] = <<a, b>>[i]
      BY <2>1, <2>2
    <3> QED
      BY <2>2, <2>5, <3>1
  <2> QED
    BY <2>4, <2>6, <2>7, <2>8
<1> QED
  BY <1>1, <1>2, <1>3

LEMMA KelvinOfFrames ==
    ASSUME NEW frames, NEW kelvins, 0 \in kelvins,
           \A i \in DOMAIN frames : frames[i].cmd = "colour" => Look(frames[i]).kelvin \in kelvins
    PROVE  KelvinOf(frames) \in kelvins
<1> DEFINE colours == {i \in DOMAIN frames : frames[i].cmd = "colour"}
<1>1. colours # {} => (CHOOSE i \in colours : TRUE) \in colours
  OBVIOUS
<1> QED
  BY <1>1 DEF KelvinOf

-----------------------------------------------------------------------------
(* The folds.                                                              *)

Fields(s) ==
    s = [level |-> s.level, rgb |-> s.rgb, kelvin |-> s.kelvin, last |-> s.last, scene |-> s.scene,
         zone |-> s.zone, segments |-> s.segments]
SegmentsOk(segments) ==
    segments = [i \in Positions |-> [rgb |-> segments[i].rgb, level |-> segments[i].level]]
StateOk(s) == Fields(s) /\ s.kelvin \in Nat /\ s.zone \in [Zones -> Nat] /\ SegmentsOk(s.segments)

\* ColourConsistent of a state, but for the Kelvin remembered.
Exclusive(s) ==
    /\ s.rgb # NoColour => s.kelvin = 0
    /\ s.scene # 0 => s.rgb = NoColour /\ s.kelvin = 0
    /\ profile.bar => s.kelvin = IF s.zone[0] = s.zone[1] THEN s.zone[0] ELSE 0
Remembered(s) == s.kelvin # 0 => s.last = s.kelvin
Consistent(s) == StateOk(s) /\ Exclusive(s) /\ Remembered(s)

LEMMA RememberFields ==
    ASSUME NEW s, StateOk(s)
    PROVE  LET r == RememberKelvin(s)
           IN  /\ StateOk(r) /\ r.level = s.level /\ r.rgb = s.rgb /\ r.kelvin = s.kelvin /\ r.scene = s.scene
               /\ r.zone = s.zone /\ r.segments = s.segments
               /\ r.last = IF s.kelvin # 0 THEN s.kelvin ELSE s.last
<1>1. CASE s.kelvin > 0
  <2> DEFINE r == [s EXCEPT !.last = s.kelvin]
  <2>1. r = [level |-> s.level, rgb |-> s.rgb, kelvin |-> s.kelvin, last |-> s.kelvin, scene |-> s.scene,
             zone |-> s.zone, segments |-> s.segments]
    BY DEF StateOk, Fields
  <2>2. RememberKelvin(s) = r /\ s.kelvin # 0
    BY <1>1 DEF RememberKelvin, StateOk
  <2> HIDE DEF r
  <2>3. /\ Fields(r) /\ r.level = s.level /\ r.rgb = s.rgb /\ r.kelvin = s.kelvin /\ r.scene = s.scene
        /\ r.zone = s.zone /\ r.segments = s.segments /\ r.last = s.kelvin
    BY <2>1 DEF Fields
  <2> QED
    BY <2>2, <2>3 DEF StateOk
<1>2. CASE ~(s.kelvin > 0)
  BY <1>2 DEF RememberKelvin, StateOk
<1> QED
  BY <1>1, <1>2

LEMMA RememberConsistent ==
    ASSUME NEW s, StateOk(s), Exclusive(s)
    PROVE  Consistent(RememberKelvin(s))
BY RememberFields DEF Consistent, Exclusive, Remembered

\* apply_zone_kelvin: nothing on a device without bars; the bars' Kelvins, and the whole device's.
LEMMA NoBars ==
    ASSUME NEW s, ~profile.bar, NEW k
    PROVE  ApplyZoneKelvin(s, k) = s
BY DEF ApplyZoneKelvin

LEMMA BarFields ==
    ASSUME NEW s, StateOk(s), profile.bar, NEW k, \A z \in DOMAIN k : k[z] \in Int,
           NEW r, r = ApplyZoneKelvin(s, k)
    PROVE  \E zone \in [Zones -> Nat] : \E whole \in Nat :
              /\ \A z \in Zones : zone[z] = IF z \in DOMAIN k THEN Max({k[z], 0}) ELSE s.zone[z]
              /\ whole = IF zone[0] = zone[1] THEN zone[0] ELSE 0
              /\ StateOk(r) /\ r.level = s.level /\ r.scene = s.scene /\ r.segments = s.segments
              /\ r.zone = zone /\ r.kelvin = whole /\ r.rgb = IF whole # 0 THEN NoColour ELSE s.rgb
              /\ Remembered(r)
<1> DEFINE zone == [z \in Zones |-> IF z \in DOMAIN k THEN Max({k[z], 0}) ELSE s.zone[z]]
           whole == IF zone[0] = zone[1] THEN zone[0] ELSE 0
           rgb == IF whole # 0 THEN NoColour ELSE s.rgb
           t == [s EXCEPT !.zone = zone, !.kelvin = whole, !.rgb = rgb]
<1>1. r = RememberKelvin(t)
  BY DEF ApplyZoneKelvin
<1>2. \A x \in Int : Max({x, 0}) \in Nat
  BY DEF Max
<1>3. zone \in [Zones -> Nat]
  BY <1>2 DEF StateOk
<1>4. whole \in Nat
  <2> HIDE DEF zone
  <2> QED
    BY <1>3 DEF Zones
<1>5. \A z \in Zones : zone[z] = IF z \in DOMAIN k THEN Max({k[z], 0}) ELSE s.zone[z]
  OBVIOUS
<1>6. whole = (IF zone[0] = zone[1] THEN zone[0] ELSE 0) /\ rgb = IF whole # 0 THEN NoColour ELSE s.rgb
  OBVIOUS
<1> HIDE DEF zone, whole, rgb
<1>7. t = [s EXCEPT !.zone = zone, !.kelvin = whole, !.rgb = rgb] /\ Fields(s)
  BY DEF StateOk
<1> HIDE DEF t
<1>8. /\ Fields(t) /\ t.level = s.level /\ t.rgb = rgb /\ t.kelvin = whole /\ t.scene = s.scene
      /\ t.zone = zone /\ t.segments = s.segments
  <2>1. t = [level |-> s.level, rgb |-> rgb, kelvin |-> whole, last |-> s.last, scene |-> s.scene,
             zone |-> zone, segments |-> s.segments]
    BY <1>7 DEF Fields
  <2> QED
    BY <2>1 DEF Fields
<1>9. StateOk(t)
  BY <1>3, <1>4, <1>8 DEF StateOk
<1>10. /\ StateOk(r) /\ r.level = s.level /\ r.rgb = rgb /\ r.kelvin = whole /\ r.scene = s.scene
       /\ r.zone = zone /\ r.segments = s.segments /\ Remembered(r)
  BY <1>1, <1>8, <1>9, RememberFields DEF Remembered
<1> QED
  BY <1>3, <1>4, <1>5, <1>6, <1>10

\* A fold keeps the state consistent and its segments as they are.
Folds(r, s) == Consistent(r) /\ r.segments = s.segments

LEMMA ZoneFolds ==
    ASSUME NEW s, Consistent(s), s.scene = 0, NEW k, \A z \in DOMAIN k : k[z] \in Int
    PROVE  Folds(ApplyZoneKelvin(s, k), s)
<1>1. CASE ~profile.bar
  BY <1>1, NoBars DEF Folds
<1>2. CASE profile.bar
  <2> DEFINE r == ApplyZoneKelvin(s, k)
  <2>1. PICK zone \in [Zones -> Nat], whole \in Nat :
           /\ whole = IF zone[0] = zone[1] THEN zone[0] ELSE 0
           /\ StateOk(r) /\ r.scene = 0 /\ r.segments = s.segments
           /\ r.zone = zone /\ r.kelvin = whole /\ r.rgb = IF whole # 0 THEN NoColour ELSE s.rgb
           /\ Remembered(r)
    BY <1>2, BarFields DEF Consistent
  <2> HIDE DEF r
  <2>2. Exclusive(r)
    BY <2>1 DEF Exclusive
  <2> QED
    BY <2>1, <2>2 DEF Folds, Consistent, r
<1> QED
  BY <1>1, <1>2

\* The bars take the Kelvin the whole device is given.
LEMMA BarsFollow ==
    ASSUME NEW s, StateOk(s), s.rgb # NoColour => s.kelvin = 0, s.scene # 0 => s.rgb = NoColour /\ s.kelvin = 0,
           NEW k, DOMAIN k = Zones, \A z \in Zones : k[z] = s.kelvin
    PROVE  /\ Folds(RememberKelvin(ApplyZoneKelvin(s, k)), s)
           /\ s.kelvin = 0 => Folds(ApplyZoneKelvin(s, k), s)
<1> DEFINE r == ApplyZoneKelvin(s, k)
<1>1. s.kelvin \in Nat
  BY DEF StateOk
<1>2. Max({s.kelvin, 0}) = s.kelvin /\ \A z \in DOMAIN k : k[z] \in Int
  BY <1>1 DEF Max
<1>3. StateOk(r) /\ Exclusive(r) /\ r.segments = s.segments /\ (s.kelvin = 0 => Remembered(r))
  <2>1. CASE ~profile.bar
    <3>1. r = s
      BY <2>1, NoBars
    <3> QED
      BY <2>1, <3>1 DEF Exclusive, Remembered
  <2>2. CASE profile.bar
    <3>1. PICK zone \in [Zones -> Nat], whole \in Nat :
             /\ \A z \in Zones : zone[z] = IF z \in DOMAIN k THEN Max({k[z], 0}) ELSE s.zone[z]
             /\ whole = IF zone[0] = zone[1] THEN zone[0] ELSE 0
             /\ StateOk(r) /\ r.level = s.level /\ r.scene = s.scene /\ r.segments = s.segments
             /\ r.zone = zone /\ r.kelvin = whole /\ r.rgb = IF whole # 0 THEN NoColour ELSE s.rgb
             /\ Remembered(r)
      BY <1>2, <2>2, BarFields
    <3>2. zone[0] = s.kelvin /\ zone[1] = s.kelvin
      BY <1>2, <3>1 DEF Zones
    <3> HIDE DEF r
    <3>3. Exclusive(r)
      BY <3>1, <3>2 DEF Exclusive
    <3> QED
      BY <3>1, <3>3
  <2> QED
    BY <2>1, <2>2
<1> HIDE DEF r
<1>4. Consistent(RememberKelvin(r)) /\ RememberKelvin(r).segments = s.segments
  BY <1>3, RememberConsistent, RememberFields
<1> QED
  BY <1>3, <1>4 DEF Folds, Consistent, r

\* A whole-device write's fields.
Whole(s, rgb, kelvin, scene) == [s EXCEPT !.rgb = rgb, !.kelvin = kelvin, !.scene = scene]

LEMMA WholeSet ==
    ASSUME NEW s, StateOk(s), NEW rgb, NEW kelvin \in Nat, NEW scene
    PROVE  /\ StateOk(Whole(s, rgb, kelvin, scene)) /\ Whole(s, rgb, kelvin, scene).rgb = rgb
           /\ Whole(s, rgb, kelvin, scene).kelvin = kelvin /\ Whole(s, rgb, kelvin, scene).scene = scene
           /\ Whole(s, rgb, kelvin, scene).last = s.last /\ Whole(s, rgb, kelvin, scene).zone = s.zone
           /\ Whole(s, rgb, kelvin, scene).segments = s.segments /\ Whole(s, rgb, kelvin, scene).level = s.level
<1> DEFINE r == Whole(s, rgb, kelvin, scene)
<1>1. r = [level |-> s.level, rgb |-> rgb, kelvin |-> kelvin, last |-> s.last, scene |-> scene,
           zone |-> s.zone, segments |-> s.segments]
  <2>1. r = [s EXCEPT !.rgb = rgb, !.kelvin = kelvin, !.scene = scene] /\ Fields(s)
    BY DEF StateOk, Whole
  <2> HIDE DEF r
  <2> QED
    BY <2>1 DEF Fields
<1> HIDE DEF r
<1>2. /\ Fields(r) /\ r.rgb = rgb /\ r.kelvin = kelvin /\ r.scene = scene /\ r.last = s.last
      /\ r.segments = s.segments /\ r.zone = s.zone /\ r.level = s.level
  BY <1>1 DEF Fields
<1> QED
  BY <1>2 DEF StateOk, r

\* What leaves the colour as it is.
LEMMA SceneLeft ==
    ASSUME NEW s, Consistent(s)
    PROVE  LeavesScene(s).scene = 0 /\ Folds(LeavesScene(s), s)
<1> DEFINE r == LeavesScene(s)
<1>1. r = [level |-> s.level, rgb |-> s.rgb, kelvin |-> s.kelvin, last |-> s.last, scene |-> 0,
           zone |-> s.zone, segments |-> s.segments]
  <2>1. r = [s EXCEPT !.scene = 0] /\ Fields(s)
    BY DEF Consistent, StateOk, LeavesScene
  <2> HIDE DEF r
  <2> QED
    BY <2>1 DEF Fields
<1> HIDE DEF r
<1>2. /\ Fields(r) /\ r.rgb = s.rgb /\ r.kelvin = s.kelvin /\ r.scene = 0 /\ r.last = s.last
      /\ r.segments = s.segments /\ r.zone = s.zone
  BY <1>1 DEF Fields
<1>3. StateOk(r) /\ Exclusive(r) /\ Remembered(r)
  BY <1>2 DEF Consistent, StateOk, Exclusive, Remembered
<1> QED
  BY <1>2, <1>3 DEF Consistent, Folds, r

LEMMA LevelFolds ==
    ASSUME NEW s, Consistent(s), NEW level
    PROVE  Folds([s EXCEPT !.level = level], s)
<1> DEFINE r == [s EXCEPT !.level = level]
<1>1. r = [level |-> level, rgb |-> s.rgb, kelvin |-> s.kelvin, last |-> s.last, scene |-> s.scene,
           zone |-> s.zone, segments |-> s.segments]
  <2>1. r = [s EXCEPT !.level = level] /\ Fields(s)
    BY DEF Consistent, StateOk
  <2> HIDE DEF r
  <2> QED
    BY <2>1 DEF Fields
<1> HIDE DEF r
<1>2. /\ Fields(r) /\ r.rgb = s.rgb /\ r.kelvin = s.kelvin /\ r.scene = s.scene /\ r.last = s.last
      /\ r.segments = s.segments /\ r.zone = s.zone
  BY <1>1 DEF Fields
<1>3. StateOk(r) /\ Exclusive(r) /\ Remembered(r)
  BY <1>2 DEF Consistent, StateOk, Exclusive, Remembered
<1> QED
  BY <1>2, <1>3 DEF Consistent, Folds, r

Segmented(s, segments) == [s EXCEPT !.segments = segments]

LEMMA SegmentsSet ==
    ASSUME NEW s, Consistent(s), NEW segments, SegmentsOk(segments)
    PROVE  /\ Consistent(Segmented(s, segments)) /\ Segmented(s, segments).segments = segments
           /\ Segmented(s, segments).scene = s.scene
<1> DEFINE r == Segmented(s, segments)
<1>1. r = [level |-> s.level, rgb |-> s.rgb, kelvin |-> s.kelvin, last |-> s.last, scene |-> s.scene,
           zone |-> s.zone, segments |-> segments]
  <2>1. r = [s EXCEPT !.segments = segments] /\ Fields(s)
    BY DEF Consistent, StateOk, Segmented
  <2> HIDE DEF r
  <2> QED
    BY <2>1 DEF Fields
<1> HIDE DEF r
<1>2. /\ Fields(r) /\ r.rgb = s.rgb /\ r.kelvin = s.kelvin /\ r.scene = s.scene /\ r.last = s.last
      /\ r.segments = segments /\ r.zone = s.zone
  BY <1>1 DEF Fields
<1>3. StateOk(r) /\ Exclusive(r) /\ Remembered(r)
  BY <1>2 DEF Consistent, StateOk, Exclusive, Remembered
<1> QED
  BY <1>2, <1>3 DEF Consistent, r

LEMMA ApplyRgbFolds ==
    ASSUME NEW s, StateOk(s), NEW rgb, NEW span
    PROVE  Folds(ApplyRgb(s, rgb, span), s)
<1> DEFINE kelvin == IF profile.colorTemp THEN RgbAsKelvin(rgb, profile.scheme, span) ELSE 0
           colour == IF kelvin = 0 THEN rgb ELSE NoColour
           held == Whole(s, colour, kelvin, 0)
           k == [z \in Zones |-> kelvin]
<1>1. ApplyRgb(s, rgb, span) = RememberKelvin(ApplyZoneKelvin(held, k))
  BY DEF ApplyRgb, Whole
<1>2. kelvin \in Nat
  BY PickedKelvin
<1>3. colour # NoColour => kelvin = 0
  OBVIOUS
<1> HIDE DEF kelvin, colour
<1>4. DOMAIN k = Zones /\ \A z \in Zones : k[z] = kelvin
  OBVIOUS
<1>5. StateOk(held) /\ held.rgb = colour /\ held.kelvin = kelvin /\ held.scene = 0 /\ held.segments = s.segments
  BY <1>2, WholeSet
<1> HIDE DEF held, k
<1>6. Folds(RememberKelvin(ApplyZoneKelvin(held, k)), held)
  BY <1>3, <1>4, <1>5, BarsFollow
<1> QED
  BY <1>1, <1>5, <1>6 DEF Folds

LEMMA ApplyKelvinFolds ==
    ASSUME NEW s, StateOk(s), NEW kelvin \in Nat
    PROVE  Folds(ApplyKelvin(s, kelvin), s)
<1> DEFINE held == Whole(s, NoColour, kelvin, 0)
           k == [z \in Zones |-> kelvin]
<1>1. [s EXCEPT !.kelvin = kelvin, !.rgb = NoColour, !.scene = 0] = held
  <2>1. Fields(s)
    BY DEF StateOk
  <2> QED
    BY <2>1 DEF Fields, Whole
<1>2. ApplyKelvin(s, kelvin) = RememberKelvin(ApplyZoneKelvin(held, k))
  BY <1>1 DEF ApplyKelvin
<1>4. DOMAIN k = Zones /\ \A z \in Zones : k[z] = kelvin
  OBVIOUS
<1>5. StateOk(held) /\ held.rgb = NoColour /\ held.kelvin = kelvin /\ held.scene = 0 /\ held.segments = s.segments
  BY WholeSet
<1> HIDE DEF held, k
<1>6. Folds(RememberKelvin(ApplyZoneKelvin(held, k)), held)
  BY <1>4, <1>5, BarsFollow
<1> QED
  BY <1>2, <1>5, <1>6 DEF Folds

LEMMA ApplySceneFolds ==
    ASSUME NEW s, StateOk(s), NEW code
    PROVE  Folds(ApplyScene(s, code), s)
<1> DEFINE held == Whole(s, NoColour, 0, code)
<1>1. [s EXCEPT !.scene = code, !.rgb = NoColour, !.kelvin = 0] = held
  <2>1. Fields(s)
    BY DEF StateOk
  <2> QED
    BY <2>1 DEF Fields, Whole
<1>2. ApplyScene(s, code) = ApplyZoneKelvin(held, NoZone)
  BY <1>1 DEF ApplyScene
<1>3. DOMAIN NoZone = Zones /\ \A z \in Zones : NoZone[z] = 0
  BY DEF NoZone
<1>4. StateOk(held) /\ held.rgb = NoColour /\ held.kelvin = 0 /\ held.scene = code /\ held.segments = s.segments
  BY WholeSet
<1> HIDE DEF held
<1>5. Folds(ApplyZoneKelvin(held, NoZone), held)
  BY <1>3, <1>4, BarsFollow
<1> QED
  BY <1>2, <1>4, <1>5 DEF Folds

\* update_segments: the colour, or the brightness, of the segments picked.
LEMMA SegmentsRgbSet ==
    ASSUME NEW s, Consistent(s), NEW indices, NEW rgb
    PROVE  /\ Consistent(UpdateSegmentsRgb(s, indices, rgb))
           /\ \A i \in Positions :
                 /\ UpdateSegmentsRgb(s, indices, rgb).segments[i].level = s.segments[i].level
                 /\ UpdateSegmentsRgb(s, indices, rgb).segments[i].rgb
                       = IF i \in indices THEN rgb ELSE s.segments[i].rgb
<1> DEFINE segments == [i \in Positions |-> IF i \in indices THEN [s.segments[i] EXCEPT !.rgb = rgb]
                                            ELSE s.segments[i]]
<1>1. UpdateSegmentsRgb(s, indices, rgb) = Segmented(s, segments)
  <2>1. Fields(s)
    BY DEF Consistent, StateOk
  <2> QED
    BY <2>1 DEF UpdateSegmentsRgb, Segmented, Fields
<1>2. \A i \in Positions : \E x, y :
        segments[i] = [rgb |-> x, level |-> y] /\ x = (IF i \in indices THEN rgb ELSE s.segments[i].rgb) /\ y = s.segments[i].level
  <2> TAKE i \in Positions
  <2>1. s.segments[i] = [rgb |-> s.segments[i].rgb, level |-> s.segments[i].level]
    BY DEF Consistent, StateOk, SegmentsOk
  <2> QED
    BY <2>1
<1>3. segments = [i \in Positions |-> segments[i]]
  OBVIOUS
<1> HIDE DEF segments
<1>4. \A i \in Positions : /\ segments[i].rgb = IF i \in indices THEN rgb ELSE s.segments[i].rgb
                           /\ segments[i].level = s.segments[i].level
  <2> TAKE i \in Positions
  <2>1. PICK x, y : segments[i] = [rgb |-> x, level |-> y] /\ x = (IF i \in indices THEN rgb ELSE s.segments[i].rgb) /\ y = s.segments[i].level
    BY <1>2
  <2> QED
    BY <2>1
<1>5. SegmentsOk(segments)
  <2>1. \A i \in Positions : segments[i] = [rgb |-> segments[i].rgb, level |-> segments[i].level]
    <3> TAKE i \in Positions
    <3>1. PICK x, y : segments[i] = [rgb |-> x, level |-> y]
      BY <1>2
    <3> QED
      BY <3>1
  <2> QED
    BY <1>3, <2>1 DEF SegmentsOk
<1> QED
  BY <1>1, <1>4, <1>5, SegmentsSet

LEMMA SegmentsLevelSet ==
    ASSUME NEW s, Consistent(s), NEW indices, NEW level
    PROVE  /\ Consistent(UpdateSegmentsLevel(s, indices, level))
           /\ \A i \in Positions :
                 /\ UpdateSegmentsLevel(s, indices, level).segments[i].rgb = s.segments[i].rgb
                 /\ UpdateSegmentsLevel(s, indices, level).segments[i].level
                       = IF i \in indices THEN level ELSE s.segments[i].level
<1> DEFINE segments == [i \in Positions |-> IF i \in indices THEN [s.segments[i] EXCEPT !.level = level]
                                            ELSE s.segments[i]]
<1>1. UpdateSegmentsLevel(s, indices, level) = Segmented(s, segments)
  <2>1. Fields(s)
    BY DEF Consistent, StateOk
  <2> QED
    BY <2>1 DEF UpdateSegmentsLevel, Segmented, Fields
<1>2. \A i \in Positions : \E x, y :
        segments[i] = [rgb |-> x, level |-> y] /\ x = (s.segments[i].rgb) /\ y = IF i \in indices THEN level ELSE s.segments[i].level
  <2> TAKE i \in Positions
  <2>1. s.segments[i] = [rgb |-> s.segments[i].rgb, level |-> s.segments[i].level]
    BY DEF Consistent, StateOk, SegmentsOk
  <2> QED
    BY <2>1
<1>3. segments = [i \in Positions |-> segments[i]]
  OBVIOUS
<1> HIDE DEF segments
<1>4. \A i \in Positions : /\ segments[i].rgb = s.segments[i].rgb
                           /\ segments[i].level = IF i \in indices THEN level ELSE s.segments[i].level
  <2> TAKE i \in Positions
  <2>1. PICK x, y : segments[i] = [rgb |-> x, level |-> y] /\ x = (s.segments[i].rgb) /\ y = IF i \in indices THEN level ELSE s.segments[i].level
    BY <1>2
  <2> QED
    BY <2>1
<1>5. SegmentsOk(segments)
  <2>1. \A i \in Positions : segments[i] = [rgb |-> segments[i].rgb, level |-> segments[i].level]
    <3> TAKE i \in Positions
    <3>1. PICK x, y : segments[i] = [rgb |-> x, level |-> y]
      BY <1>2
    <3> QED
      BY <3>1
  <2> QED
    BY <1>3, <2>1 DEF SegmentsOk
<1> QED
  BY <1>1, <1>4, <1>5, SegmentsSet

\* merge_segments: what was reported over what was held.
IsSegment(x) == x = [rgb |-> x.rgb, level |-> x.level]

LEMMA SegmentsMerged ==
    ASSUME NEW s, Consistent(s), NEW reported, \A i \in DOMAIN reported : IsSegment(reported[i])
    PROVE  /\ Consistent(MergeSegments(s, reported)) /\ MergeSegments(s, reported).scene = s.scene
           /\ \A i \in Positions : MergeSegments(s, reported).segments[i]
                                      = IF i \in DOMAIN reported THEN reported[i] ELSE s.segments[i]
<1> DEFINE segments == [i \in Positions |-> IF i \in DOMAIN reported THEN reported[i] ELSE s.segments[i]]
<1>1. MergeSegments(s, reported) = Segmented(s, segments)
  <2>1. Fields(s)
    BY DEF Consistent, StateOk
  <2> QED
    BY <2>1 DEF MergeSegments, Segmented, Fields
<1>2. \A i \in Positions : IsSegment(s.segments[i])
  BY DEF Consistent, StateOk, SegmentsOk, IsSegment
<1>3. \A i \in Positions : segments[i] = IF i \in DOMAIN reported THEN reported[i] ELSE s.segments[i]
  OBVIOUS
<1>4. segments = [i \in Positions |-> segments[i]]
  OBVIOUS
<1> HIDE DEF segments
<1>5. SegmentsOk(segments)
  <2>1. \A i \in Positions : segments[i] = [rgb |-> segments[i].rgb, level |-> segments[i].level]
    BY <1>2, <1>3 DEF IsSegment
  <2> QED
    BY <1>4, <2>1 DEF SegmentsOk
<1> QED
  BY <1>1, <1>3, <1>5, SegmentsSet

-----------------------------------------------------------------------------
(* A report of the light folded into the state.                            *)

\* Only the bars report a pair, so that the other reports come from a device without bars.
LEMMA ReportKinds ==
    ASSUME NEW l, LightOk(l), profile.decode \in Layouts, BarsReportPairs(profile),
           \A z \in Zones : profile.zones[z] \subseteq Positions, profile.at \subseteq Positions, NEW r \in Reports(l)
    PROVE  \/ r.kind = "scene"
           \/ r.kind = "pair" /\ \A z \in Zones : r.kelvins[z] \in Nat
           \/ r.kind = "kelvin" /\ ~profile.bar /\ r.kelvin \in Nat
           \/ r.kind = "heads" /\ ~profile.bar /\ \A i \in {0, 1} : r.heads[i + 1] = Segment(l, i)
           \/ r.kind = "colour" /\ ~profile.bar /\ r.kelvin \in Nat /\ (r.rgb # NoColour => r.kelvin = 0)
           \/ r.kind = "none" /\ ~profile.bar
<1>0. Moded \subseteq Positions
  BY DEF Moded, MaskBits, Pieces
<1>1. CASE l.scene # 0
  BY <1>1 DEF Reports
<1>2. CASE l.scene = 0 /\ profile.decode = "none"
  BY <1>2 DEF Reports, BarsReportPairs
<1>3. CASE l.scene = 0 /\ profile.decode = "kelvin"
  <2>1. r \in {[kind |-> "kelvin", kelvin |-> k.kelvin] : k \in Looks(l, Moded)}
    BY <1>3 DEF Reports
  <2>2. \A k \in Looks(l, Moded) : k.kelvin \in Nat
    BY <1>0 DEF Looks, LightOk
  <2> QED
    BY <1>3, <2>1, <2>2 DEF BarsReportPairs
<1>4. CASE l.scene = 0 /\ profile.decode = "colour"
  <2>1. r \in {Colour(k) : k \in Looks(l, Moded)}
    BY <1>4 DEF Reports
  <2>2. \A k \in Looks(l, Moded) : k.kelvin \in Nat
    BY <1>0 DEF Looks, LightOk
  <2>3. \A k \in Looks(l, Moded) :
           Colour(k).kind = "colour" /\ Colour(k).kelvin \in Nat /\ (Colour(k).rgb # NoColour => Colour(k).kelvin = 0)
    BY <2>2 DEF Colour
  <2> QED
    BY <1>4, <2>1, <2>3 DEF BarsReportPairs
<1>5. CASE l.scene = 0 /\ profile.decode = "pair"
  <2>1. PICK a \in Looks(l, profile.zones[0]), b \in Looks(l, profile.zones[1]) :
           r = [kind |-> "pair", kelvins |-> [z \in Zones |-> IF z = 0 THEN a.kelvin ELSE b.kelvin]]
    BY <1>5 DEF Reports
  <2>2. a.kelvin \in Nat /\ b.kelvin \in Nat
    BY <2>1 DEF Looks, LightOk, Zones
  <2> QED
    BY <2>1, <2>2
<1>6. CASE l.scene = 0 /\ profile.decode = "heads"
  <2>1. r = [kind |-> "heads", heads |-> [h \in 1 .. 2 |-> [rgb |-> l.look[h - 1].shown, level |-> l.piece[h - 1]]]]
    BY <1>6 DEF Reports
  <2>2. r.heads[0 + 1] = Segment(l, 0) /\ r.heads[1 + 1] = Segment(l, 1)
    BY <2>1 DEF Segment
  <2> QED
    BY <1>6, <2>1, <2>2 DEF BarsReportPairs
<1>7. CASE l.scene = 0 /\ profile.decode = "rgb"
  <2>1. r \in {[kind |-> "colour", rgb |-> k.shown, kelvin |-> 0] : k \in Looks(l, Moded)}
    BY <1>7 DEF Reports
  <2> QED
    BY <1>7, <2>1 DEF BarsReportPairs
<1> QED
  BY <1>1, <1>2, <1>3, <1>4, <1>5, <1>6, <1>7 DEF Layouts

\* apply_kelvin_report and the heads' pair, on a device without bars.
Toned(s, rgb, kelvin) == [s EXCEPT !.rgb = rgb, !.kelvin = kelvin]

LEMMA ColourSet ==
    ASSUME NEW s, Consistent(s), s.scene = 0, ~profile.bar, NEW rgb, NEW kelvin \in Nat, rgb # NoColour => kelvin = 0
    PROVE  Folds(RememberKelvin(Toned(s, rgb, kelvin)), s)
<1> DEFINE r == Toned(s, rgb, kelvin)
<1>1. r = [level |-> s.level, rgb |-> rgb, kelvin |-> kelvin, last |-> s.last, scene |-> s.scene,
           zone |-> s.zone, segments |-> s.segments]
  <2>1. r = [s EXCEPT !.rgb = rgb, !.kelvin = kelvin] /\ Fields(s)
    BY DEF Consistent, StateOk, Toned
  <2> HIDE DEF r
  <2> QED
    BY <2>1 DEF Fields
<1> HIDE DEF r
<1>2. /\ Fields(r) /\ r.rgb = rgb /\ r.kelvin = kelvin /\ r.scene = s.scene /\ r.last = s.last
      /\ r.segments = s.segments /\ r.zone = s.zone
  BY <1>1 DEF Fields
<1>3. StateOk(r) /\ Exclusive(r)
  BY <1>2 DEF Consistent, StateOk, Exclusive
<1>4. Consistent(RememberKelvin(r)) /\ RememberKelvin(r).segments = s.segments
  BY <1>2, <1>3, RememberConsistent, RememberFields
<1> QED
  BY <1>4 DEF Folds, r

LEMMA Remembering ==
    ASSUME NEW s, Consistent(s)
    PROVE  Folds(RememberKelvin(s), s)
BY RememberConsistent, RememberFields DEF Consistent, Folds

\* _apply_mode: whatever the report, the state stays consistent, and its segments are the ones held
\* or the light's.
LEMMA ModeFolds ==
    ASSUME NEW s, Consistent(s), NEW l, LightOk(l), profile.decode \in Layouts, BarsReportPairs(profile),
           \A z \in Zones : profile.zones[z] \subseteq Positions, profile.at \subseteq Positions, NEW r \in Reports(l)
    PROVE  /\ Consistent(ApplyMode(s, r))
           /\ \A i \in Positions : ApplyMode(s, r).segments[i] \in {s.segments[i], Segment(l, i)}
<1> DEFINE t == LeavesScene(s)
<1>1. t = [s EXCEPT !.scene = 0]
  BY DEF LeavesScene
<1>2. Consistent(t) /\ t.segments = s.segments /\ t.scene = 0
  BY SceneLeft DEF Folds
<1> HIDE DEF t
<1>3. CASE r.kind = "scene"
  <2>1. ApplyMode(s, r) = RememberKelvin(ApplyScene(s, r.code))
    BY <1>3 DEF ApplyMode
  <2>2. Consistent(ApplyScene(s, r.code)) /\ ApplyScene(s, r.code).segments = s.segments
    BY ApplySceneFolds DEF Consistent, Folds
  <2> QED
    BY <2>1, <2>2, Remembering DEF Folds
<1>4. CASE r.kind = "pair" /\ \A z \in Zones : r.kelvins[z] \in Nat
  <2> DEFINE k == [z \in Zones |-> r.kelvins[z]]
  <2>1. ApplyMode(s, r) = RememberKelvin(ApplyZoneKelvin(t, k))
    BY <1>1, <1>4 DEF ApplyMode
  <2>2. \A z \in DOMAIN k : k[z] \in Int
    BY <1>4
  <2> HIDE DEF k
  <2>3. Folds(ApplyZoneKelvin(t, k), t)
    BY <1>2, <2>2, ZoneFolds
  <2> QED
    BY <1>2, <2>1, <2>3, Remembering DEF Folds
<1>5. CASE r.kind = "kelvin" /\ ~profile.bar /\ r.kelvin \in Nat
  <2>1. ApplyMode(s, r) = RememberKelvin(IF r.kelvin > 0 \/ profile.reportsKelvin
                                         THEN ApplyKelvinReport(t, r.kelvin) ELSE t)
    BY <1>1, <1>5 DEF ApplyMode
  <2>2. CASE r.kelvin > 0
    <3>1. ApplyKelvinReport(t, r.kelvin) = Toned(t, NoColour, r.kelvin)
      <4>1. Fields(t)
        BY <1>2 DEF Consistent, StateOk
      <4> QED
        BY <2>2, <4>1 DEF ApplyKelvinReport, Toned, Fields
    <3>2. Folds(RememberKelvin(Toned(t, NoColour, r.kelvin)), t)
      BY <1>2, <1>5, ColourSet
    <3> QED
      BY <1>2, <2>1, <2>2, <3>1, <3>2 DEF Folds
  <2>3. CASE ~(r.kelvin > 0) /\ profile.reportsKelvin
    <3>1. ApplyKelvinReport(t, r.kelvin) = Toned(t, t.rgb, 0)
      <4>1. Fields(t)
        BY <1>2 DEF Consistent, StateOk
      <4> QED
        BY <2>3, <4>1 DEF ApplyKelvinReport, Toned, Fields
    <3>2. Folds(RememberKelvin(Toned(t, t.rgb, 0)), t)
      BY <1>2, <1>5, ColourSet
    <3> QED
      BY <1>2, <2>1, <2>3, <3>1, <3>2 DEF Folds
  <2>4. CASE ~(r.kelvin > 0 \/ profile.reportsKelvin)
    BY <1>2, <2>1, <2>4, Remembering DEF Folds
  <2> QED
    BY <2>2, <2>3, <2>4
<1>6. CASE r.kind = "heads" /\ ~profile.bar /\ \A i \in {0, 1} : r.heads[i + 1] = Segment(l, i)
  <2> DEFINE shared == IF r.heads[1].rgb = r.heads[2].rgb THEN r.heads[1].rgb ELSE NoColour
             kelvin == IF shared = NoColour THEN 0
                       ELSE RgbAsKelvin(shared, profile.scheme, KelvinRange(profile, known.version, 0))
             colour == IF kelvin = 0 THEN shared ELSE NoColour
             reported == [i \in {0, 1} |-> r.heads[i + 1]]
             m == MergeSegments(t, reported)
  <2>1. ApplyMode(s, r) = RememberKelvin(Toned(m, colour, kelvin))
    BY <1>1, <1>6 DEF ApplyMode, ApplyHeadPair, Toned
  <2>2. kelvin \in Nat
    BY PickedKelvin
  <2>3. colour # NoColour => kelvin = 0
    OBVIOUS
  <2>4. DOMAIN reported = {0, 1} /\ \A i \in {0, 1} : reported[i] = Segment(l, i)
    BY <1>6
  <2> HIDE DEF reported, shared, kelvin, colour
  <2>5. \A i \in DOMAIN reported : IsSegment(reported[i])
    BY <2>4 DEF IsSegment, Segment
  <2>6. /\ Consistent(m) /\ m.scene = 0
        /\ \A i \in Positions : m.segments[i] \in {s.segments[i], Segment(l, i)}
    BY <1>2, <2>4, <2>5, SegmentsMerged
  <2> HIDE DEF m
  <2>7. Folds(RememberKelvin(Toned(m, colour, kelvin)), m)
    BY <1>6, <2>2, <2>3, <2>6, ColourSet
  <2> QED
    BY <2>1, <2>6, <2>7 DEF Folds
<1>7. CASE r.kind = "colour" /\ ~profile.bar /\ r.kelvin \in Nat /\ (r.rgb # NoColour => r.kelvin = 0)
  <2>1. ApplyMode(s, r) = RememberKelvin(Toned(t, r.rgb, r.kelvin))
    BY <1>1, <1>7 DEF ApplyMode, Toned
  <2>2. Folds(RememberKelvin(Toned(t, r.rgb, r.kelvin)), t)
    BY <1>2, <1>7, ColourSet
  <2> QED
    BY <1>2, <2>1, <2>2 DEF Folds
<1>8. CASE r.kind = "none"
  <2>1. ApplyMode(s, r) = RememberKelvin(t)
    BY <1>1, <1>8 DEF ApplyMode
  <2> QED
    BY <1>2, <2>1, Remembering DEF Folds
<1> QED
  BY <1>3, <1>4, <1>5, <1>6, <1>7, <1>8, ReportKinds

-----------------------------------------------------------------------------
(* The invariant.                                                          *)

\* The revision is learnt, never guessed.
RevisionOk ==
    /\ profile \in Profiles /\ real.version \in Versions /\ real.pact \in Pacts
    /\ known = [version |-> known.version, pact |-> known.pact]
    /\ known.version \in {0, real.version} /\ known.pact \in {0, real.pact}
\* The positions claimed are the device's, and hold what the light shows.
ClaimsHold == claimed \subseteq Pieces /\ claimedLevel \subseteq Pieces /\ SegmentsClaimed

HeldInv == RevisionOk /\ LightOk(light) /\ Consistent(state) /\ ClaimsHold /\ SentInRange

\* What ValidColours says of the profile at hand.
LEMMA ProfileFacts ==
    ASSUME profile \in Profiles
    PROVE  /\ ValidColours(profile) /\ profile.scheme \in Schemes /\ profile.white \in WhiteTypes
           /\ profile.decode \in Layouts /\ BarsReportPairs(profile) /\ profile.segments \in Nat
           /\ Pieces \subseteq Positions /\ profile.at \subseteq Positions /\ Positions \subseteq Nat
           /\ profile.pick => \A i \in Pieces : i < profile.segments
           /\ \A z \in Zones : /\ profile.zones[z] \subseteq Pieces
                               /\ \A i \in profile.zones[z] : i < MaskPositions(profile.segments, ColourMaskCap)
           /\ \A g \in profile.groups : g \subseteq Pieces
BY ProfilesAssumption, TintAssumption DEF ValidColours, OwnPieces, Pieces

\* The Kelvins of the range in force, every one where the profile has none.
InRange == {k \in Nat : profile.span = <<>> \/ k = 0 \/ k \in Span[1] .. Span[2]}
Plain == {"pieceLevel", "brightness", "scene"}
\* A frame the setters send.
Fair(f) == f = Refused \/ f.cmd \in Plain \/ Paints(f, InRange)

LEMMA RefusedIs ==
    Refused.cmd = "refused"
BY DEF Refused

LEMMA FairFrame ==
    ASSUME NEW f, Fair(f), f # Refused
    PROVE  IsFrame(f) /\ (f.cmd = "colour" => Paints(f, InRange) /\ Paints(f, Nat))
BY DEF Fair, IsFrame, Paints, InRange, Plain

\* What is in the range in force is in one of the device's own.
LEMMA SpanOwn ==
    ASSUME RevisionOk, NEW k \in InRange, k # 0, profile.span # <<>>
    PROVE  LET own == OwnEntries(profile, real.version, real.pact)
           IN  IF own = {} THEN k \in profile.span[1] .. profile.span[2] ELSE \A e \in own : k \in e.lo .. e.hi
<1>1. ValidColours(profile) /\ real.version \in Nat \ {0} /\ real.pact \in Nat \ {0}
  BY ProfileFacts, ColourStateAssumption DEF RevisionOk
<1>2. IsSpan(Span) /\ Within(Span, profile, real.version, real.pact)
  BY <1>1, RangeSound DEF RevisionOk, Span
<1>3. k \in Span[1] .. Span[2] /\ k \in Nat
  BY DEF InRange
<1>4. Span[1] \in Nat /\ Span[2] \in Nat
  BY <1>2 DEF IsSpan
<1>5. IsSpan(profile.span)
  BY <1>1 DEF ValidColours, BaseSpan, IsSpan
<1> DEFINE own == OwnEntries(profile, real.version, real.pact)
<1>6. \A e \in own : e.lo \in Nat /\ e.hi \in Nat
  BY <1>1 DEF ValidColours, CheckKelvinByVersion, CheckRangesByPact, Ordered, OwnEntries, NewestMet
<1>7. IF own = {} THEN profile.span[1] <= Span[1] /\ Span[2] <= profile.span[2]
      ELSE \A e \in own : e.lo <= Span[1] /\ Span[2] <= e.hi
  BY <1>2 DEF Within
<1> HIDE DEF own
<1>8. CASE own = {}
  <2>1. profile.span[1] <= Span[1] /\ Span[2] <= profile.span[2]
    BY <1>7, <1>8
  <2>2. profile.span[1] \in Nat /\ profile.span[2] \in Nat
    BY <1>5 DEF IsSpan
  <2>3. k \in profile.span[1] .. profile.span[2]
    BY <1>3, <1>4, <2>1, <2>2
  <2> QED
    BY <1>8, <2>3 DEF own
<1>9. CASE own # {}
  <2>1. \A e \in own : k \in e.lo .. e.hi
    <3> TAKE e \in own
    <3>1. e.lo <= Span[1] /\ Span[2] <= e.hi /\ e.lo \in Nat /\ e.hi \in Nat
      BY <1>6, <1>7, <1>9
    <3> QED
      BY <1>3, <1>4, <3>1
  <2> QED
    BY <1>9, <2>1 DEF own
<1> QED
  BY <1>8, <1>9

LEMMA SentOk ==
    ASSUME RevisionOk, UNCHANGED <<profile, real>>, sent' \in InRange
    PROVE  SentInRange'
<1>1. profile' = profile /\ real' = real
  OBVIOUS
<1>2. sent' # 0 /\ profile.span # <<>> =>
         LET own == OwnEntries(profile, real.version, real.pact)
         IN  IF own = {} THEN sent' \in profile.span[1] .. profile.span[2] ELSE \A e \in own : sent' \in e.lo .. e.hi
  BY SpanOwn
<1> QED
  BY <1>1, <1>2 DEF SentInRange, OwnEntries, NewestMet

\* The Kelvins a setter puts in its frames: the one a pick stands for, and the one asked for.
LEMMA PickInRange ==
    ASSUME RevisionOk, NEW rgb
    PROVE  RgbAsKelvin(rgb, profile.scheme, Span) \in InRange
<1> DEFINE k == RgbAsKelvin(rgb, profile.scheme, Span)
<1>1. k \in Nat /\ (k # 0 /\ Span # <<>> => k \in Span[1] .. Span[2])
  BY PickedKelvin
<1> HIDE DEF k
<1>2. profile.span # <<>> => Span # <<>>
  <2>1. ValidColours(profile) /\ real.version \in Nat \ {0} /\ real.pact \in Nat \ {0}
    BY ProfileFacts, ColourStateAssumption DEF RevisionOk
  <2>2. profile.span # <<>> => IsSpan(Span)
    BY <2>1, RangeSound DEF RevisionOk, Span
  <2> QED
    BY <2>2 DEF IsSpan
<1>3. k \in InRange
  BY <1>1, <1>2 DEF InRange
<1> QED
  BY <1>3 DEF k

LEMMA CheckInRange ==
    ASSUME RevisionOk, NEW k \in Nat
    PROVE  CheckKelvin(k) \in InRange /\ CheckKelvin(k) \in Nat
<1>1. ValidColours(profile) /\ real.version \in Nat \ {0} /\ real.pact \in Nat \ {0}
  BY ProfileFacts, ColourStateAssumption DEF RevisionOk
<1>2. profile.span # <<>> => IsSpan(Span)
  BY <1>1, RangeSound DEF RevisionOk, Span
<1>3. profile.span = <<>> => Span = <<>>
  BY DEF Span, KelvinRange
<1>4. Span = <<>> \/ IsSpan(Span)
  BY <1>2, <1>3
<1>5. /\ NormalizeKelvin(k, Span) \in Nat
      /\ Span # <<>> => NormalizeKelvin(k, Span) \in Span[1] .. Span[2]
  BY <1>4, NormalizedIn
<1>6. profile.span # <<>> => Span # <<>>
  BY <1>2 DEF IsSpan
<1> QED
  BY <1>5, <1>6 DEF CheckKelvin, InRange

LEMMA ZeroInRange == 0 \in InRange
BY DEF InRange

\* Every frame of a whole-device write is a fair one.
LEMMA RgbFrameFair ==
    ASSUME RevisionOk, NEW rgb, NEW f,
           f = ColorRgbFrames(rgb, profile.scheme, profile.segments, Span, profile.pieces, profile.white)
    PROVE  f = Refused \/ Paints(f, InRange)
<1> DEFINE k == RgbAsKelvin(rgb, profile.scheme, Span)
<1>1. profile.scheme \in Schemes /\ profile.white \in WhiteTypes
  BY ProfileFacts DEF RevisionOk
<1>2. f = Refused \/ Paints(f, {0, k})
  BY <1>1, ColorRgbSends
<1>3. k \in InRange
  BY PickInRange
<1> QED
  BY <1>2, <1>3, ZeroInRange DEF Paints

LEMMA KelvinFrameFair ==
    ASSUME RevisionOk, NEW k \in InRange, NEW f,
           f = ColorTemp(k, profile.scheme, profile.segments, profile.pieces, profile.white)
    PROVE  f = Refused \/ Paints(f, InRange)
<1>1. profile.scheme \in Schemes /\ profile.white \in WhiteTypes /\ k \in Nat
  BY ProfileFacts DEF RevisionOk, InRange
<1>2. f = Refused \/ Paints(f, {0, k})
  BY <1>1, ColorTempSends
<1> QED
  BY <1>2, ZeroInRange DEF Paints

\* The one or two frames of a write.
Write(frames, a, b) == Fair(a) /\ (frames = <<a>> \/ (frames = <<a, b>> /\ Fair(b)))

LEMMA WriteSound ==
    ASSUME LightOk(light), NEW a, NEW b, NEW frames, Write(frames, a, b), \A i \in DOMAIN frames : frames[i] # Refused
    PROVE  /\ LightOk(DoesAll(light, frames)) /\ KelvinOf(frames) \in InRange
           /\ \A n \in DOMAIN frames : LightOk(DoesAll(light, SubSeq(frames, 1, n)))
<1>1. CASE frames = <<a>>
  <2>1. DOMAIN <<a>> = {1} /\ <<a>>[1] = a
    OBVIOUS
  <2>2. a # Refused /\ Fair(a)
    BY <1>1, <2>1 DEF Write
  <2>3. IsFrame(a) /\ (a.cmd = "colour" => Look(a).kelvin \in InRange)
    BY <2>2, FairFrame DEF Paints
  <2>4. /\ LightOk(DoesAll(light, frames))
        /\ \A n \in DOMAIN frames : LightOk(DoesAll(light, SubSeq(frames, 1, n)))
    BY <1>1, <2>3, WrittenKeeps
  <2>5. \A i \in DOMAIN frames : frames[i].cmd = "colour" => Look(frames[i]).kelvin \in InRange
    BY <1>1, <2>1, <2>3
  <2> QED
    BY <2>4, <2>5, KelvinOfFrames, ZeroInRange
<1>2. CASE frames = <<a, b>> /\ Fair(b)
  <2>1. DOMAIN <<a, b>> = {1, 2} /\ <<a, b>>[1] = a /\ <<a, b>>[2] = b
    OBVIOUS
  <2>2. a # Refused /\ Fair(a) /\ b # Refused
    BY <1>2, <2>1 DEF Write
  <2>3. /\ IsFrame(a) /\ (a.cmd = "colour" => Look(a).kelvin \in InRange)
        /\ IsFrame(b) /\ (b.cmd = "colour" => Look(b).kelvin \in InRange)
    BY <1>2, <2>2, FairFrame DEF Paints
  <2>4. /\ LightOk(DoesAll(light, frames))
        /\ \A n \in DOMAIN frames : LightOk(DoesAll(light, SubSeq(frames, 1, n)))
    BY <1>2, <2>3, WrittenKeeps
  <2>5. \A i \in DOMAIN frames : frames[i].cmd = "colour" => Look(frames[i]).kelvin \in InRange
    BY <1>2, <2>1, <2>3
  <2> QED
    BY <2>4, <2>5, KelvinOfFrames, ZeroInRange
<1> QED
  BY <1>1, <1>2 DEF Write

\* What a step that changes neither the profile nor the revision leaves to show.
LEMMA Unlearnt ==
    ASSUME RevisionOk, UNCHANGED <<profile, real, known>>
    PROVE  RevisionOk'
BY DEF RevisionOk

\* A write that raises claims nothing, wherever it stopped.
LEMMA RaisedKeeps ==
    ASSUME HeldInv, NEW a, NEW b, NEW frames, Write(frames, a, b), Raised(frames)
    PROVE  HeldInv'
<1>1. RevisionOk' /\ SentInRange'
  <2>1. sent' \in InRange
    BY WriteSound DEF Raised, HeldInv
  <2> QED
    BY <2>1, SentOk, Unlearnt DEF Raised, HeldInv
<1>2. PICK n \in DOMAIN frames : light' = DoesAll(light, SubSeq(frames, 1, n))
  BY DEF Raised
<1>3. LightOk(light)'
  <2>1. LightOk(DoesAll(light, SubSeq(frames, 1, n)))
    BY WriteSound DEF Raised, HeldInv
  <2> QED
    BY <1>2, <2>1 DEF LightOk
<1>4. Consistent(state)'
  BY DEF HeldInv, Raised, Consistent, StateOk, Fields, SegmentsOk, Exclusive, Remembered
<1>5. ClaimsHold'
  BY DEF Raised, ClaimsHold, SegmentsClaimed
<1> QED
  BY <1>1, <1>3, <1>4, <1>5 DEF HeldInv

\* An acknowledged one: the state it folds, and the claims it makes, are for its caller to show.
LEMMA AckedKeeps ==
    ASSUME HeldInv, NEW a, NEW b, NEW frames, Write(frames, a, b), NEW folded, Acked(frames, folded),
           Consistent(folded), ClaimsHold'
    PROVE  HeldInv'
<1>1. RevisionOk' /\ SentInRange'
  <2>1. sent' \in InRange
    BY WriteSound DEF Acked, HeldInv
  <2> QED
    BY <2>1, SentOk, Unlearnt DEF Acked, HeldInv
<1>2. LightOk(light)'
  <2>1. LightOk(DoesAll(light, frames))
    BY WriteSound DEF Acked, HeldInv
  <2> QED
    BY <2>1 DEF LightOk, Acked
<1>3. Consistent(state)'
  BY DEF Acked, Consistent, StateOk, Fields, SegmentsOk, Exclusive, Remembered
<1> QED
  BY <1>1, <1>2, <1>3 DEF HeldInv

\* A whole-device write shows no piece a brightness, whatever colour it shows.
LEMMA WholeWritePieces ==
    ASSUME LightOk(light), NEW a, NEW b, NEW frames, Write(frames, a, b), \A i \in DOMAIN frames : frames[i] # Refused,
           a.cmd # "pieceLevel", frames = <<a, b>> => b.cmd # "pieceLevel"
    PROVE  DoesAll(light, frames).piece = light.piece
<1>1. ASSUME NEW l, LightOk(l), NEW f, Fair(f), f # Refused, f.cmd # "pieceLevel"
      PROVE  LightOk(Does(l, f)) /\ Does(l, f).piece = l.piece
  <2>1. CASE f.cmd \in {"brightness", "scene"}
    BY <1>1, <2>1, DoesOther
  <2>2. CASE f.cmd = "colour"
    BY <1>1, <2>2, DoesColour, FairFrame
  <2> QED
    BY <1>1, <2>1, <2>2 DEF Fair, Plain, Paints
<1>2. CASE frames = <<a>>
  <2>1. a # Refused /\ Fair(a) /\ DoesAll(light, frames) = Does(light, a)
    <3>1. DOMAIN <<a>> = {1} /\ <<a>>[1] = a /\ Len(<<a>>) = 1
      OBVIOUS
    <3> QED
      BY <1>2, <3>1 DEF Write, DoesAll
  <2> QED
    BY <1>1, <2>1
<1>3. CASE frames = <<a, b>> /\ Fair(b)
  <2>1. a # Refused /\ Fair(a) /\ b # Refused /\ DoesAll(light, frames) = Does(Does(light, a), b)
    <3>1. DOMAIN <<a, b>> = {1, 2} /\ <<a, b>>[1] = a /\ <<a, b>>[2] = b /\ Len(<<a, b>>) = 2
      OBVIOUS
    <3> QED
      BY <1>3, <3>1 DEF Write, DoesAll
  <2>2. LightOk(Does(light, a)) /\ Does(light, a).piece = light.piece
    BY <1>1, <2>1
  <2>3. Does(Does(light, a), b).piece = Does(light, a).piece
    BY <1>1, <1>3, <2>1, <2>2
  <2> QED
    BY <2>1, <2>2, <2>3
<1> QED
  BY <1>2, <1>3 DEF Write

\* A whole-device write keeps the segments held, and claims the colour of none.
LEMMA WholeKeeps ==
    ASSUME HeldInv, NEW a, NEW b, NEW frames, Write(frames, a, b), NEW folded, Acked(frames, folded),
           a.cmd # "pieceLevel", frames = <<a, b>> => b.cmd # "pieceLevel",
           Folds(folded, state), claimed' = {}, claimedLevel' = claimedLevel
    PROVE  HeldInv'
<1>1. light'.piece = light.piece
  BY WholeWritePieces DEF Acked, HeldInv
<1>2. state'.segments = state.segments /\ profile' = profile
  BY DEF Acked, Folds
<1>3. ClaimsHold'
  BY <1>1, <1>2 DEF HeldInv, ClaimsHold, SegmentsClaimed, Pieces
<1> QED
  BY <1>3, AckedKeeps DEF Folds

LEMMA SetRgbKeeps ==
    ASSUME HeldInv, NEW rgb, SetRgb(rgb)
    PROVE  HeldInv'
<1> DEFINE a == ColorRgbFrames(rgb, profile.scheme, profile.segments, Span, profile.pieces, profile.white)
           folded == ApplyRgb(state, rgb, Span)
<1>1. \/ Acked(<<a>>, folded) /\ claimed' = {} /\ claimedLevel' = claimedLevel
      \/ Raised(<<a>>)
  BY DEF SetRgb
<1>2. a = Refused \/ Paints(a, InRange)
  BY RgbFrameFair DEF HeldInv
<1>3. Folds(folded, state)
  BY ApplyRgbFolds DEF HeldInv, Consistent
<1> HIDE DEF a, folded
<1>4. Write(<<a>>, a, a) /\ a.cmd # "pieceLevel"
  BY <1>2, RefusedIs DEF Write, Fair, Paints
<1> QED
  BY <1>1, <1>3, <1>4, WholeKeeps, RaisedKeeps

LEMMA SetSceneKeeps ==
    ASSUME HeldInv, NEW code, SetScene(code)
    PROVE  HeldInv'
<1> DEFINE a == SceneActivate(code)
           folded == ApplyScene(state, code)
<1>1. \/ Acked(<<a>>, folded) /\ claimed' = {} /\ claimedLevel' = claimedLevel
      \/ Raised(<<a>>)
  BY DEF SetScene
<1>2. a.cmd = "scene"
  BY DEF SceneActivate
<1>3. Folds(folded, state)
  BY ApplySceneFolds DEF HeldInv, Consistent
<1> HIDE DEF a, folded
<1>4. Write(<<a>>, a, a) /\ a.cmd # "pieceLevel"
  BY <1>2 DEF Write, Fair, Plain
<1> QED
  BY <1>1, <1>3, <1>4, WholeKeeps, RaisedKeeps

\* The level held may go with the colour.
LEMMA LevelThen ==
    ASSUME NEW s, NEW r, Consistent(s), Folds(r, s), NEW level
    PROVE  Folds([r EXCEPT !.level = level], s)
BY LevelFolds DEF Folds

LEMMA KelvinFacts ==
    ASSUME HeldInv, NEW k \in Kelvins, NEW a,
           a = ColorTemp(CheckKelvin(k), profile.scheme, profile.segments, profile.pieces, profile.white)
    PROVE  (a = Refused \/ Paints(a, InRange)) /\ CheckKelvin(k) \in Nat
<1>1. k \in Nat /\ RevisionOk
  BY ColourStateAssumption DEF HeldInv
<1>2. CheckKelvin(k) \in InRange /\ CheckKelvin(k) \in Nat
  BY <1>1, CheckInRange
<1> QED
  BY <1>1, <1>2, KelvinFrameFair

LEMMA SetColorTempKeeps ==
    ASSUME HeldInv, NEW k \in Kelvins, SetColorTemp(k)
    PROVE  HeldInv'
<1> DEFINE kelvin == CheckKelvin(k)
           a == ColorTemp(kelvin, profile.scheme, profile.segments, profile.pieces, profile.white)
           b == BrightnessFrame(state.level)
           frames == IF profile.withBrightness THEN <<a, b>> ELSE <<a>>
           coloured == ApplyKelvin(state, kelvin)
           folded == IF profile.withBrightness THEN [coloured EXCEPT !.level = state.level] ELSE coloured
<1>1. \/ Acked(frames, folded) /\ claimed' = {} /\ claimedLevel' = claimedLevel
      \/ Raised(frames)
  BY DEF SetColorTemp
<1>2. (a = Refused \/ Paints(a, InRange)) /\ kelvin \in Nat
  BY KelvinFacts
<1>3. b = Refused \/ b.cmd = "brightness"
  BY BrightnessFrameIs
<1>4. Folds(folded, state)
  <2>1. Folds(coloured, state) /\ Consistent(state)
    BY <1>2, ApplyKelvinFolds DEF HeldInv, Consistent
  <2> HIDE DEF coloured
  <2> QED
    BY <2>1, LevelThen
<1>5. frames \in {<<a>>, <<a, b>>}
  OBVIOUS
<1> HIDE DEF a, b, frames, folded
<1>6. Write(frames, a, b) /\ a.cmd # "pieceLevel" /\ b.cmd # "pieceLevel"
  BY <1>2, <1>3, <1>5, RefusedIs DEF Write, Fair, Paints, Plain
<1> QED
  BY <1>1, <1>4, <1>6, WholeKeeps, RaisedKeeps

LEMMA TurnOnRgbKeeps ==
    ASSUME HeldInv, NEW pct, NEW rgb, TurnOnRgb(pct, rgb)
    PROVE  HeldInv'
<1> DEFINE a == BrightnessFrame(pct)
           b == ColorRgbFrames(rgb, profile.scheme, profile.segments, Span, profile.pieces, profile.white)
           lit == [state EXCEPT !.level = pct]
           folded == ApplyRgb(lit, rgb, Span)
<1>1. \/ Acked(<<a, b>>, folded) /\ claimed' = {} /\ claimedLevel' = claimedLevel
      \/ Raised(<<a, b>>)
  BY DEF TurnOnRgb
<1>2. a = Refused \/ a.cmd = "brightness"
  BY BrightnessFrameIs
<1>3. b = Refused \/ Paints(b, InRange)
  BY RgbFrameFair DEF HeldInv
<1>4. Folds(folded, state)
  <2>1. Folds(lit, state)
    BY LevelFolds DEF HeldInv
  <2> HIDE DEF lit
  <2>2. Folds(folded, lit)
    BY <2>1, ApplyRgbFolds DEF Folds, Consistent
  <2> QED
    BY <2>1, <2>2 DEF Folds
<1> HIDE DEF a, b, folded
<1>5. Write(<<a, b>>, a, b) /\ a.cmd # "pieceLevel" /\ b.cmd # "pieceLevel"
  BY <1>2, <1>3, RefusedIs DEF Write, Fair, Paints, Plain
<1> QED
  BY <1>1, <1>4, <1>5, WholeKeeps, RaisedKeeps

LEMMA TurnOnKelvinKeeps ==
    ASSUME HeldInv, NEW pct, NEW k \in Kelvins, TurnOnKelvin(pct, k)
    PROVE  HeldInv'
<1> DEFINE kelvin == CheckKelvin(k)
           a == ColorTemp(kelvin, profile.scheme, profile.segments, profile.pieces, profile.white)
           b == BrightnessFrame(pct)
           frames == IF profile.withBrightness THEN <<a, b>> ELSE <<b, a>>
           lit == [state EXCEPT !.level = pct]
           folded == ApplyKelvin(lit, kelvin)
<1>1. \/ Acked(frames, folded) /\ claimed' = {} /\ claimedLevel' = claimedLevel
      \/ Raised(frames)
  BY DEF TurnOnKelvin
<1>2. (a = Refused \/ Paints(a, InRange)) /\ kelvin \in Nat
  BY KelvinFacts
<1>3. b = Refused \/ b.cmd = "brightness"
  BY BrightnessFrameIs
<1>4. Folds(folded, state)
  <2>1. Folds(lit, state)
    BY LevelFolds DEF HeldInv
  <2> HIDE DEF lit
  <2>2. Folds(folded, lit)
    BY <1>2, <2>1, ApplyKelvinFolds DEF Folds, Consistent
  <2> QED
    BY <2>1, <2>2 DEF Folds
<1>5. frames = <<a, b>> \/ frames = <<b, a>>
  OBVIOUS
<1> HIDE DEF a, b, frames, folded
<1>6. Fair(a) /\ Fair(b) /\ a.cmd # "pieceLevel" /\ b.cmd # "pieceLevel"
  BY <1>2, <1>3, RefusedIs DEF Fair, Paints, Plain
<1>7. Write(frames, a, b) \/ Write(frames, b, a)
  BY <1>5, <1>6 DEF Write
<1> QED
  BY <1>1, <1>4, <1>6, <1>7, WholeKeeps, RaisedKeeps

LEMMA SetBrightnessKeeps ==
    ASSUME HeldInv, NEW pct, SetBrightness(pct)
    PROVE  HeldInv'
<1> DEFINE a == BrightnessFrame(pct)
           folded == [state EXCEPT !.level = pct]
<1>1. \/ Acked(<<a>>, folded) /\ claimed' = claimed /\ claimedLevel' = claimedLevel
      \/ Raised(<<a>>)
  BY DEF SetBrightness
<1>2. a = Refused \/ a.cmd = "brightness"
  BY BrightnessFrameIs
<1>3. Folds(folded, state)
  BY LevelFolds DEF HeldInv
<1> HIDE DEF a, folded
<1>4. Write(<<a>>, a, a)
  BY <1>2 DEF Write, Fair, Plain
<1>5. ASSUME Acked(<<a>>, folded), claimed' = claimed /\ claimedLevel' = claimedLevel
      PROVE  HeldInv'
  <2>1. a.cmd = "brightness" /\ light' = Does(light, a)
    <3>1. DOMAIN <<a>> = {1} /\ <<a>>[1] = a /\ Len(<<a>>) = 1
      OBVIOUS
    <3> QED
      BY <1>2, <1>5, <3>1 DEF Acked, DoesAll
  <2>2. light'.look = light.look /\ light'.piece = light.piece
    BY <2>1, DoesOther DEF HeldInv
  <2>3. state'.segments = state.segments /\ profile' = profile
    BY <1>3, <1>5 DEF Acked, Folds
  <2>4. ClaimsHold'
    BY <1>5, <2>2, <2>3 DEF HeldInv, ClaimsHold, SegmentsClaimed, Pieces
  <2> QED
    BY <1>3, <1>4, <1>5, <2>4, AckedKeeps DEF Folds
<1> QED
  BY <1>1, <1>4, <1>5, RaisedKeeps

-----------------------------------------------------------------------------
(* Writes of some pieces.                                                  *)

LEMMA OneFrame ==
    ASSUME NEW a, NEW folded, Acked(<<a>>, folded)
    PROVE  a # Refused /\ light' = Does(light, a) /\ state' = folded /\ profile' = profile
<1>1. DOMAIN <<a>> = {1} /\ <<a>>[1] = a /\ Len(<<a>>) = 1
  OBVIOUS
<1> QED
  BY <1>1 DEF Acked, DoesAll

\* The colour a frame shows some pieces, and the state takes for them.
LEMMA ColourClaims ==
    ASSUME HeldInv, NEW a, NEW folded, Acked(<<a>>, folded), Paints(a, InRange), NEW where, where \subseteq Pieces,
           a.mask = where, NEW rgb, Look(a).shown = rgb,
           \A i \in Positions : /\ folded.segments[i].level = state.segments[i].level
                                /\ folded.segments[i].rgb = IF i \in where THEN rgb ELSE state.segments[i].rgb,
           claimed' = claimed \cup where, claimedLevel' = claimedLevel
    PROVE  ClaimsHold'
<1>1. light' = Does(light, a) /\ state' = folded /\ profile' = profile
  BY OneFrame
<1>2. Paints(a, Nat)
  BY DEF Paints, InRange
<1>3. /\ light'.piece = light.piece
      /\ \A i \in Positions : light'.look[i] = IF i \in a.mask \cap Pieces THEN Look(a) ELSE light.look[i]
  BY <1>1, <1>2, DoesColour DEF HeldInv
<1>4. Pieces \subseteq Positions /\ Pieces' = Pieces
  BY <1>1, ProfileFacts DEF HeldInv, RevisionOk, Pieces
<1>5. claimed' \subseteq Pieces /\ claimedLevel' \subseteq Pieces
  BY DEF HeldInv, ClaimsHold
<1>6. \A i \in claimed' : state'.segments[i].rgb = light'.look[i].shown
  <2> TAKE i \in claimed'
  <2>1. i \in Positions /\ i \in Pieces
    BY <1>4, <1>5
  <2>2. CASE i \in where
    BY <1>1, <1>3, <2>1, <2>2
  <2>3. CASE i \notin where
    <3>1. state.segments[i].rgb = light.look[i].shown
      BY <2>3 DEF HeldInv, ClaimsHold, SegmentsClaimed
    <3> QED
      BY <1>1, <1>3, <2>1, <2>3, <3>1
  <2> QED
    BY <2>2, <2>3
<1>7. \A i \in claimedLevel' : state'.segments[i].level = light'.piece[i]
  <2> TAKE i \in claimedLevel'
  <2>1. i \in Positions /\ state.segments[i].level = light.piece[i]
    BY <1>4, <1>5 DEF HeldInv, ClaimsHold, SegmentsClaimed
  <2> QED
    BY <1>1, <1>3, <2>1
<1> QED
  BY <1>4, <1>5, <1>6, <1>7 DEF ClaimsHold, SegmentsClaimed

\* A colour temperature on some pieces, whose colours the state lets go.
LEMMA KelvinClaims ==
    ASSUME HeldInv, NEW a, NEW folded, Acked(<<a>>, folded), Paints(a, InRange), NEW where, a.mask \subseteq where,
           folded.segments = state.segments, claimed' = claimed \ where, claimedLevel' = claimedLevel
    PROVE  ClaimsHold'
<1>1. light' = Does(light, a) /\ state' = folded /\ profile' = profile
  BY OneFrame
<1>2. Paints(a, Nat)
  BY DEF Paints, InRange
<1>3. /\ light'.piece = light.piece
      /\ \A i \in Positions : light'.look[i] = IF i \in a.mask \cap Pieces THEN Look(a) ELSE light.look[i]
  BY <1>1, <1>2, DoesColour DEF HeldInv
<1>4. Pieces \subseteq Positions /\ Pieces' = Pieces
  BY <1>1, ProfileFacts DEF HeldInv, RevisionOk, Pieces
<1>5. claimed' \subseteq Pieces /\ claimedLevel' \subseteq Pieces
  BY DEF HeldInv, ClaimsHold
<1>6. \A i \in claimed' : state'.segments[i].rgb = light'.look[i].shown
  <2> TAKE i \in claimed'
  <2>1. i \in Positions /\ i \notin a.mask /\ state.segments[i].rgb = light.look[i].shown
    BY <1>4, <1>5 DEF HeldInv, ClaimsHold, SegmentsClaimed
  <2> QED
    BY <1>1, <1>3, <2>1
<1>7. \A i \in claimedLevel' : state'.segments[i].level = light'.piece[i]
  BY <1>1, <1>3 DEF HeldInv, ClaimsHold, SegmentsClaimed
<1> QED
  BY <1>4, <1>5, <1>6, <1>7 DEF ClaimsHold, SegmentsClaimed

\* The brightness a frame gives some pieces.
LEMMA LevelClaims ==
    ASSUME HeldInv, NEW a, NEW folded, Acked(<<a>>, folded), a.cmd = "pieceLevel", NEW where, where \subseteq Pieces,
           a.mask = where, NEW level, a.level = level,
           \A i \in Positions : /\ folded.segments[i].rgb = state.segments[i].rgb
                                /\ folded.segments[i].level = IF i \in where THEN level ELSE state.segments[i].level,
           claimed' = claimed, claimedLevel' = claimedLevel \cup where
    PROVE  ClaimsHold'
<1>1. light' = Does(light, a) /\ state' = folded /\ profile' = profile
  BY OneFrame
<1>2. /\ light'.look = light.look
      /\ \A i \in Positions : light'.piece[i] = IF i \in a.mask \cap Pieces THEN a.level ELSE light.piece[i]
  BY <1>1, DoesPieceLevel DEF HeldInv
<1>3. Pieces \subseteq Positions /\ Pieces' = Pieces
  BY <1>1, ProfileFacts DEF HeldInv, RevisionOk, Pieces
<1>4. claimed' \subseteq Pieces /\ claimedLevel' \subseteq Pieces
  BY DEF HeldInv, ClaimsHold
<1>5. \A i \in claimedLevel' : state'.segments[i].level = light'.piece[i]
  <2> TAKE i \in claimedLevel'
  <2>1. i \in Positions /\ i \in Pieces
    BY <1>3, <1>4
  <2>2. CASE i \in where
    BY <1>1, <1>2, <2>1, <2>2
  <2>3. CASE i \notin where
    <3>1. state.segments[i].level = light.piece[i]
      BY <2>3 DEF HeldInv, ClaimsHold, SegmentsClaimed
    <3> QED
      BY <1>1, <1>2, <2>1, <2>3, <3>1
  <2> QED
    BY <2>2, <2>3
<1>6. \A i \in claimed' : state'.segments[i].rgb = light'.look[i].shown
  <2> TAKE i \in claimed'
  <2>1. i \in Positions /\ state.segments[i].rgb = light.look[i].shown
    BY <1>3, <1>4 DEF HeldInv, ClaimsHold, SegmentsClaimed
  <2> QED
    BY <1>1, <1>2, <2>1
<1> QED
  BY <1>3, <1>4, <1>5, <1>6 DEF ClaimsHold, SegmentsClaimed

\* The mask of a frame of some pieces is what Carried says of them.
LEMMA CarriedIs ==
    ASSUME profile \in Profiles, profile.pick, NEW where, where \subseteq Pieces,
           NEW cap \in {ColourMaskCap, BrightnessMaskCap}
    PROVE  /\ Carried(where, cap) \subseteq Pieces
           /\ profile.scheme # "h60a6" => Carried(where, cap) = where
           /\ profile.scheme = "h60a6" => Carried(where, cap) = MaskBits(where, profile.segments, cap)
<1>1. where \subseteq Nat /\ profile.segments \in Nat /\ \A i \in where : i < profile.segments
  BY ProfileFacts
<1>2. {i \in where : i < MaskPositions(profile.segments, cap)} = MaskBits(where, profile.segments, cap)
  BY <1>1, ReachCarried
<1> QED
  BY <1>2 DEF Carried

LEMMA SegmentRgbFrame ==
    ASSUME RevisionOk, NEW where, NEW rgb, NEW a,
           a = SegmentRgb(where, rgb, profile.scheme, profile.segments, Span, profile.white)
    PROVE  \/ a = Refused
           \/ /\ Paints(a, InRange) /\ Look(a).shown = rgb
              /\ a.mask = IF profile.scheme = "h60a6" THEN MaskBits(where, profile.segments, ColourMaskCap) ELSE where
<1> DEFINE k == RgbAsKelvin(rgb, profile.scheme, Span)
<1>1. profile.scheme \in Schemes /\ profile.white \in WhiteTypes
  BY ProfileFacts DEF RevisionOk
<1>2. \/ a = Refused
      \/ /\ Paints(a, {0, k}) /\ Look(a).shown = rgb
         /\ a.mask = IF profile.scheme = "h60a6" THEN MaskBits(where, profile.segments, ColourMaskCap) ELSE where
  BY <1>1, SegmentRgbShows
<1>3. k \in InRange
  BY PickInRange
<1> HIDE DEF k
<1>4. Paints(a, {0, k}) => Paints(a, InRange)
  BY <1>3, ZeroInRange DEF Paints
<1> QED
  BY <1>2, <1>4

LEMMA SegmentKelvinSent ==
    ASSUME RevisionOk, NEW where, NEW k \in Kelvins, NEW a,
           a = SegmentColorTemp(where, CheckKelvin(k), profile.scheme, profile.segments,
                                TintForKelvin(CheckKelvin(k)), profile.white)
    PROVE  a = Refused \/ (Paints(a, InRange) /\ a.mask \subseteq where)
<1> DEFINE kelvin == CheckKelvin(k)
<1>1. profile.white \in WhiteTypes /\ k \in Nat
  BY ProfileFacts, ColourStateAssumption DEF RevisionOk
<1>2. kelvin \in InRange /\ kelvin \in Nat
  BY <1>1, CheckInRange
<1> HIDE DEF kelvin
<1>3. a = SegmentColorTemp(where, kelvin, profile.scheme, profile.segments, TintForKelvin(kelvin), profile.white)
  BY DEF kelvin
<1>4. \/ a = Refused
      \/ Paints(a, {0, kelvin}) /\ a.mask = MaskBits(where, profile.segments, ColourMaskCap)
  BY <1>1, <1>2, <1>3, SegmentKelvinFrame
<1>5. MaskBits(where, profile.segments, ColourMaskCap) \subseteq where
  BY DEF MaskBits
<1>6. Paints(a, {0, kelvin}) => Paints(a, InRange)
  BY <1>2, ZeroInRange DEF Paints
<1> QED
  BY <1>4, <1>5, <1>6

\* LeavesScene over a state keeps its segments.
LEMMA SegmentsLeft ==
    ASSUME NEW s, Consistent(s)
    PROVE  Consistent(LeavesScene(s)) /\ LeavesScene(s).segments = s.segments /\ LeavesScene(s).scene = 0
BY SceneLeft DEF Folds

LEMMA SetSegmentRgbKeeps ==
    ASSUME HeldInv, NEW where, where \subseteq Pieces, NEW rgb, SetSegmentRgb(where, rgb)
    PROVE  HeldInv'
<1> DEFINE a == SegmentRgb(where, rgb, profile.scheme, profile.segments, Span, profile.white)
           carried == Carried(where, ColourMaskCap)
           picked == UpdateSegmentsRgb(state, carried, rgb)
           folded == LeavesScene(picked)
<1>1. /\ profile.pick
      /\ \/ Acked(<<a>>, folded) /\ claimed' = claimed \cup carried /\ claimedLevel' = claimedLevel
         \/ Raised(<<a>>)
  BY DEF SetSegmentRgb
<1>2. \/ a = Refused
      \/ /\ Paints(a, InRange) /\ Look(a).shown = rgb
         /\ a.mask = IF profile.scheme = "h60a6" THEN MaskBits(where, profile.segments, ColourMaskCap) ELSE where
  BY SegmentRgbFrame DEF HeldInv
<1>3. carried \subseteq Pieces /\ (a # Refused => a.mask = carried)
  BY <1>1, <1>2, CarriedIs DEF HeldInv, RevisionOk
<1>4. /\ Consistent(picked)
      /\ \A i \in Positions : /\ picked.segments[i].level = state.segments[i].level
                              /\ picked.segments[i].rgb = IF i \in carried THEN rgb ELSE state.segments[i].rgb
  BY SegmentsRgbSet DEF HeldInv
<1> HIDE DEF picked
<1>5. Consistent(folded) /\ folded.segments = picked.segments
  BY <1>4, SegmentsLeft
<1> HIDE DEF a, carried, folded
<1>6. Write(<<a>>, a, a)
  BY <1>2 DEF Write, Fair
<1>7. ASSUME Acked(<<a>>, folded), claimed' = claimed \cup carried, claimedLevel' = claimedLevel
      PROVE  HeldInv'
  <2>1. a # Refused
    BY <1>7, OneFrame
  <2>2. ClaimsHold'
    BY <1>2, <1>3, <1>4, <1>5, <1>7, <2>1, ColourClaims
  <2> QED
    BY <1>5, <1>6, <1>7, <2>2, AckedKeeps
<1> QED
  BY <1>1, <1>6, <1>7, RaisedKeeps

LEMMA SetSegmentBrightnessKeeps ==
    ASSUME HeldInv, NEW where, where \subseteq Pieces, NEW pct \in Levels, SetSegmentBrightness(where, pct)
    PROVE  HeldInv'
<1> DEFINE pieces == BrightnessPieces(where)
           a == SegmentBrightness(pieces, pct, profile.scheme, profile.segments)
           carried == Carried(pieces, BrightnessMaskCap)
           picked == UpdateSegmentsLevel(state, carried, pct)
           folded == LeavesScene(picked)
<1>1. /\ profile.pick
      /\ \/ Acked(<<a>>, folded) /\ claimedLevel' = claimedLevel \cup carried /\ claimed' = claimed
         \/ Raised(<<a>>)
  BY DEF SetSegmentBrightness
<1>2. pieces \subseteq Pieces
  BY ProfileFacts DEF BrightnessPieces, HeldInv, RevisionOk
<1>3. pct \in 1 .. 100
  BY ColourStateAssumption
<1> HIDE DEF pieces
<1>4. \/ a = Refused
      \/ /\ profile.scheme = "h60a6" /\ a.cmd = "pieceLevel" /\ a.level = pct
         /\ a.mask = MaskBits(pieces, profile.segments, BrightnessMaskCap)
  BY <1>3, SegmentBrightnessFrame
<1>5. carried \subseteq Pieces /\ (a # Refused => a.mask = carried)
  BY <1>1, <1>2, <1>4, CarriedIs DEF HeldInv, RevisionOk
<1>6. /\ Consistent(picked)
      /\ \A i \in Positions : /\ picked.segments[i].rgb = state.segments[i].rgb
                              /\ picked.segments[i].level = IF i \in carried THEN pct ELSE state.segments[i].level
  BY SegmentsLevelSet DEF HeldInv
<1> HIDE DEF picked
<1>7. Consistent(folded) /\ folded.segments = picked.segments
  BY <1>6, SegmentsLeft
<1> HIDE DEF a, carried, folded
<1>8. Write(<<a>>, a, a)
  BY <1>4 DEF Write, Fair, Plain
<1>9. ASSUME Acked(<<a>>, folded), claimedLevel' = claimedLevel \cup carried, claimed' = claimed
      PROVE  HeldInv'
  <2>1. a # Refused
    BY <1>9, OneFrame
  <2>2. ClaimsHold'
    BY <1>4, <1>5, <1>6, <1>7, <1>9, <2>1, LevelClaims
  <2> QED
    BY <1>7, <1>8, <1>9, <2>2, AckedKeeps
<1> QED
  BY <1>1, <1>8, <1>9, RaisedKeeps

LEMMA SetSegmentColorTempKeeps ==
    ASSUME HeldInv, NEW where, NEW k \in Kelvins, SetSegmentColorTemp(where, k)
    PROVE  HeldInv'
<1> DEFINE a == SegmentColorTemp(where, CheckKelvin(k), profile.scheme, profile.segments,
                                 TintForKelvin(CheckKelvin(k)), profile.white)
           folded == LeavesScene(state)
<1>1. \/ Acked(<<a>>, folded) /\ claimed' = claimed \ where /\ claimedLevel' = claimedLevel
      \/ Raised(<<a>>)
  BY DEF SetSegmentColorTemp
<1>2. a = Refused \/ (Paints(a, InRange) /\ a.mask \subseteq where)
  BY SegmentKelvinSent DEF HeldInv
<1>3. Consistent(folded) /\ folded.segments = state.segments
  BY SegmentsLeft DEF HeldInv
<1> HIDE DEF a, folded
<1>4. Write(<<a>>, a, a)
  BY <1>2 DEF Write, Fair
<1>5. ASSUME Acked(<<a>>, folded), claimed' = claimed \ where, claimedLevel' = claimedLevel
      PROVE  HeldInv'
  <2>1. a # Refused
    BY <1>5, OneFrame
  <2>2. ClaimsHold'
    BY <1>2, <1>3, <1>5, <2>1, KelvinClaims
  <2> QED
    BY <1>3, <1>4, <1>5, <2>2, AckedKeeps
<1> QED
  BY <1>1, <1>4, <1>5, RaisedKeeps

LEMMA SetZoneRgbKeeps ==
    ASSUME HeldInv, NEW z \in Zones, NEW rgb, SetZoneRgb(z, rgb)
    PROVE  HeldInv'
<1> DEFINE where == profile.zones[z]
           a == SegmentRgb(where, rgb, profile.scheme, profile.segments, Span, profile.white)
           kelvin == RgbAsKelvin(rgb, profile.scheme, Span)
           lit == UpdateSegmentsRgb(state, where, rgb)
           picked == LeavesScene(lit)
           k == [b \in {z} |-> kelvin]
           folded == ApplyZoneKelvin(picked, k)
<1>1. /\ profile.pick
      /\ \/ Acked(<<a>>, folded) /\ claimed' = claimed \cup where /\ claimedLevel' = claimedLevel
         \/ Raised(<<a>>)
  BY DEF SetZoneRgb
<1>2. /\ where \subseteq Pieces /\ where \subseteq Nat /\ profile.segments \in Nat
      /\ \A i \in where : i < profile.segments /\ i < MaskPositions(profile.segments, ColourMaskCap)
  BY <1>1, ProfileFacts DEF HeldInv, RevisionOk
<1>3. \A i \in DOMAIN k : k[i] \in Int
  <2>1. kelvin \in Int
    BY PickedKelvin
  <2> HIDE DEF kelvin
  <2> QED
    BY <2>1
<1> HIDE DEF where, kelvin, k
<1>4. \/ a = Refused
      \/ /\ Paints(a, InRange) /\ Look(a).shown = rgb
         /\ a.mask = IF profile.scheme = "h60a6" THEN MaskBits(where, profile.segments, ColourMaskCap) ELSE where
  BY SegmentRgbFrame DEF HeldInv
<1>5. MaskBits(where, profile.segments, ColourMaskCap) = where
  <2>1. {i \in where : i < MaskPositions(profile.segments, ColourMaskCap)}
           = MaskBits(where, profile.segments, ColourMaskCap)
    BY <1>2, ReachCarried
  <2> QED
    BY <1>2, <2>1
<1>6. /\ Consistent(lit)
      /\ \A i \in Positions : /\ lit.segments[i].level = state.segments[i].level
                              /\ lit.segments[i].rgb = IF i \in where THEN rgb ELSE state.segments[i].rgb
  BY SegmentsRgbSet DEF HeldInv
<1> HIDE DEF lit
<1>7. Consistent(picked) /\ picked.segments = lit.segments /\ picked.scene = 0
  BY <1>6, SegmentsLeft
<1> HIDE DEF picked
<1>8. Consistent(folded) /\ folded.segments = lit.segments
  BY <1>3, <1>7, ZoneFolds DEF Folds
<1> HIDE DEF a, folded
<1>9. Write(<<a>>, a, a)
  BY <1>4 DEF Write, Fair
<1>10. ASSUME Acked(<<a>>, folded), claimed' = claimed \cup where, claimedLevel' = claimedLevel
       PROVE  HeldInv'
  <2>1. a # Refused
    BY <1>10, OneFrame
  <2>2. Paints(a, InRange) /\ Look(a).shown = rgb /\ a.mask = where
    BY <1>4, <1>5, <2>1
  <2>3. ClaimsHold'
    <3>1. \A i \in Positions : /\ folded.segments[i].level = state.segments[i].level
                               /\ folded.segments[i].rgb = IF i \in where THEN rgb ELSE state.segments[i].rgb
      BY <1>6, <1>8
    <3>2. where \subseteq Pieces
      BY <1>2
    <3> QED
      BY <1>10, <2>2, <3>1, <3>2, ColourClaims
  <2> QED
    BY <1>8, <1>9, <1>10, <2>3, AckedKeeps
<1> QED
  BY <1>1, <1>9, <1>10, RaisedKeeps

LEMMA SetZoneColorTempKeeps ==
    ASSUME HeldInv, NEW z \in Zones, NEW k \in Kelvins, SetZoneColorTemp(z, k)
    PROVE  HeldInv'
<1> DEFINE where == profile.zones[z]
           a == SegmentColorTemp(where, CheckKelvin(k), profile.scheme, profile.segments,
                                 TintForKelvin(CheckKelvin(k)), profile.white)
           picked == LeavesScene(state)
           bars == [b \in {z} |-> CheckKelvin(k)]
           folded == ApplyZoneKelvin(picked, bars)
<1>1. \/ Acked(<<a>>, folded) /\ claimed' = claimed \ where /\ claimedLevel' = claimedLevel
      \/ Raised(<<a>>)
  BY DEF SetZoneColorTemp
<1>2. a = Refused \/ (Paints(a, InRange) /\ a.mask \subseteq where)
  BY SegmentKelvinSent DEF HeldInv
<1>3. \A i \in DOMAIN bars : bars[i] \in Int
  BY CheckInRange, ColourStateAssumption DEF HeldInv
<1>4. Consistent(picked) /\ picked.segments = state.segments /\ picked.scene = 0
  BY SegmentsLeft DEF HeldInv
<1> HIDE DEF bars, picked
<1>5. Consistent(folded) /\ folded.segments = state.segments
  BY <1>3, <1>4, ZoneFolds DEF Folds
<1> HIDE DEF a, folded, where
<1>6. Write(<<a>>, a, a)
  BY <1>2 DEF Write, Fair
<1>7. ASSUME Acked(<<a>>, folded), claimed' = claimed \ where, claimedLevel' = claimedLevel
      PROVE  HeldInv'
  <2>1. a # Refused
    BY <1>7, OneFrame
  <2>2. ClaimsHold'
    BY <1>2, <1>5, <1>7, <2>1, KelvinClaims
  <2> QED
    BY <1>5, <1>6, <1>7, <2>2, AckedKeeps
<1> QED
  BY <1>1, <1>6, <1>7, RaisedKeeps

-----------------------------------------------------------------------------
(* Reads, and what is not ours.                                            *)

\* A read changes neither the light nor the revision, and sends no Kelvin.
LEMMA ReadKeeps ==
    ASSUME HeldInv, UNCHANGED <<profile, real, known, light>>, sent' = 0, Consistent(state'),
           claimed' \subseteq Pieces, claimedLevel' \subseteq Pieces,
           \A i \in claimed' : state'.segments[i].rgb = light.look[i].shown,
           \A i \in claimedLevel' : state'.segments[i].level = light.piece[i]
    PROVE  HeldInv'
<1>1. RevisionOk' /\ SentInRange'
  BY Unlearnt, SentOk, ZeroInRange DEF HeldInv
<1>2. LightOk(light)'
  BY DEF HeldInv, LightOk
<1>3. Consistent(state)'
  BY DEF Consistent, StateOk, Fields, SegmentsOk, Exclusive, Remembered
<1>4. ClaimsHold'
  BY DEF ClaimsHold, SegmentsClaimed, Pieces
<1> QED
  BY <1>1, <1>2, <1>3, <1>4 DEF HeldInv

\* A mode report is folded over a state whose segments are claimed.
LEMMA ModeClaims ==
    ASSUME RevisionOk, LightOk(light), NEW s, Consistent(s), NEW r \in Reports(light),
           NEW where \in SUBSET Pieces, NEW levels \in SUBSET Pieces,
           \A i \in where : s.segments[i].rgb = light.look[i].shown,
           \A i \in levels : s.segments[i].level = light.piece[i]
    PROVE  /\ Consistent(ApplyMode(s, r))
           /\ \A i \in where : ApplyMode(s, r).segments[i].rgb = light.look[i].shown
           /\ \A i \in levels : ApplyMode(s, r).segments[i].level = light.piece[i]
<1>1. /\ profile.decode \in Layouts /\ BarsReportPairs(profile) /\ profile.at \subseteq Positions
      /\ \A z \in Zones : profile.zones[z] \subseteq Positions
      /\ Pieces \subseteq Positions
  BY ProfileFacts DEF RevisionOk
<1>2. /\ Consistent(ApplyMode(s, r))
      /\ \A i \in Positions : ApplyMode(s, r).segments[i] \in {s.segments[i], Segment(light, i)}
  BY <1>1, ModeFolds
<1>3. \A i \in Positions : Segment(light, i).rgb = light.look[i].shown /\ Segment(light, i).level = light.piece[i]
  BY DEF Segment
<1>4. ASSUME NEW i \in where
      PROVE  ApplyMode(s, r).segments[i].rgb = light.look[i].shown
  <2>1. i \in Positions /\ s.segments[i].rgb = light.look[i].shown
    BY <1>1, <1>4
  <2> QED
    BY <1>2, <1>3, <2>1
<1>5. ASSUME NEW i \in levels
      PROVE  ApplyMode(s, r).segments[i].level = light.piece[i]
  <2>1. i \in Positions /\ s.segments[i].level = light.piece[i]
    BY <1>1, <1>5
  <2> QED
    BY <1>2, <1>3, <2>1
<1> QED
  BY <1>2, <1>4, <1>5

LEMMA ReadModeKeeps ==
    ASSUME HeldInv, ReadMode
    PROVE  HeldInv'
<1>1. PICK r \in Reports(light) : state' = ApplyMode(state, r)
  BY DEF ReadMode
<1>2. UNCHANGED <<profile, real, known, light>> /\ sent' = 0 /\ claimed' = claimed /\ claimedLevel' = claimedLevel
  BY DEF ReadMode
<1>3. /\ RevisionOk /\ LightOk(light) /\ Consistent(state) /\ claimed \in SUBSET Pieces /\ claimedLevel \in SUBSET Pieces
      /\ \A i \in claimed : state.segments[i].rgb = light.look[i].shown
      /\ \A i \in claimedLevel : state.segments[i].level = light.piece[i]
  BY DEF HeldInv, ClaimsHold, SegmentsClaimed
<1>4. /\ Consistent(ApplyMode(state, r))
      /\ \A i \in claimed : ApplyMode(state, r).segments[i].rgb = light.look[i].shown
      /\ \A i \in claimedLevel : ApplyMode(state, r).segments[i].level = light.piece[i]
  BY <1>3, ModeClaims
<1>5. Consistent(state')
  BY <1>1, <1>4
<1> QED
  BY <1>1, <1>2, <1>3, <1>4, <1>5, ReadKeeps

LEMMA ReadBrightnessKeeps ==
    ASSUME HeldInv, ReadBrightness
    PROVE  HeldInv'
<1> DEFINE level == BrightnessPct(profile, light.level, known.pact)
           lit == [state EXCEPT !.level = level]
<1>1. Folds(lit, state)
  BY LevelFolds DEF HeldInv
<1>2. /\ UNCHANGED <<profile, real, known, light>> /\ sent' = 0 /\ claimed' = claimed /\ claimedLevel' = claimedLevel
      /\ state' = lit
  BY DEF ReadBrightness
<1> HIDE DEF lit
<1>3. Consistent(state') /\ state'.segments = state.segments
  BY <1>1, <1>2 DEF Folds
<1> QED
  BY <1>2, <1>3, ReadKeeps DEF HeldInv, ClaimsHold, SegmentsClaimed

LEMMA ReadSegmentsKeeps ==
    ASSUME HeldInv, ReadSegments
    PROVE  HeldInv'
<1> DEFINE segments == [i \in Positions |-> IF i \in Pieces THEN Segment(light, i) ELSE NoSegment]
<1>1. /\ UNCHANGED <<profile, real, known, light>> /\ sent' = 0 /\ claimed' = Pieces /\ claimedLevel' = Pieces
      /\ state' = Segmented(state, segments)
  BY DEF ReadSegments, Segmented
<1>2. \A i \in Positions : IsSegment(segments[i])
  BY DEF IsSegment, Segment, NoSegment
<1>3. segments = [i \in Positions |-> segments[i]]
  OBVIOUS
<1>4. \A i \in Pieces : segments[i].rgb = light.look[i].shown /\ segments[i].level = light.piece[i]
  BY ProfileFacts DEF HeldInv, RevisionOk, Segment
<1> HIDE DEF segments
<1>5. SegmentsOk(segments)
  <2>1. \A i \in Positions : segments[i] = [rgb |-> segments[i].rgb, level |-> segments[i].level]
    BY <1>2 DEF IsSegment
  <2> QED
    BY <1>3, <2>1 DEF SegmentsOk
<1>6. Consistent(state') /\ state'.segments = segments
  BY <1>1, <1>5, SegmentsSet DEF HeldInv
<1> QED
  BY <1>1, <1>4, <1>6, ReadKeeps

LEMMA ReadStatusKeeps ==
    ASSUME HeldInv, ReadStatus
    PROVE  HeldInv'
<1>1. PICK n \in Pieces \cup {-1}, r \in Reports(light) :
         LET prefix == {i \in Pieces : i <= n}
             lit == [state EXCEPT !.level = BrightnessPct(profile, light.level, known.pact)]
         IN  /\ state' = ApplyMode(MergeSegments(lit, [i \in prefix |-> Segment(light, i)]), r)
             /\ claimed' = claimed \cup prefix /\ claimedLevel' = claimedLevel \cup prefix
             /\ sent' = 0 /\ UNCHANGED <<profile, real, known, light>>
  BY DEF ReadStatus
<1> DEFINE prefix == {i \in Pieces : i <= n}
           level == BrightnessPct(profile, light.level, known.pact)
           lit == [state EXCEPT !.level = level]
           reported == [i \in prefix |-> Segment(light, i)]
           merged == MergeSegments(lit, reported)
<1>2. /\ state' = ApplyMode(merged, r)
      /\ claimed' = claimed \cup prefix /\ claimedLevel' = claimedLevel \cup prefix
      /\ sent' = 0 /\ UNCHANGED <<profile, real, known, light>>
  BY <1>1
<1>3. Consistent(lit) /\ lit.segments = state.segments
  BY LevelFolds DEF HeldInv, Folds
<1>4. prefix \subseteq Pieces
  OBVIOUS
<1> HIDE DEF prefix, lit
<1>5. DOMAIN reported = prefix /\ \A i \in prefix : reported[i] = Segment(light, i)
  OBVIOUS
<1> HIDE DEF reported
<1>6. \A i \in DOMAIN reported : IsSegment(reported[i])
  BY <1>5 DEF IsSegment, Segment
<1>7. /\ Consistent(merged)
      /\ \A i \in Positions : merged.segments[i] = IF i \in DOMAIN reported THEN reported[i] ELSE lit.segments[i]
  BY <1>3, <1>6, SegmentsMerged
<1> HIDE DEF merged
<1>8. /\ RevisionOk /\ LightOk(light) /\ claimed \subseteq Pieces /\ claimedLevel \subseteq Pieces
      /\ \A i \in claimed : state.segments[i].rgb = light.look[i].shown
      /\ \A i \in claimedLevel : state.segments[i].level = light.piece[i]
  BY DEF HeldInv, ClaimsHold, SegmentsClaimed
<1>9. Pieces \subseteq Positions
  BY <1>8, ProfileFacts DEF RevisionOk
<1>10. \A i \in Positions : Segment(light, i).rgb = light.look[i].shown /\ Segment(light, i).level = light.piece[i]
  BY DEF Segment
<1>11. \A i \in claimed' : merged.segments[i].rgb = light.look[i].shown
  <2> TAKE i \in claimed'
  <2>1. i \in Positions
    BY <1>2, <1>4, <1>8, <1>9
  <2>2. CASE i \in prefix
    BY <1>5, <1>7, <1>10, <2>1, <2>2
  <2>3. CASE i \notin prefix
    BY <1>2, <1>3, <1>5, <1>7, <1>8, <2>1, <2>3
  <2> QED
    BY <2>2, <2>3
<1>12. \A i \in claimedLevel' : merged.segments[i].level = light.piece[i]
  <2> TAKE i \in claimedLevel'
  <2>1. i \in Positions
    BY <1>2, <1>4, <1>8, <1>9
  <2>2. CASE i \in prefix
    BY <1>5, <1>7, <1>10, <2>1, <2>2
  <2>3. CASE i \notin prefix
    BY <1>2, <1>3, <1>5, <1>7, <1>8, <2>1, <2>3
  <2> QED
    BY <2>2, <2>3
<1>13. claimed' \in SUBSET Pieces /\ claimedLevel' \in SUBSET Pieces
  BY <1>2, <1>4, <1>8
<1>14. /\ Consistent(ApplyMode(merged, r))
       /\ \A i \in claimed' : ApplyMode(merged, r).segments[i].rgb = light.look[i].shown
       /\ \A i \in claimedLevel' : ApplyMode(merged, r).segments[i].level = light.piece[i]
  BY <1>7, <1>8, <1>11, <1>12, <1>13, ModeClaims
<1>15. Consistent(state')
  BY <1>2, <1>14
<1> QED
  BY <1>2, <1>13, <1>14, <1>15, ReadKeeps

\* The revision is learnt: the range in force narrows, and what was sent was inside both.
LEMMA LearnKeeps ==
    ASSUME HeldInv, LearnPact \/ LearnVersion
    PROVE  HeldInv'
<1>1. UNCHANGED <<profile, real, state, light, claimed, claimedLevel>> /\ sent' = 0
  BY DEF LearnPact, LearnVersion, history
<1>2. RevisionOk'
  <2>1. CASE LearnPact
    <3>1. known' = [known EXCEPT !.pact = real.pact] /\ known = [version |-> known.version, pact |-> known.pact]
      BY <2>1 DEF LearnPact, HeldInv, RevisionOk
    <3>2. known' = [version |-> known.version, pact |-> real.pact]
      BY <3>1
    <3> QED
      BY <1>1, <3>2 DEF HeldInv, RevisionOk
  <2>2. CASE LearnVersion
    <3>1. known' = [known EXCEPT !.version = real.version] /\ known = [version |-> known.version, pact |-> known.pact]
      BY <2>2 DEF LearnVersion, HeldInv, RevisionOk
    <3>2. known' = [version |-> real.version, pact |-> known.pact]
      BY <3>1
    <3> QED
      BY <1>1, <3>2 DEF HeldInv, RevisionOk
  <2> QED
    BY <2>1, <2>2
<1>3. SentInRange'
  BY <1>1, SentOk, ZeroInRange DEF HeldInv
<1>4. LightOk(light)'
  BY <1>1 DEF HeldInv, LightOk
<1>5. Consistent(state)'
  BY <1>1 DEF HeldInv, Consistent, StateOk, Fields, SegmentsOk, Exclusive, Remembered
<1>6. ClaimsHold'
  BY <1>1 DEF HeldInv, ClaimsHold, SegmentsClaimed, Pieces
<1> QED
  BY <1>2, <1>3, <1>4, <1>5, <1>6 DEF HeldInv

\* Another controller changes the light, and no claim of ours survives it.
LEMMA ElsewhereKeeps ==
    ASSUME HeldInv, Elsewhere
    PROVE  HeldInv'
<1>1. UNCHANGED <<profile, real, known, state, claimedLevel>> /\ claimed' = {} /\ sent' = 0
  BY DEF Elsewhere
<1>2. light = [level |-> light.level, look |-> light.look, piece |-> light.piece, scene |-> light.scene]
  BY DEF HeldInv, LightOk
<1>3. LightOk(light') /\ light'.piece = light.piece
  <2>1. ASSUME NEW c, light' = [light EXCEPT !.scene = 0, !.look = [i \in Positions |->
                                    IF i \in Pieces THEN [kelvin |-> 0, shown |-> c] ELSE @[i]]]
        PROVE  LightOk(light') /\ light'.piece = light.piece
    <3> DEFINE look == [i \in Positions |-> IF i \in Pieces THEN [kelvin |-> 0, shown |-> c] ELSE light.look[i]]
    <3>1. light' = [light EXCEPT !.scene = 0, !.look = look]
      BY <1>2, <2>1
    <3>2. look = [i \in Positions |-> look[i]]
      OBVIOUS
    <3>3. \A i \in Positions : look[i].kelvin \in Nat
      BY DEF HeldInv, LightOk
    <3> HIDE DEF look
    <3>4. light' = [level |-> light.level, look |-> look, piece |-> light.piece, scene |-> 0]
      BY <1>2, <3>1
    <3>5. light'.look = look /\ light'.piece = light.piece /\ light'.level = light.level /\ light'.scene = 0
      BY <3>4
    <3> QED
      BY <3>2, <3>3, <3>4, <3>5 DEF HeldInv, LightOk
  <2>2. ASSUME NEW code, light' = [light EXCEPT !.scene = code]
        PROVE  LightOk(light') /\ light'.piece = light.piece
    <3>1. light' = [level |-> light.level, look |-> light.look, piece |-> light.piece, scene |-> code]
      BY <1>2, <2>2
    <3>2. /\ light'.look = light.look /\ light'.piece = light.piece /\ light'.level = light.level
          /\ light'.scene = code
      BY <3>1
    <3> QED
      BY <3>1, <3>2 DEF HeldInv, LightOk
  <2> QED
    BY <2>1, <2>2 DEF Elsewhere
<1>4. RevisionOk' /\ SentInRange'
  BY <1>1, Unlearnt, SentOk, ZeroInRange DEF HeldInv
<1>5. LightOk(light)'
  BY <1>3 DEF LightOk
<1>6. Consistent(state)'
  BY <1>1 DEF HeldInv, Consistent, StateOk, Fields, SegmentsOk, Exclusive, Remembered
<1>7. ClaimsHold'
  BY <1>1, <1>3 DEF HeldInv, ClaimsHold, SegmentsClaimed, Pieces
<1> QED
  BY <1>4, <1>5, <1>6, <1>7 DEF HeldInv

LEMMA HeldInitially ==
    ASSUME Init
    PROVE  HeldInv
<1>1. RevisionOk
  <2>1. real \in [version : Versions, pact : Pacts] /\ known = [version |-> 0, pact |-> 0] /\ profile \in Profiles
    BY DEF Init
  <2> QED
    BY <2>1 DEF RevisionOk
<1>2. LightOk(light)
  <2>1. light = [level |-> 100, look |-> [i \in Positions |-> [kelvin |-> 0, shown |-> Black]],
                 piece |-> [i \in Positions |-> 100], scene |-> 0]
    BY DEF Init
  <2> DEFINE look == [i \in Positions |-> [kelvin |-> 0, shown |-> Black]]
             piece == [i \in Positions |-> 100]
  <2>2. /\ \A i \in Positions : look[i].kelvin \in Nat
        /\ look = [i \in Positions |-> look[i]] /\ piece = [i \in Positions |-> piece[i]]
    OBVIOUS
  <2> HIDE DEF look, piece
  <2>3. light = [level |-> 100, look |-> look, piece |-> piece, scene |-> 0]
    BY <2>1 DEF look, piece
  <2>4. light.look = look /\ light.piece = piece /\ light.level = 100 /\ light.scene = 0
    BY <2>3
  <2> QED
    BY <2>2, <2>3, <2>4 DEF LightOk
<1>3. Consistent(state)
  <2> DEFINE segments == [i \in Positions |-> NoSegment]
             zone == NoZone
  <2>1. state = [level |-> Unknown, rgb |-> NoColour, kelvin |-> 0, last |-> 0, scene |-> 0, zone |-> zone,
                 segments |-> segments]
    BY DEF Init
  <2>2. SegmentsOk(segments)
    BY DEF SegmentsOk, NoSegment
  <2>3. zone \in [Zones -> Nat] /\ zone[0] = 0 /\ zone[1] = 0
    BY DEF NoZone, Zones
  <2> HIDE DEF segments, zone
  <2>4. /\ state.level = Unknown /\ state.rgb = NoColour /\ state.kelvin = 0 /\ state.last = 0 /\ state.scene = 0
        /\ state.zone = zone /\ state.segments = segments
    BY <2>1
  <2>5. Fields(state)
    BY <2>1, <2>4 DEF Fields
  <2>6. StateOk(state)
    BY <2>2, <2>3, <2>4, <2>5 DEF StateOk
  <2> QED
    BY <2>3, <2>4, <2>6 DEF Consistent, Exclusive, Remembered
<1>4. ClaimsHold /\ SentInRange
  BY DEF Init, ClaimsHold, SegmentsClaimed, SentInRange
<1> QED
  BY <1>1, <1>2, <1>3, <1>4 DEF HeldInv

LEMMA HeldStep ==
    ASSUME HeldInv, [Next]_vars
    PROVE  HeldInv'
<1>1. CASE Setters
  <2>1. ASSUME NEW pct \in Levels, SetBrightness(pct) PROVE HeldInv'
    BY <2>1, SetBrightnessKeeps
  <2>2. ASSUME NEW c \in Colours, SetRgb(c) PROVE HeldInv'
    BY <2>2, SetRgbKeeps
  <2>3. ASSUME NEW k \in Kelvins, SetColorTemp(k) PROVE HeldInv'
    BY <2>3, SetColorTempKeeps
  <2>4. ASSUME NEW pct \in Levels, NEW c \in Colours, TurnOnRgb(pct, c) PROVE HeldInv'
    BY <2>4, TurnOnRgbKeeps
  <2>5. ASSUME NEW pct \in Levels, NEW k \in Kelvins, TurnOnKelvin(pct, k) PROVE HeldInv'
    BY <2>5, TurnOnKelvinKeeps
  <2>6. ASSUME NEW code \in Codes, SetScene(code) PROVE HeldInv'
    BY <2>6, SetSceneKeeps
  <2> QED
    BY <1>1, <2>1, <2>2, <2>3, <2>4, <2>5, <2>6 DEF Setters
<1>2. CASE PieceSetters
  <2>1. \A x \in Picks : x \subseteq Pieces
    BY DEF Picks
  <2>2. ASSUME NEW x \in Picks, NEW c \in Colours, SetSegmentRgb(x, c) PROVE HeldInv'
    BY <2>1, <2>2, SetSegmentRgbKeeps
  <2>3. ASSUME NEW x \in Picks, NEW pct \in Levels, SetSegmentBrightness(x, pct) PROVE HeldInv'
    BY <2>1, <2>3, SetSegmentBrightnessKeeps
  <2>4. ASSUME NEW x \in Picks, NEW k \in Kelvins, SetSegmentColorTemp(x, k) PROVE HeldInv'
    BY <2>4, SetSegmentColorTempKeeps
  <2>5. ASSUME NEW z \in Zones, NEW c \in Colours, SetZoneRgb(z, c) PROVE HeldInv'
    BY <2>5, SetZoneRgbKeeps
  <2>6. ASSUME NEW z \in Zones, NEW k \in Kelvins, SetZoneColorTemp(z, k) PROVE HeldInv'
    BY <2>6, SetZoneColorTempKeeps
  <2> QED
    BY <1>2, <2>2, <2>3, <2>4, <2>5, <2>6 DEF PieceSetters
<1>3. CASE Reads
  BY <1>3, ReadModeKeeps, ReadBrightnessKeeps, ReadSegmentsKeeps, ReadStatusKeeps DEF Reads
<1>4. CASE LearnPact \/ LearnVersion
  BY <1>4, LearnKeeps
<1>5. CASE Elsewhere
  BY <1>5, ElsewhereKeeps
<1>6. CASE UNCHANGED vars
  <2>1. UNCHANGED <<profile, real, known, state, light, claimed, claimedLevel, sent>>
    BY <1>6 DEF vars
  <2>2. RevisionOk' /\ SentInRange'
    BY <2>1 DEF HeldInv, RevisionOk, SentInRange
  <2>3. LightOk(light)'
    BY <2>1 DEF HeldInv, LightOk
  <2>4. Consistent(state)'
    BY <2>1 DEF HeldInv, Consistent, StateOk, Fields, SegmentsOk, Exclusive, Remembered
  <2>5. ClaimsHold'
    BY <2>1 DEF HeldInv, ClaimsHold, SegmentsClaimed, Pieces
  <2> QED
    BY <2>2, <2>3, <2>4, <2>5 DEF HeldInv
<1> QED
  BY <1>1, <1>2, <1>3, <1>4, <1>5, <1>6 DEF Next

\* The colour, the colour temperature and the scene held exclude one another, and the Kelvin held is
\* the one remembered, for every profile the library accepts (_fold.py).
THEOREM ColourAlwaysConsistent == Spec => []ColourConsistent
<1>1. Init => HeldInv
  BY HeldInitially
<1>2. HeldInv /\ [Next]_vars => HeldInv'
  BY HeldStep
<1>3. HeldInv => ColourConsistent
  BY DEF HeldInv, Consistent, Exclusive, Remembered, ColourConsistent
<1> QED
  BY <1>1, <1>2, <1>3, PTL DEF Spec

\* No segment colour or brightness is held of a write whose frame did not carry it (Device._carried).
THEOREM SegmentsAlwaysClaimed == Spec => []SegmentsClaimed
<1>1. Init => HeldInv
  BY HeldInitially
<1>2. HeldInv /\ [Next]_vars => HeldInv'
  BY HeldStep
<1>3. HeldInv => SegmentsClaimed
  BY DEF HeldInv, ClaimsHold
<1> QED
  BY <1>1, <1>2, <1>3, PTL DEF Spec

\* Every Kelvin sent is one the device in hand has, whatever of its version and pact is known
\* (kelvin_range, Device._check_kelvin, build.rgb_as_kelvin).
THEOREM SentAlwaysInRange == Spec => []SentInRange
<1>1. Init => HeldInv
  BY HeldInitially
<1>2. HeldInv /\ [Next]_vars => HeldInv'
  BY HeldStep
<1>3. HeldInv => SentInRange
  BY DEF HeldInv
<1> QED
  BY <1>1, <1>2, <1>3, PTL DEF Spec

-----------------------------------------------------------------------------
(* The brightness: what a percent is sent as reads back as that percent.   *)

LEMMA Quotient ==
    ASSUME NEW a \in Nat, NEW d \in Nat, NEW m \in Nat, d > 0, m * d <= a, a < m * d + d
    PROVE  a \div d = m
<1> DEFINE q == a \div d
<1>1. q \in Int /\ d * q <= a /\ a < d * q + d
  OBVIOUS
<1> HIDE DEF q
<1>2. m * d = d * m /\ d * m \in Int /\ d * q \in Int
  BY <1>1
<1>3. ASSUME q < m PROVE FALSE
  <2>1. q + 1 <= m
    BY <1>1, <1>3
  <2>2. d * (q + 1) <= d * m
    BY <1>1, <2>1
  <2>3. d * (q + 1) = d * q + d
    BY <1>1
  <2> QED
    BY <1>1, <1>2, <2>2, <2>3
<1>4. ASSUME m < q PROVE FALSE
  <2>1. m + 1 <= q
    BY <1>1, <1>4
  <2>2. d * (m + 1) <= d * q
    BY <1>1, <2>1
  <2>3. d * (m + 1) = d * m + d
    OBVIOUS
  <2> QED
    BY <1>1, <1>2, <2>2, <2>3
<1>5. q = m
  BY <1>1, <1>3, <1>4
<1> QED
  BY <1>5 DEF q

LEMMA ClampInside ==
    ASSUME NEW x \in Int, NEW lo \in Int, NEW hi \in Int, lo <= x, x <= hi
    PROVE  Clamp(x, lo, hi) = x
<1>1. Min({x, hi}) = x
  BY DEF Min
<1>2. Max({lo, x}) = x
  BY DEF Max
<1> QED
  BY <1>1, <1>2 DEF Clamp

\* A range of levels that sends 100 % inside it.
Wide(span) == span \in Nat \X Nat /\ span[2] - span[1] >= 198

LEMMA RawBack ==
    ASSUME NEW span, Wide(span), NEW pct \in 1 .. 100
    PROVE  /\ PercentToRaw(pct, span) \in span[1] .. span[2]
           /\ RawToPercent(PercentToRaw(pct, span), span) = pct
<1>1. PICK lo \in Nat, hi \in Nat : span = <<lo, hi>> /\ hi - lo >= 198
  BY DEF Wide
<1>2. span # <<1, 100>> /\ span[1] = lo /\ span[2] = hi
  BY <1>1
<1> DEFINE d == hi - lo + 3
           m == pct - 1
           x == m * d
           q == x \div 100
           raw == lo + q
<1>3. PercentToRaw(pct, span) = raw
  <2>1. Clamp(pct, 1, 100) = pct
    BY ClampInside
  <2> QED
    BY <1>2, <2>1 DEF PercentToRaw
<1>4. d \in Nat /\ d >= 201 /\ d = hi - lo + 3 /\ m \in 0 .. 99 /\ pct = m + 1
  BY <1>1
<1> HIDE DEF d, m
<1>5. x \in Nat /\ x <= 99 * d
  BY <1>4
<1> HIDE DEF x
<1>6. q \in Nat /\ 100 * q <= x /\ x <= 100 * q + 99
  BY <1>5
<1> HIDE DEF q
<1>7. q <= d - 3
  BY <1>4, <1>5, <1>6
<1>8. raw \in lo .. hi /\ raw - lo = q
  BY <1>1, <1>4, <1>6, <1>7
<1> HIDE DEF raw
<1>9. Clamp(raw, lo, hi) = raw
  BY <1>8, ClampInside
<1>10. CeilDiv(100 * q, d) = m
  <2> DEFINE a == 100 * q + d - 1
  <2>1. a \in Nat /\ m * d <= a /\ a < m * d + d
    BY <1>4, <1>5, <1>6 DEF x
  <2>2. CeilDiv(100 * q, d) = a \div d
    BY DEF CeilDiv
  <2> HIDE DEF a
  <2> QED
    BY <1>4, <2>1, <2>2, Quotient
<1>11. RawToPercent(raw, span) = Clamp(CeilDiv(100 * (raw - lo), hi - lo + 3) + 1, 1, 100)
  BY <1>2, <1>9 DEF RawToPercent
<1>12. RawToPercent(raw, span) = Clamp(pct, 1, 100)
  BY <1>4, <1>8, <1>10, <1>11
<1> QED
  BY <1>2, <1>3, <1>8, <1>12, ClampInside

\* The range of the device in hand.
LevelSpan == BrightnessRange(profile, real.pact)
Legible(span) == span = <<>> \/ span = <<1, 100>> \/ Wide(span)

LEMMA LevelSpanIs ==
    ASSUME RevisionOk, TellsBack(profile)
    PROVE  /\ Legible(LevelSpan)
           /\ ~BrightnessPending(profile, known.pact) => BrightnessRange(profile, known.pact) = LevelSpan
<1>1. ValidColours(profile) /\ real.pact \in Nat \ {0}
  BY ProfileFacts, ColourStateAssumption DEF RevisionOk
<1>2. Legible(profile.levels)
  BY <1>1 DEF ValidColours, RawRange, TellsBack, WideLevels, Legible, Wide
<1>3. ASSUME NEW e \in profile.levelByPact
      PROVE  Legible(<<e.lo, e.hi>>)
  <2>1. RawRange(<<e.lo, e.hi>>)
    BY <1>1 DEF ValidColours, CheckRangesByPact
  <2>2. <<e.lo, e.hi>> \in {<<1, 100>>} \/ <<e.lo, e.hi>>[2] - <<e.lo, e.hi>>[1] >= 198
    BY DEF TellsBack, WideLevels
  <2> QED
    BY <2>1, <2>2 DEF RawRange, Legible, Wide
<1> DEFINE keyed == {e \in profile.levelByPact : e.key = real.pact}
<1>4. Legible(LevelSpan)
  <2>1. CASE keyed = {}
    BY <1>2, <2>1 DEF LevelSpan, BrightnessRange
  <2>2. CASE keyed # {}
    <3>1. \A e \in keyed : e.key \in Nat /\ e.key <= real.pact
      BY <1>1
    <3>2. LevelSpan = Chosen(keyed)
      BY <2>2 DEF LevelSpan, BrightnessRange
    <3>3. \E e \in keyed : Chosen(keyed) = <<e.lo, e.hi>>
      <4> HIDE DEF keyed
      <4> QED
        BY <1>1, <2>2, <3>1, ChosenEntry
    <3> QED
      BY <1>3, <3>2, <3>3
  <2> QED
    BY <2>1, <2>2
<1>5. ~BrightnessPending(profile, known.pact) => BrightnessRange(profile, known.pact) = LevelSpan
  BY DEF BrightnessPending, BrightnessRange, LevelSpan, RevisionOk
<1> QED
  BY <1>4, <1>5

\* A level the light has been given: no percent is 0.
LevelOk(level) == level \in Nat /\ (LevelSpan \in {<<>>, <<1, 100>>} => level # 0)

LEMMA PercentRead ==
    ASSUME RevisionOk, TellsBack(profile), ~BrightnessPending(profile, known.pact), NEW level, LevelOk(level)
    PROVE  BrightnessPct(profile, level, known.pact) \in 1 .. 100
<1>1. BrightnessPct(profile, level, known.pact) = IF LevelSpan = <<>> THEN Clamp(level, 0, 100) ELSE RawToPercent(level, LevelSpan)
  BY LevelSpanIs DEF BrightnessPct
<1>2. Legible(LevelSpan)
  BY LevelSpanIs
<1>3. CASE LevelSpan \in {<<>>, <<1, 100>>}
  <2>1. level \in Nat \ {0}
    BY <1>3 DEF LevelOk
  <2>2. Clamp(level, 0, 100) \in 1 .. 100
    BY <2>1 DEF Clamp, Max, Min
  <2> QED
    BY <1>1, <1>3, <2>2 DEF RawToPercent
<1>4. CASE LevelSpan \notin {<<>>, <<1, 100>>}
  <2> DEFINE lo == LevelSpan[1]
             hi == LevelSpan[2]
             c == Clamp(level, lo, hi)
             x == CeilDiv(100 * (c - lo), hi - lo + 3) + 1
  <2>1. lo \in Nat /\ hi \in Nat /\ hi - lo >= 198
    BY <1>2, <1>4 DEF Legible, Wide
  <2>2. RawToPercent(level, LevelSpan) = Clamp(x, 1, 100)
    BY <1>4 DEF RawToPercent
  <2>3. c \in lo .. hi
    <3> HIDE DEF lo, hi
    <3>1. level \in Int /\ lo \in Int /\ hi \in Int /\ lo <= hi
      BY <2>1 DEF LevelOk
    <3> QED
      BY <3>1, ClampBetween
  <2> HIDE DEF lo, hi, c
  <2>4. x \in Int
    BY <2>1, <2>3 DEF CeilDiv
  <2> HIDE DEF x
  <2>5. Clamp(x, 1, 100) \in 1 .. 100
    <3>1. x \in Int /\ 1 \in Int /\ 100 \in Int /\ 1 <= 100
      BY <2>4
    <3> QED
      BY <3>1, ClampBetween
  <2> QED
    BY <1>1, <1>4, <2>2, <2>5
<1> QED
  BY <1>3, <1>4

\* set_brightness: the frame of a percent, which the light reports as that percent.
FairLevel(f) == f.cmd = "brightness" => LevelOk(f.level)

LEMMA LevelSent ==
    ASSUME RevisionOk, TellsBack(profile), NEW pct \in 1 .. 100, NEW f, f = BrightnessFrame(pct), f # Refused
    PROVE  /\ ~BrightnessPending(profile, known.pact)
           /\ f.cmd = "brightness" /\ LevelOk(f.level)
           /\ BrightnessPct(profile, f.level, known.pact) = pct
<1> DEFINE raw == IF LevelSpan = <<>> THEN pct ELSE PercentToRaw(pct, LevelSpan)
<1>1. ~BrightnessPending(profile, known.pact) /\ f = Brightness(raw)
  BY LevelSpanIs DEF BrightnessFrame
<1>2. f.cmd = "brightness" /\ f.level = raw
  BY <1>1 DEF Brightness
<1>3. Legible(LevelSpan)
  BY LevelSpanIs
<1>4. LevelOk(raw)
  <2>1. CASE LevelSpan = <<>>
    BY <2>1 DEF LevelOk
  <2>2. CASE LevelSpan = <<1, 100>>
    <3>1. raw = pct
      BY <2>2, ClampInside DEF PercentToRaw
    <3> QED
      BY <3>1 DEF LevelOk
  <2>3. CASE LevelSpan \notin {<<>>, <<1, 100>>}
    <3>1. Wide(LevelSpan) /\ raw = PercentToRaw(pct, LevelSpan)
      BY <1>3, <2>3 DEF Legible
    <3>2. raw \in LevelSpan[1] .. LevelSpan[2] /\ LevelSpan[1] \in Nat /\ LevelSpan[2] \in Nat
      BY <3>1, RawBack DEF Wide
    <3> HIDE DEF raw
    <3> QED
      BY <2>3, <3>2 DEF LevelOk
  <2> QED
    BY <2>1, <2>2, <2>3
<1>5. BrightnessPct(profile, raw, known.pact) = pct
  <2>1. BrightnessPct(profile, raw, known.pact) = IF LevelSpan = <<>> THEN Clamp(raw, 0, 100) ELSE RawToPercent(raw, LevelSpan)
    BY <1>1, LevelSpanIs DEF BrightnessPct
  <2>2. CASE LevelSpan = <<>>
    BY <2>1, <2>2, ClampInside
  <2>3. CASE LevelSpan = <<1, 100>>
    <3>1. raw = pct
      BY <2>3, ClampInside DEF PercentToRaw
    <3>2. RawToPercent(pct, LevelSpan) = pct
      BY <2>3, ClampInside DEF RawToPercent
    <3> QED
      BY <2>1, <2>3, <3>1, <3>2
  <2>4. CASE LevelSpan \notin {<<>>, <<1, 100>>}
    <3>1. Wide(LevelSpan) /\ raw = PercentToRaw(pct, LevelSpan)
      BY <1>3, <2>4 DEF Legible
    <3> QED
      BY <2>1, <2>4, <3>1, RawBack
  <2> QED
    BY <2>2, <2>3, <2>4
<1> QED
  BY <1>1, <1>2, <1>4, <1>5

-----------------------------------------------------------------------------
(* What a frame of the whole device shows, on everything the mode is of.   *)

\* What a colour frame reaches is what the mode is of.
LEMMA ModedPieces ==
    ASSUME profile \in Profiles, TellsBack(profile)
    PROVE  /\ Moded \subseteq Pieces /\ Moded \subseteq Positions
           /\ profile.scheme \in {"h60a6", "h61a8", "h6061"} =>
                 Moded \subseteq MaskBits(AllSegmentsMask(profile.segments), profile.segments, ColourMaskCap)
           /\ profile.scheme \in {"h60a6", "h61a8", "h6061"} => Moded \subseteq AllSegmentsMask(profile.segments)
           /\ \A z \in Zones : profile.zones[z] \subseteq Moded
<1>1. Moded \subseteq Pieces /\ Moded \subseteq Positions
  BY ProfileFacts DEF Moded, MaskBits
<1>2. profile.scheme \in {"h60a6", "h61a8", "h6061"} => Pieces \subseteq AllSegmentsMask(profile.segments)
  BY ProfileFacts DEF TellsBack, OneLook, AllSegmentsMask, Pieces
<1>3. \A z \in Zones : profile.zones[z] \subseteq Moded
  <2> DEFINE n == MaskPositions(profile.segments, ColourMaskCap)
             w == MaskWidth(profile.segments, ColourMaskCap)
  <2>1. n <= 8 * w /\ n \in Int /\ w \in Int
    <3> DEFINE wide == IF profile.segments <= LegacyMaskSegments THEN 2 ELSE CeilDiv(profile.segments, 8)
    <3>1. w = Min({ColourMaskCap, wide}) /\ wide \in Int /\ ColourMaskCap \in Int
      BY ProfileFacts DEF MaskWidth, CeilDiv, ColourMaskCap, LegacyMaskSegments
    <3> HIDE DEF w, wide
    <3>2. w \in Int
      BY <3>1 DEF Min
    <3>3. n = Min({profile.segments, 8 * w}) /\ profile.segments \in Int
      BY ProfileFacts DEF MaskPositions, w
    <3> HIDE DEF n
    <3> DEFINE b == 8 * w
    <3>4. b \in Int /\ n = Min({profile.segments, b})
      BY <3>2, <3>3
    <3> HIDE DEF b
    <3>5. n \in {profile.segments, b} /\ n <= b
      BY <3>3, <3>4 DEF Min
    <3> QED
      BY <3>2, <3>3, <3>4, <3>5 DEF b
  <2>2. Moded = {i \in Pieces : i < 8 * w}
    BY DEF Moded, MaskBits
  <2> HIDE DEF n, w
  <2>3. \A z \in Zones : \A i \in profile.zones[z] : i \in Pieces /\ i < n /\ i \in Nat
    BY ProfileFacts DEF n
  <2> QED
    BY <2>1, <2>2, <2>3
<1> QED
  BY <1>1, <1>2, <1>3 DEF Moded, MaskBits

\* A colour temperature of every segment, and one of the bars, is sent as it is.
LEMMA KelvinSlot ==
    ASSUME NEW mask, NEW kelvin \in Nat, NEW scheme, NEW segments, NEW tint, NEW whiteType \in WhiteTypes,
           whiteType # "rgb_self_tem_color" \/ AllSegmentsMask(segments) \subseteq mask,
           NEW f, f = SegmentColorTemp(mask, kelvin, scheme, segments, tint, whiteType), f # Refused
    PROVE  /\ Paints(f, {kelvin}) /\ f.mask = MaskBits(mask, segments, ColourMaskCap)
           /\ kelvin # 0 => Look(f).shown = tint
           /\ scheme = "h60a6"
<1> DEFINE slot == WhiteSlot(whiteType, mask, segments, kelvin, tint)
<1>1. scheme = "h60a6" /\ f = Op15Colour(slot[1], slot[2], slot[3], mask, segments)
  BY DEF SegmentColorTemp
<1>2. slot[2] = kelvin /\ slot[3] = tint
  BY DEF WhiteSlot, WhiteTypes
<1> HIDE DEF slot
<1>3. /\ Paints(f, {kelvin}) /\ f.mask = MaskBits(mask, segments, ColourMaskCap)
      /\ Look(f).shown = IF kelvin > 0 THEN tint ELSE slot[1]
  BY <1>1, <1>2, Op15Look
<1> QED
  BY <1>1, <1>3

LEMMA PanelShows ==
    ASSUME NEW rgb, NEW kelvin \in Nat, NEW panels, NEW pieces \in Nat, NEW expandOne \in BOOLEAN,
           H6061Colour(rgb, kelvin, panels, pieces, expandOne) # Refused
    PROVE  LET f == H6061Colour(rgb, kelvin, panels, pieces, expandOne)
           IN  Paints(f, {kelvin}) /\ Look(f).shown = rgb /\ AllSegmentsMask(panels) \subseteq f.mask
<1> DEFINE f == H6061Colour(rgb, kelvin, panels, pieces, expandOne)
           wide == H6061Panels(panels, pieces, expandOne)
<1>1. f = PanelColour(rgb, kelvin, wide) /\ panels \in 1 .. pieces
  BY DEF H6061Colour
<1>2. AllSegmentsMask(panels) \subseteq AllSegmentsMask(wide)
  <2>1. wide = pieces \/ wide = panels
    BY DEF H6061Panels
  <2> HIDE DEF wide
  <2>2. wide \in Nat /\ panels \in Nat /\ panels <= wide
    BY <1>1, <2>1
  <2>3. \A i \in Positions : i < panels => i < wide
    BY <2>2, TintAssumption
  <2> QED
    BY <2>3 DEF AllSegmentsMask
<1> HIDE DEF f, wide
<1>3. f = ColourFrame("15k", rgb, kelvin, Black, AllSegmentsMask(wide))
  BY <1>1 DEF PanelColour
<1>4. f.cmd = "colour" /\ f.mask = AllSegmentsMask(wide) /\ f.form = "15k" /\ f.rgb = rgb /\ f.kelvin = kelvin
  BY <1>3 DEF ColourFrame
<1>5. Look(f) = [kelvin |-> kelvin, shown |-> rgb]
  BY <1>4 DEF Look
<1> QED
  BY <1>2, <1>4, <1>5 DEF Paints, f

LEMMA Bulb0dShows ==
    ASSUME NEW rgb, NEW kelvin \in Nat, NEW tint, NEW f, f = Cct0d(rgb, kelvin, tint)
    PROVE  Paints(f, {kelvin}) /\ Look(f).shown = rgb /\ f.mask = Positions
<1>1. f.cmd = "colour" /\ f.mask = Positions /\ f.form = "0d" /\ f.rgb = rgb /\ f.kelvin = kelvin
  BY DEF Cct0d, ColourFrame
<1>2. Look(f) = [kelvin |-> kelvin, shown |-> rgb]
  BY <1>1 DEF Look
<1> QED
  BY <1>1, <1>2 DEF Paints

LEMMA Legacy02Shows ==
    ASSUME NEW rgb, NEW tint, NEW f, f = Color02(rgb, tint)
    PROVE  /\ Paints(f, IF tint = NoColour THEN {0} ELSE {KelvinForTint(tint)}) /\ f.mask = Positions
           /\ tint = NoColour => Look(f).shown = rgb
<1>1. f = ColourFrame("02", rgb, 0, tint, Positions)
  BY DEF Color02
<1>2. /\ f.cmd = "colour" /\ f.mask = Positions
      /\ Look(f) = IF tint = NoColour THEN [kelvin |-> 0, shown |-> rgb]
                   ELSE [kelvin |-> KelvinForTint(tint), shown |-> tint]
  BY <1>1, ColourFrameLook
<1> QED
  BY <1>2 DEF Paints

\* The whole of the mode shows one Kelvin, or one colour.
Shows(f, kelvin, shown) ==
    /\ Paints(f, {kelvin}) /\ Moded \subseteq f.mask
    /\ kelvin = 0 \/ profile.scheme = "h60a6" => Look(f).shown = shown

\* set_rgb: the colour picked, or the Kelvin it is the tint of.
LEMMA RgbShows ==
    ASSUME profile \in Profiles, TellsBack(profile), NEW rgb, NEW f, f # Refused,
           f = ColorRgbFrames(rgb, profile.scheme, profile.segments, Span, profile.pieces, profile.white)
    PROVE  Shows(f, RgbAsKelvin(rgb, profile.scheme, Span), rgb)
<1> DEFINE kelvin == RgbAsKelvin(rgb, profile.scheme, Span)
           all == AllSegmentsMask(profile.segments)
<1>1. /\ profile.scheme \in Schemes /\ profile.white \in WhiteTypes /\ profile.pieces \in Nat
      /\ Moded \subseteq Positions
  BY ProfileFacts, ModedPieces DEF TellsBack, OneLook
<1>2. kelvin \in Nat /\ (kelvin # 0 => kelvin = KelvinForTint(rgb) /\ profile.scheme \in PickAsKelvinSchemes)
  BY PickedKelvin
<1>3. f = IF kelvin # 0 THEN RgbPickColorTemp(rgb, kelvin, profile.scheme, profile.segments, all, profile.pieces, profile.white)
          ELSE ColorRgb(rgb, profile.scheme, profile.segments, profile.pieces)
  BY DEF ColorRgbFrames
<1> HIDE DEF kelvin, all
<1>4. CASE profile.scheme = "h60a6"
  <2>1. Moded \subseteq MaskBits(all, profile.segments, ColourMaskCap)
    BY <1>4, ModedPieces DEF all
  <2>2. CASE kelvin # 0
    <3>1. f = SegmentColorTemp(all, kelvin, profile.scheme, profile.segments, rgb, profile.white)
      BY <1>2, <1>3, <1>4, <2>2 DEF RgbPickColorTemp
    <3> QED
      BY <1>1, <1>2, <2>1, <2>2, <3>1, KelvinSlot DEF Shows, kelvin, all
  <2>3. CASE kelvin = 0
    <3>1. f = Op15Colour(rgb, 0, Black, all, profile.segments)
      BY <1>3, <1>4, <2>3 DEF ColorRgb, all
    <3>2. Paints(f, {0}) /\ f.mask = MaskBits(all, profile.segments, ColourMaskCap) /\ Look(f).shown = rgb
      BY <3>1, Op15Look
    <3> QED
      BY <2>1, <2>3, <3>2 DEF Shows, kelvin
  <2> QED
    BY <2>2, <2>3
<1>5. CASE profile.scheme \in {"h6006", "h6188"}
  <2>1. \E tint : f = Cct0d(rgb, kelvin, tint)
    BY <1>2, <1>3, <1>5 DEF RgbPickColorTemp, ColorRgb
  <2> QED
    BY <1>1, <1>2, <1>5, <2>1, Bulb0dShows DEF Shows, kelvin
<1>6. CASE profile.scheme = "legacy_02"
  <2>1. CASE kelvin # 0
    <3>1. f = Color02(White, rgb) /\ rgb # NoColour
      BY <1>2, <1>3, <1>6, <2>1, TintFacts DEF RgbPickColorTemp
    <3> QED
      BY <1>1, <1>2, <1>6, <2>1, <3>1, Legacy02Shows DEF Shows, kelvin
  <2>2. CASE kelvin = 0
    <3>1. f = Color02(rgb, NoColour)
      BY <1>3, <1>6, <2>2 DEF ColorRgb
    <3> QED
      BY <1>1, <1>6, <2>2, <3>1, Legacy02Shows DEF Shows, kelvin
  <2> QED
    BY <2>1, <2>2
<1>7. CASE profile.scheme = "h61a8"
  <2>1. kelvin = 0
    BY <1>2, <1>7 DEF PickAsKelvinSchemes
  <2>2. f = Rgbic0b(rgb, all)
    BY <1>3, <1>7, <2>1 DEF ColorRgb, all
  <2>3. Paints(f, {0}) /\ f.mask = all /\ Look(f).shown = rgb
    BY <2>2, Rgbic0bLook
  <2>4. Moded \subseteq all
    BY <1>7, ModedPieces DEF all
  <2> QED
    BY <2>1, <2>3, <2>4 DEF Shows, kelvin
<1>8. CASE profile.scheme = "h6061"
  <2>1. PICK expandOne \in BOOLEAN : f = H6061Colour(rgb, kelvin, profile.segments, profile.pieces, expandOne)
    BY <1>2, <1>3, <1>8 DEF RgbPickColorTemp, ColorRgb, H6061ColorTemp
  <2>2. Paints(f, {kelvin}) /\ Look(f).shown = rgb /\ all \subseteq f.mask
    <3>1. Paints(f, {kelvin}) /\ Look(f).shown = rgb /\ AllSegmentsMask(profile.segments) \subseteq f.mask
      <4>1. profile.pieces \in Nat /\ kelvin \in Nat
        BY <1>1, <1>2
      <4>2. H6061Colour(rgb, kelvin, profile.segments, profile.pieces, expandOne) # Refused
        BY <2>1
      <4> HIDE DEF kelvin
      <4>3. /\ Paints(H6061Colour(rgb, kelvin, profile.segments, profile.pieces, expandOne), {kelvin})
            /\ Look(H6061Colour(rgb, kelvin, profile.segments, profile.pieces, expandOne)).shown = rgb
            /\ AllSegmentsMask(profile.segments)
                   \subseteq H6061Colour(rgb, kelvin, profile.segments, profile.pieces, expandOne).mask
        BY <4>1, <4>2, PanelShows
      <4> QED
        BY <2>1, <4>3
    <3> QED
      BY <3>1 DEF all
  <2>3. Moded \subseteq all
    BY <1>8, ModedPieces DEF all
  <2> QED
    BY <2>2, <2>3 DEF Shows, kelvin
<1>9. CASE profile.scheme = "kelvin_v9"
  <2>1. kelvin = 0
    BY <1>2, <1>9 DEF PickAsKelvinSchemes
  <2> QED
    BY <1>3, <1>9, <2>1 DEF ColorRgb
<1> QED
  BY <1>1, <1>4, <1>5, <1>6, <1>7, <1>8, <1>9 DEF Schemes

\* set_color_temp: the Kelvin asked for, with its tint.
LEMMA KelvinShows ==
    ASSUME profile \in Profiles, TellsBack(profile), NEW kelvin \in Nat, kelvin # 0,
           profile.scheme = "legacy_02" => kelvin \in DOMAIN FirstTint, NEW f, f # Refused,
           f = ColorTemp(kelvin, profile.scheme, profile.segments, profile.pieces, profile.white)
    PROVE  Shows(f, kelvin, TintForKelvin(kelvin))
<1> DEFINE all == AllSegmentsMask(profile.segments)
           tint == TintForKelvin(kelvin)
<1>1. /\ profile.scheme \in Schemes /\ profile.white \in WhiteTypes /\ profile.pieces \in Nat
      /\ Moded \subseteq Positions
  BY ProfileFacts, ModedPieces DEF TellsBack, OneLook
<1>2. CASE profile.scheme = "h60a6"
  <2>1. Moded \subseteq MaskBits(all, profile.segments, ColourMaskCap)
    BY <1>2, ModedPieces
  <2>2. f = SegmentColorTemp(all, kelvin, profile.scheme, profile.segments, tint, profile.white)
    BY <1>2 DEF ColorTemp
  <2> HIDE DEF all, tint
  <2>3. /\ Paints(f, {kelvin}) /\ f.mask = MaskBits(all, profile.segments, ColourMaskCap)
        /\ Look(f).shown = tint
    BY <1>1, <2>2, KelvinSlot DEF all
  <2> QED
    BY <2>1, <2>3 DEF Shows, tint
<1>3. CASE profile.scheme \in {"h6006", "h6188"}
  <2>1. \E rgb : f = Cct0d(rgb, kelvin, tint)
    BY <1>3 DEF ColorTemp
  <2> QED
    BY <1>1, <1>3, <2>1, Bulb0dShows DEF Shows
<1>4. CASE profile.scheme = "legacy_02"
  <2>1. f = Color02(White, tint)
    BY <1>4 DEF ColorTemp
  <2>2. tint # NoColour /\ KelvinForTint(tint) = kelvin
    BY <1>4, TintAssumption DEF TintForKelvin, KelvinForTint
  <2> HIDE DEF tint
  <2>3. Paints(f, {kelvin}) /\ f.mask = Positions
    BY <2>1, <2>2, Legacy02Shows
  <2> QED
    BY <1>1, <1>4, <2>3 DEF Shows
<1>5. CASE profile.scheme = "h6061"
  <2>1. f = H6061Colour(tint, kelvin, profile.segments, profile.pieces, TRUE)
    BY <1>5 DEF ColorTemp, H6061ColorTemp
  <2> HIDE DEF tint
  <2>2. Paints(f, {kelvin}) /\ AllSegmentsMask(profile.segments) \subseteq f.mask
    <3>1. PICK rgb, expandOne : expandOne \in BOOLEAN /\ f = H6061Colour(rgb, kelvin, profile.segments, profile.pieces, expandOne)
      BY <2>1
    <3>2. profile.pieces \in Nat /\ kelvin \in Nat
      BY <1>1
    <3>3. H6061Colour(rgb, kelvin, profile.segments, profile.pieces, expandOne) # Refused
      BY <3>1
    <3> DEFINE g == H6061Colour(rgb, kelvin, profile.segments, profile.pieces, expandOne)
    <3>4. Paints(g, {kelvin}) /\ Look(g).shown = rgb /\ AllSegmentsMask(profile.segments) \subseteq g.mask
      BY <3>1, <3>2, <3>3, PanelShows
    <3>5. f = g
      BY <3>1
    <3> HIDE DEF g
    <3> QED
      BY <3>4, <3>5
  <2>3. Moded \subseteq all
    BY <1>5, ModedPieces
  <2> QED
    BY <1>5, <2>2, <2>3 DEF Shows
<1>6. CASE profile.scheme = "kelvin_v9"
  <2>1. f = ColourFrame("v9", Black, kelvin, Black, Positions)
    BY <1>6 DEF ColorTemp, KelvinV9
  <2>2. f.cmd = "colour" /\ f.mask = Positions /\ Look(f).kelvin = kelvin
    BY <2>1, ColourFrameLook
  <2> QED
    BY <1>1, <1>6, <2>2 DEF Shows, Paints
<1>7. CASE profile.scheme = "h61a8"
  BY <1>7 DEF ColorTemp
<1> QED
  BY <1>1, <1>2, <1>3, <1>4, <1>5, <1>6, <1>7 DEF Schemes

\* The range in force, of a device with a colour temperature: no Kelvin of it is 0.
LEMMA KelvinAsked ==
    ASSUME RevisionOk, TellsBack(profile), profile.colorTemp, NEW k \in Kelvins
    PROVE  /\ CheckKelvin(k) \in Nat \ {0} /\ Span # <<>> /\ CheckKelvin(k) \in Span[1] .. Span[2]
           /\ profile.scheme = "legacy_02" \/ profile.decode = "heads" => CheckKelvin(k) \in DOMAIN FirstTint
<1>1. ValidColours(profile) /\ real.version \in Nat \ {0} /\ real.pact \in Nat \ {0} /\ k \in Nat
  BY ProfileFacts, ColourStateAssumption DEF RevisionOk
<1>2. profile.span # <<>>
  BY DEF TellsBack, PicksTold
<1>3. IsSpan(Span) /\ Within(Span, profile, real.version, real.pact)
  BY <1>1, <1>2, RangeSound DEF RevisionOk, Span
<1>4. Span # <<>>
  BY <1>3 DEF IsSpan
<1>5. NormalizeKelvin(k, Span) \in Nat /\ NormalizeKelvin(k, Span) \in Span[1] .. Span[2]
  BY <1>1, <1>3, <1>4, NormalizedIn
<1>6. Span[1] > 0
  <2> DEFINE own == OwnEntries(profile, real.version, real.pact)
  <2>1. profile.span[1] > 0 /\ profile.span[1] \in Nat /\ Span[1] \in Nat
    BY <1>1, <1>2, <1>3 DEF ValidColours, BaseSpan, IsSpan
  <2>2. \A e \in own : e.lo \in Nat /\ e.lo > 0
    BY <1>1 DEF ValidColours, CheckKelvinByVersion, CheckRangesByPact, Ordered, OwnEntries, NewestMet
  <2>3. IF own = {} THEN profile.span[1] <= Span[1] ELSE \A e \in own : e.lo <= Span[1]
    BY <1>3 DEF Within
  <2> HIDE DEF own
  <2>4. CASE own = {}
    BY <2>1, <2>3, <2>4
  <2>5. CASE own # {}
    <3>1. PICK e \in own : TRUE
      BY <2>5
    <3> QED
      BY <2>1, <2>2, <2>3, <2>5, <3>1
  <2> QED
    BY <2>4, <2>5
<1>7. profile.scheme = "legacy_02" \/ profile.decode = "heads" => CheckKelvin(k) \in DOMAIN FirstTint
  <2>1. known.version \in Versions \cup {0} /\ known.pact \in Pacts \cup {0}
    BY DEF RevisionOk
  <2> QED
    BY <2>1 DEF TellsBack, PicksTold, CheckKelvin, Span
<1>8. Span[1] \in Nat
  BY <1>3 DEF IsSpan
<1> DEFINE kelvin == NormalizeKelvin(k, Span)
<1>9. CheckKelvin(k) = kelvin
  BY DEF CheckKelvin
<1> HIDE DEF kelvin
<1>10. kelvin # 0
  BY <1>5, <1>6, <1>8 DEF kelvin
<1> QED
  BY <1>4, <1>5, <1>7, <1>9, <1>10 DEF kelvin

-----------------------------------------------------------------------------
(* What a report tells, and the state that already holds it.               *)

HeadsColour(r) == IF r.heads[1].rgb = r.heads[2].rgb THEN r.heads[1].rgb ELSE NoColour
HeadsKelvin(r) ==
    IF HeadsColour(r) = NoColour THEN 0
    ELSE RgbAsKelvin(HeadsColour(r), profile.scheme, KelvinRange(profile, known.version, 0))

\* The state holds what a report would fold into it.
Tells(s, r) ==
    CASE r.kind = "scene" -> s.scene = r.code /\ s.rgb = NoColour /\ s.kelvin = 0 /\ (profile.bar => s.zone = NoZone)
      [] r.kind = "pair" -> s.scene = 0 /\ (profile.bar => \A z \in Zones : s.zone[z] = r.kelvins[z])
      [] r.kind = "kelvin" -> s.scene = 0 /\ (r.kelvin > 0 \/ profile.reportsKelvin => s.kelvin = r.kelvin)
      [] r.kind = "colour" -> s.scene = 0 /\ (Reportable(s) => s.rgb = r.rgb /\ s.kelvin = r.kelvin)
      [] r.kind = "heads" -> /\ s.scene = 0 /\ s.kelvin = HeadsKelvin(r)
                             /\ s.rgb = IF HeadsKelvin(r) = 0 THEN HeadsColour(r) ELSE NoColour
      [] r.kind = "none" -> s.scene = 0
TellsAll(s, l) == \A r \in Reports(l) : Tells(s, r)

\* A fold's fields, over the brightness of the state before.
Holds(m, s, rgb, kelvin, scene, zone) ==
    m.level = s.level /\ m.rgb = rgb /\ m.kelvin = kelvin /\ m.scene = scene /\ m.zone = zone

LEMMA RememberHolds ==
    ASSUME NEW s, StateOk(s)
    PROVE  Holds(RememberKelvin(s), s, s.rgb, s.kelvin, s.scene, s.zone)
BY RememberFields DEF Holds

LEMMA TonedHolds ==
    ASSUME NEW s, StateOk(s), NEW rgb, NEW kelvin \in Nat
    PROVE  Holds(RememberKelvin(Toned(s, rgb, kelvin)), s, rgb, kelvin, s.scene, s.zone)
<1> DEFINE r == Toned(s, rgb, kelvin)
<1>1. r = [level |-> s.level, rgb |-> rgb, kelvin |-> kelvin, last |-> s.last, scene |-> s.scene,
           zone |-> s.zone, segments |-> s.segments]
  <2>1. r = [s EXCEPT !.rgb = rgb, !.kelvin = kelvin] /\ Fields(s)
    BY DEF StateOk, Toned
  <2> HIDE DEF r
  <2> QED
    BY <2>1 DEF Fields
<1> HIDE DEF r
<1>2. StateOk(r) /\ Holds(r, s, rgb, kelvin, s.scene, s.zone)
  BY <1>1 DEF StateOk, Fields, Holds
<1> QED
  BY <1>2, RememberHolds DEF Holds, r

LEMMA SceneLeftHolds ==
    ASSUME NEW s, StateOk(s)
    PROVE  StateOk(LeavesScene(s)) /\ Holds(LeavesScene(s), s, s.rgb, s.kelvin, 0, s.zone)
<1> DEFINE r == LeavesScene(s)
<1>1. r = [level |-> s.level, rgb |-> s.rgb, kelvin |-> s.kelvin, last |-> s.last, scene |-> 0,
           zone |-> s.zone, segments |-> s.segments]
  <2>1. r = [s EXCEPT !.scene = 0] /\ Fields(s)
    BY DEF StateOk, LeavesScene
  <2> HIDE DEF r
  <2> QED
    BY <2>1 DEF Fields
<1> HIDE DEF r
<1>2. StateOk(r) /\ Holds(r, s, s.rgb, s.kelvin, 0, s.zone)
  BY <1>1 DEF StateOk, Fields, Holds
<1> QED
  BY <1>2 DEF r

LEMMA LevelHolds ==
    ASSUME NEW s, StateOk(s), NEW level, NEW r, r = [s EXCEPT !.level = level]
    PROVE  StateOk(r) /\ r.level = level /\ r.rgb = s.rgb /\ r.kelvin = s.kelvin /\ r.scene = s.scene /\ r.zone = s.zone
<1>1. r = [level |-> level, rgb |-> s.rgb, kelvin |-> s.kelvin, last |-> s.last, scene |-> s.scene,
           zone |-> s.zone, segments |-> s.segments]
  BY DEF StateOk, Fields
<1> QED
  BY <1>1 DEF StateOk, Fields

LEMMA SegmentedHolds ==
    ASSUME NEW s, StateOk(s), NEW segments, SegmentsOk(segments), NEW r, r = [s EXCEPT !.segments = segments]
    PROVE  StateOk(r) /\ Holds(r, s, s.rgb, s.kelvin, s.scene, s.zone)
<1>1. r = [level |-> s.level, rgb |-> s.rgb, kelvin |-> s.kelvin, last |-> s.last, scene |-> s.scene,
           zone |-> s.zone, segments |-> segments]
  BY DEF StateOk, Fields
<1> QED
  BY <1>1 DEF StateOk, Fields, Holds

LEMMA MergedHolds ==
    ASSUME NEW s, Consistent(s), NEW reported, \A i \in DOMAIN reported : IsSegment(reported[i])
    PROVE  Holds(MergeSegments(s, reported), s, s.rgb, s.kelvin, s.scene, s.zone)
<1> DEFINE merged == [i \in Positions |-> IF i \in DOMAIN reported THEN reported[i] ELSE s.segments[i]]
<1>1. StateOk(s) /\ MergeSegments(s, reported) = [s EXCEPT !.segments = merged]
  BY DEF MergeSegments, Consistent
<1>2. SegmentsOk(merged)
  <2>1. \A i \in Positions : merged[i] = [rgb |-> merged[i].rgb, level |-> merged[i].level]
    BY DEF Consistent, StateOk, SegmentsOk, IsSegment
  <2> HIDE DEF merged
  <2>2. merged = [i \in Positions |-> merged[i]]
    BY DEF merged
  <2> QED
    BY <2>1, <2>2 DEF SegmentsOk
<1> HIDE DEF merged
<1> QED
  BY <1>1, <1>2, SegmentedHolds

\* The bars take the Kelvins given, on a device that has them.
BarsTook(r, s, k) ==
    /\ StateOk(r) /\ r.level = s.level /\ r.scene = s.scene
    /\ profile.bar => /\ \A z \in Zones : r.zone[z] = k[z]
                      /\ r.kelvin = IF k[0] = k[1] THEN k[0] ELSE 0
                      /\ r.rgb = IF r.kelvin # 0 THEN NoColour ELSE s.rgb
    /\ ~profile.bar => r = s

LEMMA BarsHold ==
    ASSUME NEW s, StateOk(s), NEW k, DOMAIN k = Zones, \A z \in Zones : k[z] \in Nat
    PROVE  BarsTook(ApplyZoneKelvin(s, k), s, k)
<1> DEFINE r == ApplyZoneKelvin(s, k)
<1> SUFFICES BarsTook(r, s, k)
  OBVIOUS
<1>1. CASE ~profile.bar
  <2>1. r = s
    BY <1>1, NoBars
  <2> HIDE DEF r
  <2> QED
    BY <1>1, <2>1 DEF BarsTook
<1>2. CASE profile.bar
  <2>1. \A x \in Nat : Max({x, 0}) = x
    BY DEF Max
  <2>2. \A z \in DOMAIN k : k[z] \in Int
    OBVIOUS
  <2>3. PICK zone \in [Zones -> Nat], whole \in Nat :
           /\ \A z \in Zones : zone[z] = IF z \in DOMAIN k THEN Max({k[z], 0}) ELSE s.zone[z]
           /\ whole = IF zone[0] = zone[1] THEN zone[0] ELSE 0
           /\ StateOk(r) /\ r.level = s.level /\ r.scene = s.scene /\ r.segments = s.segments
           /\ r.zone = zone /\ r.kelvin = whole /\ r.rgb = IF whole # 0 THEN NoColour ELSE s.rgb
           /\ Remembered(r)
    BY <1>2, <2>2, BarFields
  <2> HIDE DEF r
  <2>4. \A z \in Zones : zone[z] = k[z]
    BY <2>1, <2>3
  <2>5. zone[0] = k[0] /\ zone[1] = k[1]
    BY <2>4 DEF Zones
  <2> QED
    BY <1>2, <2>3, <2>4, <2>5 DEF BarsTook
<1> QED
  BY <1>1, <1>2

LEMMA SceneHolds ==
    ASSUME NEW s, StateOk(s), NEW code
    PROVE  /\ StateOk(ApplyScene(s, code))
           /\ \E zone : /\ Holds(ApplyScene(s, code), s, NoColour, 0, code, zone)
                        /\ zone = IF profile.bar THEN NoZone ELSE s.zone
<1> DEFINE held == Whole(s, NoColour, 0, code)
           r == ApplyScene(s, code)
<1>1. [s EXCEPT !.scene = code, !.rgb = NoColour, !.kelvin = 0] = held
  <2>1. Fields(s)
    BY DEF StateOk
  <2> QED
    BY <2>1 DEF Fields, Whole
<1>2. r = ApplyZoneKelvin(held, NoZone)
  BY <1>1 DEF ApplyScene
<1>3. /\ StateOk(held) /\ held.rgb = NoColour /\ held.kelvin = 0 /\ held.scene = code /\ held.zone = s.zone
      /\ held.level = s.level
  BY WholeSet
<1>4. DOMAIN NoZone = Zones /\ \A z \in Zones : NoZone[z] = 0
  BY DEF NoZone
<1> HIDE DEF held, r
<1>5. BarsTook(r, held, NoZone)
  <2>1. \A z \in Zones : NoZone[z] \in Nat
    BY <1>4
  <2> QED
    BY <1>2, <1>3, <1>4, <2>1, BarsHold
<1>6. profile.bar => r.zone = NoZone /\ r.kelvin = 0 /\ r.rgb = NoColour
  <2>1. NoZone[0] = 0 /\ NoZone[1] = 0
    BY <1>4 DEF Zones
  <2>2. profile.bar => r.kelvin = 0 /\ r.rgb = NoColour
    BY <1>3, <1>5, <2>1 DEF BarsTook
  <2>3. r.zone = [z \in Zones |-> r.zone[z]] /\ NoZone = [z \in Zones |-> NoZone[z]]
    BY <1>5 DEF StateOk, NoZone, BarsTook
  <2> QED
    BY <1>5, <2>2, <2>3 DEF BarsTook
<1> QED
  BY <1>3, <1>5, <1>6 DEF Holds, BarsTook, r

\* A report of the light, by the layout and the pieces it is of.
LEMMA ReportIs ==
    ASSUME NEW l, LightOk(l), profile \in Profiles, NEW r \in Reports(l)
    PROVE  \/ l.scene # 0 /\ r.kind = "scene" /\ r.code = l.scene
           \/ l.scene = 0 /\ profile.decode = "none" /\ r.kind = "none"
           \/ /\ l.scene = 0 /\ profile.decode = "kelvin" /\ r.kind = "kelvin"
              /\ \E i \in Moded : r.kelvin = l.look[i].kelvin
           \/ /\ l.scene = 0 /\ profile.decode = "colour" /\ r.kind = "colour"
              /\ \E i \in Moded : r = Colour(l.look[i])
           \/ /\ l.scene = 0 /\ profile.decode = "rgb" /\ r.kind = "colour" /\ r.kelvin = 0
              /\ \E i \in Moded : r.rgb = l.look[i].shown
           \/ /\ l.scene = 0 /\ profile.decode = "pair" /\ r.kind = "pair"
              /\ \E i \in profile.zones[0], j \in profile.zones[1] :
                    r.kelvins[0] = l.look[i].kelvin /\ r.kelvins[1] = l.look[j].kelvin
           \/ /\ l.scene = 0 /\ profile.decode = "heads" /\ r.kind = "heads"
              /\ r.heads[1] = Segment(l, 0) /\ r.heads[2] = Segment(l, 1)
<1>0. profile.decode \in Layouts
  BY ProfileFacts
<1>1. CASE l.scene # 0
  BY <1>1 DEF Reports
<1>2. CASE l.scene = 0 /\ profile.decode = "none"
  BY <1>2 DEF Reports
<1>3. CASE l.scene = 0 /\ profile.decode = "kelvin"
  <2>1. PICK k \in Looks(l, Moded) : r = [kind |-> "kelvin", kelvin |-> k.kelvin]
    BY <1>3 DEF Reports
  <2>2. PICK i \in Moded : k = l.look[i]
    BY <2>1 DEF Looks
  <2> QED
    BY <1>3, <2>1, <2>2
<1>4. CASE l.scene = 0 /\ profile.decode = "colour"
  <2>1. PICK k \in Looks(l, Moded) : r = Colour(k)
    BY <1>4 DEF Reports
  <2>2. PICK i \in Moded : k = l.look[i]
    BY <2>1 DEF Looks
  <2>3. r.kind = "colour"
    BY <2>1 DEF Colour
  <2> QED
    BY <1>4, <2>1, <2>2, <2>3
<1>5. CASE l.scene = 0 /\ profile.decode = "pair"
  <2>1. PICK a \in Looks(l, profile.zones[0]), b \in Looks(l, profile.zones[1]) :
           r = [kind |-> "pair", kelvins |-> [z \in Zones |-> IF z = 0 THEN a.kelvin ELSE b.kelvin]]
    BY <1>5 DEF Reports
  <2>2. PICK i \in profile.zones[0], j \in profile.zones[1] : a = l.look[i] /\ b = l.look[j]
    BY <2>1 DEF Looks
  <2>3. r.kelvins[0] = a.kelvin /\ r.kelvins[1] = b.kelvin /\ r.kind = "pair"
    BY <2>1 DEF Zones
  <2> QED
    BY <1>5, <2>2, <2>3
<1>6. CASE l.scene = 0 /\ profile.decode = "heads"
  <2>1. r = [kind |-> "heads", heads |-> [h \in 1 .. 2 |-> [rgb |-> l.look[h - 1].shown, level |-> l.piece[h - 1]]]]
    BY <1>6 DEF Reports
  <2>2. r.heads[1] = Segment(l, 0) /\ r.heads[2] = Segment(l, 1)
    BY <2>1 DEF Segment
  <2> QED
    BY <1>6, <2>1, <2>2
<1>7. CASE l.scene = 0 /\ profile.decode = "rgb"
  <2>1. PICK k \in Looks(l, Moded) : r = [kind |-> "colour", rgb |-> k.shown, kelvin |-> 0]
    BY <1>7 DEF Reports
  <2>2. PICK i \in Moded : k = l.look[i]
    BY <2>1 DEF Looks
  <2> QED
    BY <1>7, <2>1, <2>2
<1> QED
  BY <1>0, <1>1, <1>2, <1>3, <1>4, <1>5, <1>6, <1>7 DEF Layouts

\* The bars' report of two of their pieces.
LEMMA PairReported ==
    ASSUME NEW l, l.scene = 0, profile.decode = "pair", NEW i \in profile.zones[0], NEW j \in profile.zones[1]
    PROVE  \E r \in Reports(l) : /\ r.kind = "pair" /\ r.kelvins[0] = l.look[i].kelvin
                                 /\ r.kelvins[1] = l.look[j].kelvin
<1> DEFINE P(x, y) == [kind |-> "pair", kelvins |-> [z \in Zones |-> IF z = 0 THEN x.kelvin ELSE y.kelvin]]
           a == l.look[i]
           b == l.look[j]
<1>1. a \in Looks(l, profile.zones[0]) /\ b \in Looks(l, profile.zones[1])
  BY DEF Looks
<1>2. \A x, y : P(x, y).kelvins[0] = x.kelvin /\ P(x, y).kelvins[1] = y.kelvin /\ P(x, y).kind = "pair"
  BY DEF Zones
<1>3. Reports(l) = {P(x, y) : x \in Looks(l, profile.zones[0]), y \in Looks(l, profile.zones[1])}
  BY DEF Reports
<1>4. a.kelvin = l.look[i].kelvin /\ b.kelvin = l.look[j].kelvin
  OBVIOUS
<1> HIDE DEF a, b, P
<1>5. P(a, b) \in Reports(l)
  BY <1>1, <1>3
<1> QED
  BY <1>2, <1>4, <1>5

-----------------------------------------------------------------------------
(* A mode report, folded.                                                  *)

\* What a report is when it comes of a light whose fields have their types.
IsReport(r) ==
    \/ r.kind = "scene"
    \/ r.kind = "pair" /\ \A z \in Zones : r.kelvins[z] \in Nat
    \/ r.kind = "kelvin" /\ ~profile.bar /\ r.kelvin \in Nat
    \/ r.kind = "heads" /\ ~profile.bar /\ IsSegment(r.heads[1]) /\ IsSegment(r.heads[2])
    \/ r.kind = "colour" /\ ~profile.bar /\ r.kelvin \in Nat /\ (r.rgb # NoColour => r.kelvin = 0)
    \/ r.kind = "none" /\ ~profile.bar

LEMMA ReportsAre ==
    ASSUME NEW l, LightOk(l), profile \in Profiles, NEW r \in Reports(l)
    PROVE  IsReport(r)
<1>1. /\ profile.decode \in Layouts /\ BarsReportPairs(profile) /\ profile.at \subseteq Positions
      /\ \A z \in Zones : profile.zones[z] \subseteq Positions
  BY ProfileFacts
<1>2. \/ r.kind = "scene"
      \/ r.kind = "pair" /\ \A z \in Zones : r.kelvins[z] \in Nat
      \/ r.kind = "kelvin" /\ ~profile.bar /\ r.kelvin \in Nat
      \/ r.kind = "heads" /\ ~profile.bar /\ \A i \in {0, 1} : r.heads[i + 1] = Segment(l, i)
      \/ r.kind = "colour" /\ ~profile.bar /\ r.kelvin \in Nat /\ (r.rgb # NoColour => r.kelvin = 0)
      \/ r.kind = "none" /\ ~profile.bar
  BY <1>1, ReportKinds
<1>3. CASE r.kind = "heads" /\ ~profile.bar /\ \A i \in {0, 1} : r.heads[i + 1] = Segment(l, i)
  <2>1. r.heads[0 + 1] = Segment(l, 0) /\ r.heads[1 + 1] = Segment(l, 1)
    BY <1>3
  <2>2. IsSegment(Segment(l, 0)) /\ IsSegment(Segment(l, 1))
    BY DEF IsSegment, Segment
  <2> QED
    BY <1>3, <2>1, <2>2 DEF IsReport
<1> QED
  BY <1>2, <1>3 DEF IsReport

\* What a report does not tell is kept.
Keeps(m, s, r) ==
    /\ m.level = s.level /\ (~profile.bar => m.zone = s.zone)
    /\ r.kind = "pair" => IF profile.bar THEN m.rgb = IF m.kelvin # 0 THEN NoColour ELSE s.rgb
                          ELSE m.rgb = s.rgb /\ m.kelvin = s.kelvin
    /\ r.kind = "kelvin" => IF r.kelvin > 0 THEN m.rgb = NoColour
                            ELSE m.rgb = s.rgb /\ (~profile.reportsKelvin => m.kelvin = s.kelvin)
    /\ r.kind = "none" => m.rgb = s.rgb /\ m.kelvin = s.kelvin

\* Whatever the report, the state then holds what it tells, and keeps the rest.
LEMMA ModeTells ==
    ASSUME NEW s, Consistent(s), NEW r, IsReport(r)
    PROVE  /\ Tells(ApplyMode(s, r), r) /\ Keeps(ApplyMode(s, r), s, r)
           /\ r.kind = "colour" => ApplyMode(s, r).rgb = r.rgb /\ ApplyMode(s, r).kelvin = r.kelvin
<1> DEFINE t == LeavesScene(s)
           m == ApplyMode(s, r)
<1>1. t = [s EXCEPT !.scene = 0] /\ Consistent(t) /\ StateOk(t) /\ StateOk(s)
  BY SceneLeft DEF LeavesScene, Folds, Consistent
<1>2. Holds(t, s, s.rgb, s.kelvin, 0, s.zone)
  BY <1>1, SceneLeftHolds
<1> HIDE DEF t
<1>3. CASE r.kind = "scene"
  <2>1. m = RememberKelvin(ApplyScene(s, r.code))
    BY <1>3 DEF ApplyMode
  <2> DEFINE q == ApplyScene(s, r.code)
  <2>2. StateOk(q) /\ \E zone : Holds(q, s, NoColour, 0, r.code, zone) /\ zone = IF profile.bar THEN NoZone ELSE s.zone
    BY <1>1, SceneHolds
  <2> HIDE DEF q, m
  <2>3. Holds(m, q, q.rgb, q.kelvin, q.scene, q.zone)
    BY <2>1, <2>2, RememberHolds DEF q
  <2> QED
    BY <1>3, <2>2, <2>3 DEF Holds, Tells, Keeps, m
<1>4. CASE r.kind = "pair" /\ \A z \in Zones : r.kelvins[z] \in Nat
  <2> DEFINE k == [z \in Zones |-> r.kelvins[z]]
             q == ApplyZoneKelvin(t, k)
  <2>1. m = RememberKelvin(q)
    BY <1>1, <1>4 DEF ApplyMode
  <2>2. DOMAIN k = Zones /\ \A z \in Zones : k[z] = r.kelvins[z]
    OBVIOUS
  <2>6. \A z \in Zones : k[z] \in Nat
    BY <1>4
  <2> HIDE DEF k
  <2>3. BarsTook(q, t, k)
    BY <1>1, <2>2, <2>6, BarsHold
  <2> HIDE DEF q, m
  <2>4. Holds(m, q, q.rgb, q.kelvin, q.scene, q.zone)
    BY <2>1, <2>3, RememberHolds DEF BarsTook
  <2>5. /\ m.scene = 0 /\ m.level = s.level
        /\ profile.bar => \A z \in Zones : m.zone[z] = r.kelvins[z]
        /\ profile.bar => m.rgb = IF m.kelvin # 0 THEN NoColour ELSE s.rgb
        /\ ~profile.bar => m.zone = s.zone /\ m.rgb = s.rgb /\ m.kelvin = s.kelvin
    BY <1>2, <2>2, <2>3, <2>4 DEF Holds, BarsTook
  <2> QED
    BY <1>4, <2>5 DEF Tells, Keeps, m
<1>5. CASE r.kind = "kelvin" /\ ~profile.bar /\ r.kelvin \in Nat
  <2>1. m = RememberKelvin(IF r.kelvin > 0 \/ profile.reportsKelvin THEN ApplyKelvinReport(t, r.kelvin) ELSE t)
    BY <1>1, <1>5 DEF ApplyMode
  <2>2. /\ m.level = s.level /\ m.scene = 0 /\ m.zone = s.zone
        /\ r.kelvin > 0 \/ profile.reportsKelvin => m.kelvin = r.kelvin
        /\ IF r.kelvin > 0 THEN m.rgb = NoColour ELSE m.rgb = s.rgb
        /\ ~(r.kelvin > 0) /\ ~profile.reportsKelvin => m.kelvin = s.kelvin
    <3> HIDE DEF m
    <3>1. CASE r.kelvin > 0 \/ profile.reportsKelvin
      <4> DEFINE rgb == IF r.kelvin > 0 THEN NoColour ELSE t.rgb
      <4>1. ApplyKelvinReport(t, r.kelvin) = Toned(t, rgb, r.kelvin)
        <5>1. Fields(t)
          BY <1>1 DEF StateOk
        <5>2. CASE r.kelvin > 0
          BY <5>1, <5>2 DEF ApplyKelvinReport, Toned, Fields
        <5>3. CASE ~(r.kelvin > 0)
          <6>1. r.kelvin = 0
            BY <1>5, <5>3
          <6>2. ApplyKelvinReport(t, r.kelvin) = [t EXCEPT !.kelvin = 0] /\ rgb = t.rgb
            BY <5>3 DEF ApplyKelvinReport
          <6> HIDE DEF rgb
          <6>3. [t EXCEPT !.kelvin = 0] = [t EXCEPT !.rgb = rgb, !.kelvin = 0]
            BY <5>1, <6>2 DEF Fields
          <6> QED
            BY <6>1, <6>2, <6>3 DEF Toned
        <5> QED
          BY <5>2, <5>3
      <4>3. rgb = IF r.kelvin > 0 THEN NoColour ELSE t.rgb
        OBVIOUS
      <4> HIDE DEF rgb
      <4>2. Holds(RememberKelvin(Toned(t, rgb, r.kelvin)), t, rgb, r.kelvin, t.scene, t.zone)
        BY <1>1, <1>5, TonedHolds
      <4> QED
        BY <1>2, <2>1, <3>1, <4>1, <4>2, <4>3 DEF Holds
    <3>2. CASE ~(r.kelvin > 0 \/ profile.reportsKelvin)
      <4>1. Holds(RememberKelvin(t), t, t.rgb, t.kelvin, t.scene, t.zone)
        BY <1>1, RememberHolds
      <4> QED
        BY <1>2, <2>1, <3>2, <4>1 DEF Holds
    <3> QED
      BY <3>1, <3>2
  <2> HIDE DEF m
  <2> QED
    BY <1>5, <2>2 DEF Tells, Keeps, m
<1>6. CASE r.kind = "heads" /\ ~profile.bar /\ IsSegment(r.heads[1]) /\ IsSegment(r.heads[2])
  <2> DEFINE kelvin == HeadsKelvin(r)
             colour == IF HeadsKelvin(r) = 0 THEN HeadsColour(r) ELSE NoColour
             reported == [i \in {0, 1} |-> r.heads[i + 1]]
             q == MergeSegments(t, reported)
  <2>1. m = RememberKelvin(Toned(q, colour, kelvin))
    BY <1>1, <1>6 DEF ApplyMode, ApplyHeadPair, Toned, HeadsKelvin, HeadsColour
  <2>2. kelvin \in Nat
    BY PickedKelvin DEF HeadsKelvin
  <2>3. \A i \in DOMAIN reported : IsSegment(reported[i])
    BY <1>6
  <2> HIDE DEF reported, m
  <2>4. StateOk(q) /\ Holds(q, t, t.rgb, t.kelvin, t.scene, t.zone)
    BY <1>1, <2>3, SegmentsMerged, MergedHolds DEF Consistent
  <2>5. colour = IF HeadsKelvin(r) = 0 THEN HeadsColour(r) ELSE NoColour
    OBVIOUS
  <2> HIDE DEF q, colour
  <2>6. Holds(RememberKelvin(Toned(q, colour, kelvin)), q, colour, kelvin, q.scene, q.zone)
    <3> HIDE DEF kelvin
    <3> QED
      BY <2>2, <2>4, TonedHolds
  <2>7. m.level = s.level /\ m.zone = s.zone /\ m.scene = 0 /\ m.kelvin = HeadsKelvin(r) /\ m.rgb = colour
    BY <1>2, <2>1, <2>4, <2>6 DEF Holds
  <2> QED
    BY <1>6, <2>5, <2>7 DEF Tells, Keeps, m
<1>7. CASE r.kind = "colour" /\ ~profile.bar /\ r.kelvin \in Nat /\ (r.rgb # NoColour => r.kelvin = 0)
  <2>1. m = RememberKelvin(Toned(t, r.rgb, r.kelvin))
    BY <1>1, <1>7 DEF ApplyMode, Toned
  <2> HIDE DEF m
  <2>2. Holds(RememberKelvin(Toned(t, r.rgb, r.kelvin)), t, r.rgb, r.kelvin, t.scene, t.zone)
    BY <1>1, <1>7, TonedHolds
  <2>3. m.level = s.level /\ m.zone = s.zone /\ m.scene = 0 /\ m.rgb = r.rgb /\ m.kelvin = r.kelvin
    BY <1>2, <2>1, <2>2 DEF Holds
  <2> QED
    BY <1>7, <2>3 DEF Tells, Keeps, m
<1>8. CASE r.kind = "none"
  <2>1. m = RememberKelvin(t)
    BY <1>1, <1>8 DEF ApplyMode
  <2> HIDE DEF m
  <2>2. Holds(RememberKelvin(t), t, t.rgb, t.kelvin, t.scene, t.zone)
    BY <1>1, RememberHolds
  <2> QED
    BY <1>2, <1>8, <2>1, <2>2 DEF Holds, Tells, Keeps, m
<1> QED
  BY <1>3, <1>4, <1>5, <1>6, <1>7, <1>8 DEF IsReport

\* A report of what the state holds changes none of it.
LEMMA TellsAgree ==
    ASSUME NEW s, Consistent(s), NEW l, LightOk(l), profile \in Profiles, NEW r \in Reports(l), Tells(s, r),
           Reportable(s)
    PROVE  Colours4(ApplyMode(s, r)) = Colours4(s)
<1> DEFINE m == ApplyMode(s, r)
<1>1. IsReport(r)
  BY ReportsAre
<1>2. Consistent(m)
  BY ProfileFacts, ModeFolds
<1>3. Tells(m, r) /\ Keeps(m, s, r) /\ (r.kind = "colour" => m.rgb = r.rgb /\ m.kelvin = r.kelvin)
  BY <1>1, ModeTells
<1> HIDE DEF m
<1>4. Exclusive(m) /\ Exclusive(s) /\ s.zone = [z \in Zones |-> s.zone[z]] /\ m.zone = [z \in Zones |-> m.zone[z]]
  BY <1>2 DEF Consistent, StateOk
<1>5. m.rgb = s.rgb /\ m.kelvin = s.kelvin /\ m.scene = s.scene /\ m.zone = s.zone
  <2>1. CASE r.kind = "scene"
    BY <1>3, <2>1 DEF Tells, Keeps
  <2>2. CASE r.kind = "pair"
    <3>1. CASE ~profile.bar
      BY <1>3, <2>2, <3>1 DEF Tells, Keeps
    <3>2. CASE profile.bar
      <4>1. m.scene = 0 /\ s.scene = 0 /\ \A z \in Zones : m.zone[z] = s.zone[z]
        BY <1>3, <2>2, <3>2 DEF Tells
      <4>2. m.zone = s.zone
        BY <1>4, <4>1
      <4>3. m.kelvin = s.kelvin
        BY <1>4, <3>2, <4>2 DEF Exclusive
      <4>4. m.rgb = s.rgb
        BY <1>3, <1>4, <2>2, <3>2, <4>3 DEF Exclusive, Keeps
      <4> QED
        BY <4>1, <4>2, <4>3, <4>4
    <3> QED
      BY <3>1, <3>2
  <2>3. CASE r.kind = "kelvin" /\ ~profile.bar /\ r.kelvin \in Nat
    BY <1>3, <1>4, <2>3 DEF Tells, Keeps, Exclusive
  <2>4. CASE r.kind = "heads" /\ ~profile.bar
    BY <1>3, <2>4 DEF Tells, Keeps
  <2>5. CASE r.kind = "colour" /\ ~profile.bar
    <3>1. s.rgb = r.rgb /\ s.kelvin = r.kelvin
      BY <2>5 DEF Tells
    <3> QED
      BY <1>3, <2>5, <3>1 DEF Tells, Keeps
  <2>6. CASE r.kind = "none" /\ ~profile.bar
    BY <1>3, <2>6 DEF Tells, Keeps
  <2> QED
    BY <1>1, <2>1, <2>2, <2>3, <2>4, <2>5, <2>6 DEF IsReport
<1> QED
  BY <1>5 DEF Colours4, m

-----------------------------------------------------------------------------
(* What a write leaves of the light, and of the state.                     *)

Did(d, l, f) ==
    /\ LightOk(d)
    /\ d.level = IF f.cmd = "brightness" THEN f.level ELSE l.level
    /\ d.scene = CASE f.cmd \in {"colour", "pieceLevel"} -> 0 [] f.cmd = "scene" -> f.code [] f.cmd = "brightness" -> l.scene
    /\ f.cmd # "colour" => d.look = l.look
    /\ f.cmd = "colour" => \A i \in Positions : d.look[i] = IF i \in f.mask \cap Pieces THEN Look(f) ELSE l.look[i]

LEMMA DoesIt ==
    ASSUME NEW l, LightOk(l), NEW f, IsFrame(f)
    PROVE  Did(Does(l, f), l, f)
<1> DEFINE d == Does(l, f)
<1>1. l = [level |-> l.level, look |-> l.look, piece |-> l.piece, scene |-> l.scene]
  BY DEF LightOk
<1>2. LightOk(d)
  BY DoesKeeps
<1>3. CASE f.cmd = "colour"
  <2> DEFINE look == [i \in Positions |-> IF i \in f.mask \cap Pieces THEN Look(f) ELSE l.look[i]]
  <2>1. d = [l EXCEPT !.scene = 0, !.look = look]
    BY <1>3 DEF Does
  <2>2. \A i \in Positions : look[i] = IF i \in f.mask \cap Pieces THEN Look(f) ELSE l.look[i]
    OBVIOUS
  <2> HIDE DEF look, d
  <2>3. d.look = look /\ d.level = l.level /\ d.scene = 0
    BY <1>1, <2>1
  <2> QED
    BY <1>2, <1>3, <2>2, <2>3 DEF Did, d
<1>4. CASE f.cmd = "pieceLevel"
  <2> DEFINE piece == [i \in Positions |-> IF i \in f.mask \cap Pieces THEN f.level ELSE l.piece[i]]
  <2>1. d = [l EXCEPT !.scene = 0, !.piece = piece]
    BY <1>4 DEF Does
  <2> HIDE DEF piece, d
  <2>2. d.look = l.look /\ d.level = l.level /\ d.scene = 0
    BY <1>1, <2>1
  <2> QED
    BY <1>2, <1>4, <2>2 DEF Did, d
<1>5. CASE f.cmd = "brightness"
  <2>1. d = [l EXCEPT !.level = f.level]
    BY <1>5 DEF Does
  <2> HIDE DEF d
  <2>2. d.look = l.look /\ d.level = f.level /\ d.scene = l.scene
    BY <1>1, <2>1
  <2> QED
    BY <1>2, <1>5, <2>2 DEF Did, d
<1>6. CASE f.cmd = "scene"
  <2>1. d = [l EXCEPT !.scene = f.code]
    BY <1>6 DEF Does
  <2> HIDE DEF d
  <2>2. d.look = l.look /\ d.level = l.level /\ d.scene = f.code
    BY <1>1, <2>1
  <2> QED
    BY <1>2, <1>6, <2>2 DEF Did, d
<1> QED
  BY <1>3, <1>4, <1>5, <1>6 DEF IsFrame

\* One frame, or two in order.
LEMMA TwoDone ==
    ASSUME NEW l, NEW a, NEW b
    PROVE  DoesAll(l, <<a, b>>) = Does(Does(l, a), b)
BY DEF DoesAll

LEMMA FramesIs ==
    ASSUME NEW l, NEW a, NEW b
    PROVE  /\ DoesAll(l, <<a>>) = Does(l, a) /\ DoesAll(l, <<a, b>>) = Does(Does(l, a), b)
           /\ DOMAIN <<a>> = {1} /\ <<a>>[1] = a
           /\ DOMAIN <<a, b>> = {1, 2} /\ <<a, b>>[1] = a /\ <<a, b>>[2] = b
<1>1. /\ DOMAIN <<a>> = {1} /\ <<a>>[1] = a
      /\ DOMAIN <<a, b>> = {1, 2} /\ <<a, b>>[1] = a /\ <<a, b>>[2] = b
  OBVIOUS
<1>2. DoesAll(l, <<a>>) = Does(l, a) /\ DoesAll(l, <<a, b>>) = Does(Does(l, a), b)
  BY TwoDone DEF DoesAll
<1> QED
  BY <1>1, <1>2

LEMMA FirstOf ==
    ASSUME NEW a, NEW b
    PROVE  SubSeq(<<a>>, 1, 1) = <<a>> /\ SubSeq(<<a, b>>, 1, 1) = <<a>> /\ SubSeq(<<a, b>>, 1, 2) = <<a, b>>
<1> DEFINE S == {a, b}
<1>1. \A q \in Seq(S) : \A n \in 1 .. Len(q) :
         /\ SubSeq(q, 1, n) \in Seq(S) /\ Len(SubSeq(q, 1, n)) = n
         /\ \A i \in 1 .. n : SubSeq(q, 1, n)[i] = q[i]
  OBVIOUS
<1>2. <<a>> \in Seq(S) /\ Len(<<a>>) = 1 /\ <<a, b>> \in Seq(S) /\ Len(<<a, b>>) = 2
  OBVIOUS
<1>3. <<a>>[1] = a /\ <<a, b>>[1] = a /\ <<a, b>>[2] = b
  OBVIOUS
<1>5. \A s, t \in Seq(S) : (Len(s) = Len(t) /\ \A i \in 1 .. Len(s) : s[i] = t[i]) => s = t
  BY SeqEqual
<1>6. SubSeq(<<a>>, 1, 1) = <<a>>
  <2>1. /\ SubSeq(<<a>>, 1, 1) \in Seq(S) /\ Len(SubSeq(<<a>>, 1, 1)) = 1
        /\ \A i \in 1 .. 1 : SubSeq(<<a>>, 1, 1)[i] = <<a>>[i]
    BY <1>1, <1>2
  <2> QED
    BY <1>2, <1>5, <2>1
<1>7. SubSeq(<<a, b>>, 1, 1) = <<a>>
  <2>1. /\ SubSeq(<<a, b>>, 1, 1) \in Seq(S) /\ Len(SubSeq(<<a, b>>, 1, 1)) = 1
        /\ \A i \in 1 .. 1 : SubSeq(<<a, b>>, 1, 1)[i] = <<a>>[i]
    BY <1>1, <1>2, <1>3
  <2> QED
    BY <1>2, <1>5, <2>1
<1>8. SubSeq(<<a, b>>, 1, 2) = <<a, b>>
  <2>1. /\ SubSeq(<<a, b>>, 1, 2) \in Seq(S) /\ Len(SubSeq(<<a, b>>, 1, 2)) = 2
        /\ \A i \in 1 .. 2 : SubSeq(<<a, b>>, 1, 2)[i] = <<a, b>>[i]
    BY <1>1, <1>2
  <2> QED
    BY <1>2, <1>5, <2>1
<1> QED
  BY <1>6, <1>7, <1>8

\* A whole-device colour over a state: a Kelvin of every bar, or a colour.
Painted(m, s, rgb, kelvin) ==
    /\ m.level = s.level /\ m.scene = 0 /\ m.kelvin = kelvin /\ m.rgb = IF kelvin = 0 THEN rgb ELSE NoColour
    /\ profile.bar => \A z \in Zones : m.zone[z] = kelvin

LEMMA PaintHolds ==
    ASSUME NEW s, StateOk(s), s.scene = 0, NEW rgb, s.rgb = IF s.kelvin = 0 THEN rgb ELSE NoColour,
           NEW k, DOMAIN k = Zones, \A z \in Zones : k[z] = s.kelvin
    PROVE  Painted(RememberKelvin(ApplyZoneKelvin(s, k)), s, rgb, s.kelvin)
<1> DEFINE q == ApplyZoneKelvin(s, k)
           m == RememberKelvin(q)
<1>1. s.kelvin \in Nat /\ \A z \in Zones : k[z] \in Nat
  BY DEF StateOk
<1>2. BarsTook(q, s, k)
  BY <1>1, BarsHold
<1>3. k[0] = s.kelvin /\ k[1] = s.kelvin
  BY DEF Zones
<1> HIDE DEF q
<1>4. Holds(m, q, q.rgb, q.kelvin, q.scene, q.zone)
  BY <1>2, RememberHolds DEF BarsTook
<1> HIDE DEF m
<1>5. Painted(m, s, rgb, s.kelvin)
  BY <1>2, <1>3, <1>4 DEF BarsTook, Holds, Painted
<1> QED
  BY <1>5 DEF m, q

LEMMA RgbPaints ==
    ASSUME NEW s, StateOk(s), NEW rgb, NEW span
    PROVE  Painted(ApplyRgb(s, rgb, span), s, rgb, IF profile.colorTemp THEN RgbAsKelvin(rgb, profile.scheme, span) ELSE 0)
<1> DEFINE kelvin == IF profile.colorTemp THEN RgbAsKelvin(rgb, profile.scheme, span) ELSE 0
           colour == IF kelvin = 0 THEN rgb ELSE NoColour
           held == Whole(s, colour, kelvin, 0)
           k == [z \in Zones |-> kelvin]
           m == RememberKelvin(ApplyZoneKelvin(held, k))
<1>1. ApplyRgb(s, rgb, span) = m
  BY DEF ApplyRgb, Whole
<1>2. kelvin \in Nat
  BY PickedKelvin
<1>3. colour = IF kelvin = 0 THEN rgb ELSE NoColour
  OBVIOUS
<1> HIDE DEF kelvin, colour
<1>4. DOMAIN k = Zones /\ \A z \in Zones : k[z] = kelvin
  OBVIOUS
<1>5. StateOk(held) /\ held.rgb = colour /\ held.kelvin = kelvin /\ held.scene = 0 /\ held.level = s.level
  BY <1>2, WholeSet
<1> HIDE DEF held, k
<1>6. Painted(m, held, rgb, held.kelvin)
  BY <1>3, <1>4, <1>5, PaintHolds
<1> HIDE DEF m
<1>7. Painted(m, s, rgb, kelvin)
  BY <1>5, <1>6 DEF Painted
<1> QED
  BY <1>1, <1>7 DEF kelvin

LEMMA KelvinPaints ==
    ASSUME NEW s, StateOk(s), NEW kelvin \in Nat \ {0}, NEW rgb
    PROVE  Painted(ApplyKelvin(s, kelvin), s, rgb, kelvin)
<1> DEFINE held == Whole(s, NoColour, kelvin, 0)
           k == [z \in Zones |-> kelvin]
           m == RememberKelvin(ApplyZoneKelvin(held, k))
<1>1. [s EXCEPT !.kelvin = kelvin, !.rgb = NoColour, !.scene = 0] = held
  <2>1. Fields(s)
    BY DEF StateOk
  <2> QED
    BY <2>1 DEF Fields, Whole
<1>2. ApplyKelvin(s, kelvin) = m
  BY <1>1 DEF ApplyKelvin
<1>4. DOMAIN k = Zones /\ \A z \in Zones : k[z] = kelvin
  OBVIOUS
<1>5. StateOk(held) /\ held.rgb = NoColour /\ held.kelvin = kelvin /\ held.scene = 0 /\ held.level = s.level
  BY WholeSet
<1> HIDE DEF held, k
<1>6. Painted(m, held, rgb, held.kelvin)
  BY <1>4, <1>5, PaintHolds
<1> HIDE DEF m
<1>7. Painted(m, s, rgb, kelvin)
  BY <1>5, <1>6 DEF Painted
<1> QED
  BY <1>2, <1>7

-----------------------------------------------------------------------------
(* A light of one look, and the state that has painted it.                 *)

\* The heads' range, of an unknown pact, is the one in force.
LEMMA PlainRange ==
    ASSUME RevisionOk, profile.byVersion = {}, profile.byPact = {}
    PROVE  KelvinRange(profile, known.version, 0) = Span
<1>1. CASE profile.span = <<>>
  BY <1>1 DEF KelvinRange, Span
<1>2. CASE profile.span # <<>>
  <2>1. profile.span \in Nat \X Nat /\ profile.span[1] <= profile.span[2]
    BY <1>2, ProfileFacts DEF RevisionOk, ValidColours, BaseSpan
  <2>2. Cut(profile.span, {}) = profile.span
    BY <2>1, CutNone
  <2>3. \A pact : ByPact(profile, pact) = profile.span
    BY <2>2 DEF ByPact
  <2>4. {e \in profile.byVersion : known.version >= e.key} = {}
    OBVIOUS
  <2>5. \A pact : KelvinRange(profile, known.version, pact) = profile.span
    BY <1>2, <2>2, <2>3, <2>4 DEF KelvinRange
  <2> QED
    BY <2>5 DEF Span
<1> QED
  BY <1>1, <1>2

LEMMA PaintedTells ==
    ASSUME RevisionOk, TellsBack(profile), NEW l, LightOk(l), l.scene = 0,
           NEW look, \A i \in Moded : l.look[i] = look,
           NEW rgb, look.kelvin = 0 \/ profile.scheme = "h60a6" => look.shown = rgb,
           NEW m, NEW s, Painted(m, s, rgb, look.kelvin),
           profile.decode = "heads" => /\ rgb # NoColour
                                       /\ RgbAsKelvin(rgb, profile.scheme, KelvinRange(profile, known.version, 0)) = look.kelvin
    PROVE  TellsAll(m, l)
<1> SUFFICES ASSUME NEW r \in Reports(l)
             PROVE  Tells(m, r)
  BY DEF TellsAll
<1>1. profile \in Profiles
  BY DEF RevisionOk
<1>2. Moded \subseteq Positions /\ \A z \in Zones : profile.zones[z] \subseteq Moded
  BY <1>1, ModedPieces
<1>3. \A i \in Moded : l.look[i].kelvin \in Nat
  BY <1>2 DEF LightOk
<1>4. CASE profile.decode = "none" /\ r.kind = "none"
  BY <1>4 DEF Tells, Painted
<1>5. CASE r.kind = "kelvin" /\ \E i \in Moded : r.kelvin = l.look[i].kelvin
  BY <1>5 DEF Tells, Painted
<1>6. CASE r.kind = "colour" /\ \E i \in Moded : r = Colour(l.look[i])
  <2>1. r = Colour(look) /\ look.kelvin \in Nat
    BY <1>3, <1>6
  <2>2. r.rgb = (IF look.kelvin = 0 THEN rgb ELSE NoColour) /\ r.kelvin = look.kelvin
    BY <2>1 DEF Colour
  <2> QED
    BY <1>6, <2>2 DEF Tells, Painted
<1>7. CASE r.kind = "pair" /\ \E i \in profile.zones[0], j \in profile.zones[1] :
                                 r.kelvins[0] = l.look[i].kelvin /\ r.kelvins[1] = l.look[j].kelvin
  <2>1. 0 \in Zones /\ 1 \in Zones /\ \A z \in Zones : z = 0 \/ z = 1
    BY DEF Zones
  <2>2. r.kelvins[0] = look.kelvin /\ r.kelvins[1] = look.kelvin
    BY <1>2, <1>7, <2>1
  <2> QED
    BY <1>7, <2>1, <2>2 DEF Tells, Painted
<1>8. CASE /\ profile.decode = "heads" /\ r.kind = "heads"
           /\ r.heads[1] = Segment(l, 0) /\ r.heads[2] = Segment(l, 1)
  <2>1. 0 \in Moded /\ 1 \in Moded /\ profile.scheme = "h60a6"
    BY <1>8 DEF TellsBack, PicksTold, Moded, Pieces
  <2>2. r.heads[1].rgb = rgb /\ r.heads[2].rgb = rgb
    BY <1>8, <2>1 DEF Segment
  <2>3. HeadsColour(r) = rgb
    BY <2>2 DEF HeadsColour
  <2>4. HeadsKelvin(r) = look.kelvin
    BY <1>8, <2>3 DEF HeadsKelvin
  <2> QED
    BY <1>8, <2>3, <2>4 DEF Tells, Painted
<1>9. CASE l.scene # 0
  BY <1>9
<1>10. CASE /\ profile.decode = "rgb" /\ r.kind = "colour" /\ r.kelvin = 0
            /\ \E i \in Moded : r.rgb = l.look[i].shown
  <2>1. r.rgb = look.shown
    BY <1>10
  <2>2. Reportable(m) => look.kelvin = 0
    BY <1>10 DEF Reportable, Painted
  <2> QED
    BY <1>10, <2>1, <2>2 DEF Tells, Painted
<1> QED
  BY <1>1, <1>4, <1>5, <1>6, <1>7, <1>8, <1>9, <1>10, ReportIs

\* A light that reports no colour leaves none to disagree with.
LEMMA NoneTells ==
    ASSUME profile \in Profiles, NEW l, LightOk(l), l.scene = 0, profile.decode = "none", NEW m, m.scene = 0
    PROVE  TellsAll(m, l)
BY ReportIs DEF TellsAll, Tells

LEMMA ScenesTell ==
    ASSUME profile \in Profiles, NEW l, LightOk(l), l.scene # 0, NEW m, m.scene = l.scene, m.rgb = NoColour, m.kelvin = 0,
           profile.bar => m.zone = NoZone
    PROVE  TellsAll(m, l)
BY ReportIs DEF TellsAll, Tells

-----------------------------------------------------------------------------
(* The invariant.                                                          *)

TellInv == ours => TellsAll(state, light)
LevelInv ==
    /\ LevelOk(light.level) /\ state.level \in {Unknown} \cup 1 .. 100
    /\ oursLevel => /\ ~BrightnessPending(profile, known.pact)
                    /\ state.level = BrightnessPct(profile, light.level, known.pact)
AgreeInv == HeldInv /\ TellInv /\ LevelInv

\* The next state's, as a fact of the step's values.
LEMMA TellNext ==
    ASSUME profile' = profile, known'.version = known.version, ours' => TellsAll(state', light')
    PROVE  TellInv'
<1>1. profile' = profile /\ known'.version = known.version
  OBVIOUS
<1>2. Moded' = Moded
  BY <1>1 DEF Moded, Pieces
<1>3. Reports(light)' = Reports(light')
  BY <1>1, <1>2 DEF Reports, Looks, Colour
<1>4. ASSUME NEW r, Tells(state', r)
      PROVE  Tells(state, r)'
  BY <1>1, <1>4 DEF Tells, Reportable, HeadsKelvin, HeadsColour
<1>5. SUFFICES ASSUME ours'
               PROVE  \A r \in Reports(light') : Tells(state, r)'
  BY <1>3 DEF TellInv, TellsAll
<1> QED
  BY <1>4, <1>5 DEF TellsAll

LEMMA LevelNext ==
    ASSUME UNCHANGED <<profile, real, known>>, LevelOk(light'.level), state'.level \in {Unknown} \cup 1 .. 100,
           oursLevel' => /\ ~BrightnessPending(profile, known.pact)
                         /\ state'.level = BrightnessPct(profile, light'.level, known.pact)
    PROVE  LevelInv'
BY DEF LevelInv, LevelOk, LevelSpan, BrightnessRange, BrightnessPct, BrightnessPending

-----------------------------------------------------------------------------
(* The levels, and the whole-device writes.                                *)

Lawful(f) == IsFrame(f) /\ FairLevel(f)

LEMMA LevelDone ==
    ASSUME NEW l, LightOk(l), LevelOk(l.level), NEW f, Lawful(f)
    PROVE  LightOk(Does(l, f)) /\ LevelOk(Does(l, f).level) /\ Did(Does(l, f), l, f)
<1>1. Did(Does(l, f), l, f)
  BY DoesIt DEF Lawful
<1>2. Does(l, f).level = (IF f.cmd = "brightness" THEN f.level ELSE l.level) /\ LightOk(Does(l, f))
  BY <1>1 DEF Did
<1> QED
  BY <1>1, <1>2 DEF Lawful, FairLevel

LEMMA WrittenLevel ==
    ASSUME NEW l, LightOk(l), LevelOk(l.level), NEW a, Lawful(a), NEW b, Lawful(b), NEW frames \in {<<a>>, <<a, b>>}
    PROVE  /\ LevelOk(DoesAll(l, frames).level)
           /\ \A n \in DOMAIN frames : LevelOk(DoesAll(l, SubSeq(frames, 1, n)).level)
<1>1. LevelOk(Does(l, a).level) /\ LevelOk(Does(Does(l, a), b).level)
  BY LevelDone
<1>2. LevelOk(DoesAll(l, <<a>>).level) /\ LevelOk(DoesAll(l, <<a, b>>).level)
  BY <1>1, FramesIs
<1>3. CASE frames = <<a>>
  <2>1. DOMAIN frames = {1} /\ SubSeq(frames, 1, 1) = <<a>>
    BY <1>3, FramesIs, FirstOf
  <2> QED
    BY <1>2, <1>3, <2>1
<1>4. CASE frames = <<a, b>>
  <2>1. DOMAIN frames = {1, 2} /\ SubSeq(frames, 1, 1) = <<a>> /\ SubSeq(frames, 1, 2) = <<a, b>>
    BY <1>4, FramesIs, FirstOf
  <2> QED
    BY <1>2, <1>4, <2>1
<1> QED
  BY <1>3, <1>4

\* A write that raises may have set a level, and tells the state nothing.
LEMMA RaisedAgrees ==
    ASSUME AgreeInv, NEW a, NEW b, a # Refused => Lawful(a), b # Refused => Lawful(b),
           NEW frames, frames = <<a>> \/ frames = <<a, b>>, Raised(frames)
    PROVE  TellInv' /\ LevelInv'
<1>1. \E c : Lawful(c) /\ Lawful(a) /\ frames \in {<<a>>, <<a, c>>}
  <2>1. \A i \in DOMAIN frames : frames[i] # Refused
    BY DEF Raised
  <2>2. CASE frames = <<a>>
    BY <2>1, <2>2, FramesIs
  <2>3. CASE frames = <<a, b>>
    BY <2>1, <2>3, FramesIs
  <2> QED
    BY <2>2, <2>3
<1>2. PICK c : Lawful(c) /\ Lawful(a) /\ frames \in {<<a>>, <<a, c>>}
  BY <1>1
<1>3. PICK n \in DOMAIN frames : light' = DoesAll(light, SubSeq(frames, 1, n))
  BY DEF Raised
<1>4. LightOk(light) /\ LevelOk(light.level) /\ state.level \in {Unknown} \cup 1 .. 100
  BY DEF AgreeInv, HeldInv, LevelInv
<1>5. \A j \in DOMAIN frames : LevelOk(DoesAll(light, SubSeq(frames, 1, j)).level)
  BY <1>2, <1>4, WrittenLevel
<1>6. LevelOk(light'.level)
  BY <1>3, <1>5
<1>7. UNCHANGED <<profile, real, known, state>> /\ ~ours' /\ ~oursLevel'
  BY DEF Raised
<1>8. TellInv'
  BY <1>7 DEF TellInv
<1>9. LevelInv'
  BY <1>4, <1>6, <1>7, LevelNext
<1> QED
  BY <1>8, <1>9

LEMMA AckedIs ==
    ASSUME NEW a, NEW b, NEW frames, frames = <<a>> \/ frames = <<a, b>>, NEW folded, Acked(frames, folded)
    PROVE  /\ UNCHANGED <<profile, real, known>> /\ state' = folded /\ a # Refused
           /\ frames = <<a>> => light' = Does(light, a)
           /\ frames = <<a, b>> => b # Refused /\ light' = Does(Does(light, a), b)
<1>1. /\ UNCHANGED <<profile, real, known>> /\ state' = folded /\ light' = DoesAll(light, frames)
      /\ \A i \in DOMAIN frames : frames[i] # Refused
  BY DEF Acked
<1>2. CASE frames = <<a>>
  <2>1. DOMAIN frames = {1} /\ frames[1] = a /\ DoesAll(light, frames) = Does(light, a)
    BY <1>2, FramesIs
  <2>2. frames # <<a, b>>
    <3>1. DOMAIN <<a, b>> = {1, 2}
      BY FramesIs
    <3> QED
      BY <2>1, <3>1
  <2> QED
    BY <1>1, <2>1, <2>2
<1>3. CASE frames = <<a, b>>
  <2>1. /\ DOMAIN frames = {1, 2} /\ frames[1] = a /\ frames[2] = b
        /\ DoesAll(light, frames) = Does(Does(light, a), b)
    <3>1. DoesAll(light, <<a, b>>) = Does(Does(light, a), b)
      BY TwoDone
    <3>2. DOMAIN <<a, b>> = {1, 2} /\ <<a, b>>[1] = a /\ <<a, b>>[2] = b
      BY FramesIs
    <3> QED
      BY <1>3, <3>1, <3>2
  <2>2. frames # <<a>>
    <3>1. DOMAIN <<a>> = {1}
      BY FramesIs
    <3> QED
      BY <2>1, <3>1
  <2> QED
    BY <1>1, <2>1, <2>2
<1> QED
  BY <1>2, <1>3

\* The same colour and scene of the state, and the same looks, tell the same.
LEMMA SameTells ==
    ASSUME NEW s, NEW l, TellsAll(s, l), NEW m, NEW d,
           m.rgb = s.rgb, m.kelvin = s.kelvin, m.scene = s.scene, m.zone = s.zone,
           d.scene = l.scene, d.look = l.look, d.piece = l.piece
    PROVE  TellsAll(m, d)
<1>1. Reports(d) = Reports(l)
  BY DEF Reports, Looks
<1>2. ASSUME NEW r, Tells(s, r)
      PROVE  Tells(m, r)
  BY <1>2 DEF Tells, Reportable
<1> QED
  BY <1>1, <1>2 DEF TellsAll

\* The light all in the look of a frame.
Shown(d, f) == LightOk(d) /\ d.scene = 0 /\ \A i \in Moded : d.look[i] = Look(f)

LEMMA ColourWritten ==
    ASSUME profile \in Profiles, TellsBack(profile), NEW l, LightOk(l),
           NEW f, NEW kelvin \in Nat, NEW rgb, Shows(f, kelvin, rgb)
    PROVE  Lawful(f) /\ Shown(Does(l, f), f) /\ Does(l, f).level = l.level
<1>1. f.cmd = "colour" /\ Look(f).kelvin = kelvin /\ Moded \subseteq f.mask
  BY DEF Shows, Paints
<1>2. Lawful(f)
  BY <1>1 DEF Lawful, IsFrame, FairLevel
<1>3. Did(Does(l, f), l, f)
  BY <1>2, DoesIt DEF Lawful
<1>4. Moded \subseteq Positions /\ Moded \subseteq f.mask \cap Pieces
  BY <1>1, ModedPieces
<1> QED
  BY <1>1, <1>2, <1>3, <1>4 DEF Did, Shown

LEMMA BrightnessThen ==
    ASSUME NEW d, NEW f, Shown(d, f), NEW g, g.cmd = "brightness"
    PROVE  Shown(Does(d, g), f) /\ Does(d, g).level = g.level
<1>1. LightOk(d) /\ IsFrame(g)
  BY DEF Shown, IsFrame
<1>2. Did(Does(d, g), d, g)
  BY <1>1, DoesIt
<1> QED
  BY <1>2 DEF Did, Shown

\* set_rgb's fold, of a light that shows its frame.
LEMMA RgbTold ==
    ASSUME RevisionOk, TellsBack(profile), profile.rgb, NEW rgb \in Colours, NEW f, f # Refused,
           f = ColorRgbFrames(rgb, profile.scheme, profile.segments, Span, profile.pieces, profile.white),
           NEW d, Shown(d, f), NEW s, StateOk(s), NEW m, m = ApplyRgb(s, rgb, Span)
    PROVE  TellsAll(m, d)
<1> DEFINE kelvin == RgbAsKelvin(rgb, profile.scheme, Span)
           held == IF profile.colorTemp THEN kelvin ELSE 0
<1>1. profile \in Profiles /\ rgb # NoColour
  BY ColourStateAssumption DEF RevisionOk
<1>2. Shows(f, kelvin, rgb)
  BY <1>1, RgbShows
<1>3. Painted(m, s, rgb, held)
  BY RgbPaints
<1>4. LightOk(d) /\ d.scene = 0 /\ \A i \in Moded : d.look[i] = Look(f)
  BY DEF Shown
<1>5. Look(f).kelvin = kelvin /\ (kelvin = 0 \/ profile.scheme = "h60a6" => Look(f).shown = rgb)
  BY <1>2 DEF Shows, Paints
<1>6. kelvin # 0 => profile.scheme \in PickAsKelvinSchemes
  BY PickedKelvin
<1>7. profile.decode = "heads" => RgbAsKelvin(rgb, profile.scheme, KelvinRange(profile, known.version, 0)) = kelvin
  BY PlainRange DEF TellsBack, PicksTold
<1>8. kelvin = held \/ profile.decode = "none"
  BY <1>6 DEF TellsBack, PicksTold
<1> HIDE DEF kelvin, held
<1>9. CASE kelvin = held
  BY <1>1, <1>3, <1>4, <1>5, <1>7, <1>9, PaintedTells
<1>10. CASE profile.decode = "none"
  <2>1. m.scene = 0
    BY <1>3 DEF Painted
  <2> QED
    BY <1>1, <1>4, <1>10, <2>1, NoneTells
<1> QED
  BY <1>8, <1>9, <1>10

\* set_color_temp's.
LEMMA KelvinTold ==
    ASSUME RevisionOk, TellsBack(profile), profile.colorTemp, NEW k \in Kelvins, NEW f, f # Refused,
           f = ColorTemp(CheckKelvin(k), profile.scheme, profile.segments, profile.pieces, profile.white),
           NEW d, Shown(d, f), NEW s, StateOk(s), NEW m, m = ApplyKelvin(s, CheckKelvin(k))
    PROVE  TellsAll(m, d)
<1> DEFINE kelvin == CheckKelvin(k)
           tint == TintForKelvin(kelvin)
<1>1. profile \in Profiles
  BY DEF RevisionOk
<1>2. /\ kelvin \in Nat \ {0} /\ Span # <<>> /\ kelvin \in Span[1] .. Span[2]
      /\ profile.scheme = "legacy_02" \/ profile.decode = "heads" => kelvin \in DOMAIN FirstTint
  BY KelvinAsked
<1>3. f = ColorTemp(kelvin, profile.scheme, profile.segments, profile.pieces, profile.white) /\ m = ApplyKelvin(s, kelvin)
  OBVIOUS
<1> HIDE DEF kelvin
<1>4. Shows(f, kelvin, tint)
  BY <1>1, <1>2, <1>3, KelvinShows
<1>5. Painted(m, s, tint, kelvin)
  BY <1>2, <1>3, KelvinPaints
<1>6. LightOk(d) /\ d.scene = 0 /\ \A i \in Moded : d.look[i] = Look(f)
  BY DEF Shown
<1>7. Look(f).kelvin = kelvin /\ (kelvin = 0 \/ profile.scheme = "h60a6" => Look(f).shown = tint)
  BY <1>4 DEF Shows, Paints
<1>8. profile.decode = "heads" => /\ tint # NoColour
                                  /\ RgbAsKelvin(tint, profile.scheme, KelvinRange(profile, known.version, 0)) = kelvin
  <2> SUFFICES ASSUME profile.decode = "heads"
               PROVE  /\ tint # NoColour
                      /\ RgbAsKelvin(tint, profile.scheme, KelvinRange(profile, known.version, 0)) = kelvin
    OBVIOUS
  <2>1. KelvinRange(profile, known.version, 0) = Span /\ profile.scheme = "h60a6"
    BY PlainRange DEF TellsBack, PicksTold
  <2>2. tint # NoColour /\ KelvinForTint(tint) = kelvin
    BY <1>2, TintAssumption DEF TintForKelvin, KelvinForTint
  <2> HIDE DEF tint
  <2>3. RgbAsKelvin(tint, profile.scheme, Span) = kelvin
    BY <1>2, <2>1, <2>2 DEF RgbAsKelvin, PickRange, PickAsKelvinSchemes
  <2> QED
    BY <2>1, <2>2, <2>3
<1> HIDE DEF tint
<1> QED
  BY <1>1, <1>5, <1>6, <1>7, <1>8, PaintedTells

\* What a step leaves of AgreeInv, HeldInv being HeldStep's.
Agrees == TellInv' /\ LevelInv'

LEMMA RgbWritten ==
    ASSUME RevisionOk, TellsBack(profile), NEW rgb, NEW f, f # Refused,
           f = ColorRgbFrames(rgb, profile.scheme, profile.segments, Span, profile.pieces, profile.white)
    PROVE  Lawful(f) /\ \A l : LightOk(l) => Shown(Does(l, f), f) /\ Does(l, f).level = l.level
<1>1. profile \in Profiles
  BY DEF RevisionOk
<1>2. Shows(f, RgbAsKelvin(rgb, profile.scheme, Span), rgb) /\ RgbAsKelvin(rgb, profile.scheme, Span) \in Nat
  BY <1>1, RgbShows, PickedKelvin
<1>3. \A l : LightOk(l) => Lawful(f) /\ Shown(Does(l, f), f) /\ Does(l, f).level = l.level
  BY <1>1, <1>2, ColourWritten
<1>4. Lawful(f)
  BY <1>2 DEF Lawful, IsFrame, FairLevel, Shows, Paints
<1> QED
  BY <1>3, <1>4

LEMMA KelvinWritten ==
    ASSUME RevisionOk, TellsBack(profile), profile.colorTemp, NEW k \in Kelvins, NEW f, f # Refused,
           f = ColorTemp(CheckKelvin(k), profile.scheme, profile.segments, profile.pieces, profile.white)
    PROVE  Lawful(f) /\ \A l : LightOk(l) => Shown(Does(l, f), f) /\ Does(l, f).level = l.level
<1> DEFINE kelvin == CheckKelvin(k)
<1>1. profile \in Profiles
  BY DEF RevisionOk
<1>2. kelvin \in Nat \ {0} /\ (profile.scheme = "legacy_02" => kelvin \in DOMAIN FirstTint)
  BY KelvinAsked
<1>3. f = ColorTemp(kelvin, profile.scheme, profile.segments, profile.pieces, profile.white)
  OBVIOUS
<1> HIDE DEF kelvin
<1>4. Shows(f, kelvin, TintForKelvin(kelvin))
  BY <1>1, <1>2, <1>3, KelvinShows
<1>5. \A l : LightOk(l) => Lawful(f) /\ Shown(Does(l, f), f) /\ Does(l, f).level = l.level
  BY <1>1, <1>2, <1>4, ColourWritten
<1>6. Lawful(f)
  BY <1>2, <1>4 DEF Lawful, IsFrame, FairLevel, Shows, Paints
<1> QED
  BY <1>5, <1>6

LEMMA LevelWritten ==
    ASSUME RevisionOk, TellsBack(profile), NEW pct \in 1 .. 100, NEW f, f = BrightnessFrame(pct), f # Refused
    PROVE  Lawful(f) /\ f.cmd = "brightness"
BY LevelSent DEF Lawful, IsFrame, FairLevel

ReadsBack(f, pct) ==
    /\ ~BrightnessPending(profile, known.pact) /\ f.cmd = "brightness" /\ LevelOk(f.level)
    /\ BrightnessPct(profile, f.level, known.pact) = pct

LEMMA LevelReadsBack ==
    ASSUME RevisionOk, TellsBack(profile), NEW pct \in 1 .. 100, BrightnessFrame(pct) # Refused
    PROVE  ReadsBack(BrightnessFrame(pct), pct)
<1> DEFINE f == BrightnessFrame(pct)
<1>1. f = BrightnessFrame(pct) /\ f # Refused
  OBVIOUS
<1> HIDE DEF f
<1>3. ~BrightnessPending(profile, known.pact)
  BY <1>1, LevelSent
<1>4. f.cmd = "brightness" /\ LevelOk(f.level)
  BY <1>1, LevelSent
<1>5. BrightnessPct(profile, f.level, known.pact) = pct
  BY <1>1, LevelSent
<1>2. ReadsBack(f, pct)
  BY <1>3, <1>4, <1>5 DEF ReadsBack
<1> QED
  BY <1>1, <1>2

LEMMA AgreeFacts ==
    ASSUME AgreeInv
    PROVE  /\ RevisionOk /\ profile \in Profiles /\ LightOk(light) /\ LevelOk(light.level)
           /\ Consistent(state) /\ StateOk(state) /\ state.level \in {Unknown} \cup 1 .. 100
BY DEF AgreeInv, HeldInv, LevelInv, RevisionOk, Consistent

\* A write whose light and level are known.
LEMMA SetBrightnessAgrees ==
    ASSUME AgreeInv, TellsBack(profile), NEW pct \in Levels, SetBrightness(pct)
    PROVE  Agrees
<1> DEFINE a == BrightnessFrame(pct)
           folded == [state EXCEPT !.level = pct]
<1>1. (Acked(<<a>>, folded) /\ oursLevel' /\ ours' = ours) \/ Raised(<<a>>)
  BY DEF SetBrightness
<1>2. pct \in 1 .. 100
  BY ColourStateAssumption
<1>3. a # Refused => Lawful(a) /\ ReadsBack(a, pct)
  BY <1>2, AgreeFacts, LevelWritten, LevelReadsBack
<1>4. StateOk(folded) /\ folded.level = pct /\ folded.rgb = state.rgb /\ folded.kelvin = state.kelvin
      /\ folded.scene = state.scene /\ folded.zone = state.zone
  <2>1. StateOk(state) /\ folded = [state EXCEPT !.level = pct]
    BY AgreeFacts
  <2> HIDE DEF folded
  <2> QED
    BY <2>1, LevelHolds
<1> HIDE DEF a, folded
<1>5. CASE Raised(<<a>>)
  BY <1>3, <1>5, RaisedAgrees DEF Agrees
<1>6. CASE Acked(<<a>>, folded) /\ oursLevel' /\ ours' = ours
  <2>1. UNCHANGED <<profile, real, known>> /\ state' = folded /\ a # Refused /\ light' = Does(light, a)
    BY <1>6, AckedIs
  <2>2. Did(light', light, a) /\ light'.piece = light.piece
    BY <1>3, <2>1, AgreeFacts, DoesIt, DoesOther DEF Lawful, ReadsBack
  <2>3. light'.level = a.level /\ light'.scene = light.scene /\ light'.look = light.look
    BY <1>3, <2>1, <2>2 DEF Did, ReadsBack
  <2>4. TellInv'
    <3>1. ours' => TellsAll(state', light')
      BY <1>4, <1>6, <2>1, <2>2, <2>3, SameTells DEF AgreeInv, TellInv
    <3> QED
      BY <2>1, <3>1, TellNext
  <2>5. LevelInv'
    BY <1>2, <1>3, <1>4, <2>1, <2>3, LevelNext DEF ReadsBack
  <2> QED
    BY <2>4, <2>5 DEF Agrees
<1> QED
  BY <1>1, <1>5, <1>6

\* The level stays what it was, of the light and of the state.
LEMMA LevelKept ==
    ASSUME AgreeInv, UNCHANGED <<profile, real, known>>, light'.level = light.level, state'.level = state.level,
           oursLevel' => oursLevel
    PROVE  LevelInv'
BY LevelNext DEF AgreeInv, LevelInv

\* The level of the percent just sent.
LEMMA LevelSet ==
    ASSUME AgreeInv, TellsBack(profile), UNCHANGED <<profile, real, known>>,
           NEW pct \in 1 .. 100, NEW f, f = BrightnessFrame(pct), f # Refused, light'.level = f.level, state'.level = pct
    PROVE  LevelInv'
<1>1. /\ ~BrightnessPending(profile, known.pact) /\ LevelOk(f.level)
      /\ BrightnessPct(profile, f.level, known.pact) = pct
  BY AgreeFacts, LevelSent
<1> QED
  BY <1>1, LevelNext

LEMMA SetRgbAgrees ==
    ASSUME AgreeInv, TellsBack(profile), NEW rgb \in Colours, SetRgb(rgb)
    PROVE  Agrees
<1> DEFINE a == ColorRgbFrames(rgb, profile.scheme, profile.segments, Span, profile.pieces, profile.white)
           folded == ApplyRgb(state, rgb, Span)
<1>1. (Acked(<<a>>, folded) /\ oursLevel' = oursLevel) \/ Raised(<<a>>)
  BY DEF SetRgb
<1>2. profile.rgb
  BY DEF SetRgb
<1>3. a # Refused => Lawful(a) /\ Shown(Does(light, a), a) /\ Does(light, a).level = light.level
  BY AgreeFacts, RgbWritten
<1>4. a # Refused /\ Shown(Does(light, a), a) => TellsAll(folded, Does(light, a))
  BY <1>2, AgreeFacts, RgbTold
<1>5. folded.level = state.level
  BY AgreeFacts, RgbPaints DEF Painted
<1> HIDE DEF a, folded
<1>6. CASE Raised(<<a>>)
  BY <1>3, <1>6, RaisedAgrees DEF Agrees
<1>7. CASE Acked(<<a>>, folded) /\ oursLevel' = oursLevel
  <2>1. UNCHANGED <<profile, real, known>> /\ state' = folded /\ a # Refused /\ light' = Does(light, a)
    BY <1>7, AckedIs
  <2>2. TellsAll(state', light') /\ light'.level = light.level /\ state'.level = state.level
    BY <1>3, <1>4, <1>5, <2>1
  <2> QED
    BY <1>7, <2>1, <2>2, TellNext, LevelKept DEF Agrees
<1> QED
  BY <1>1, <1>6, <1>7

LEMMA TurnOnRgbAgrees ==
    ASSUME AgreeInv, TellsBack(profile), NEW pct \in Levels, NEW rgb \in Colours, TurnOnRgb(pct, rgb)
    PROVE  Agrees
<1> DEFINE a == BrightnessFrame(pct)
           b == ColorRgbFrames(rgb, profile.scheme, profile.segments, Span, profile.pieces, profile.white)
           lit == [state EXCEPT !.level = pct]
           folded == ApplyRgb(lit, rgb, Span)
           d == Does(light, a)
<1>1. Acked(<<a, b>>, folded) \/ Raised(<<a, b>>)
  BY DEF TurnOnRgb
<1>2. profile.rgb /\ pct \in 1 .. 100
  BY ColourStateAssumption DEF TurnOnRgb
<1>3. a # Refused => Lawful(a) /\ a.cmd = "brightness"
  BY <1>2, AgreeFacts, LevelWritten
<1>4. b # Refused => Lawful(b) /\ \A l : LightOk(l) => Shown(Does(l, b), b) /\ Does(l, b).level = l.level
  BY AgreeFacts, RgbWritten
<1>5. StateOk(lit) /\ lit.level = pct
  BY AgreeFacts, LevelHolds
<1> HIDE DEF lit
<1>6. b # Refused => \A l : Shown(l, b) => TellsAll(folded, l)
  BY <1>2, <1>5, AgreeFacts, RgbTold
<1>7. folded.level = pct
  BY <1>5, RgbPaints DEF Painted
<1> HIDE DEF a, b, folded, d
<1>8. CASE Raised(<<a, b>>)
  BY <1>3, <1>4, <1>8, RaisedAgrees DEF Agrees
<1>9. CASE Acked(<<a, b>>, folded)
  <2>1. UNCHANGED <<profile, real, known>> /\ state' = folded /\ a # Refused /\ b # Refused /\ light' = Does(d, b)
    BY <1>9, AckedIs DEF d
  <2>2. LightOk(d) /\ d.level = a.level
    <3>1. Did(d, light, a)
      BY <1>3, <2>1, AgreeFacts, DoesIt DEF Lawful, d
    <3> QED
      BY <1>3, <2>1, <3>1 DEF Did
  <2>3. Shown(light', b) /\ light'.level = a.level
    BY <1>4, <2>1, <2>2
  <2>4. TellsAll(state', light') /\ state'.level = pct
    BY <1>6, <1>7, <2>1, <2>3
  <2>5. LevelInv'
    BY <1>2, <2>1, <2>3, <2>4, LevelSet DEF a
  <2> QED
    BY <2>1, <2>4, <2>5, TellNext DEF Agrees
<1> QED
  BY <1>1, <1>8, <1>9

LEMMA HeldLevel ==
    ASSUME AgreeInv, HeldBrightness
    PROVE  state.level \in 1 .. 100
BY DEF AgreeInv, LevelInv, HeldBrightness

LEMMA SetColorTempAgrees ==
    ASSUME AgreeInv, TellsBack(profile), NEW k \in Kelvins, SetColorTemp(k)
    PROVE  Agrees
<1> DEFINE kelvin == CheckKelvin(k)
           a == ColorTemp(kelvin, profile.scheme, profile.segments, profile.pieces, profile.white)
           b == BrightnessFrame(state.level)
           frames == IF profile.withBrightness THEN <<a, b>> ELSE <<a>>
           coloured == ApplyKelvin(state, kelvin)
           levelled == [coloured EXCEPT !.level = state.level]
           folded == IF profile.withBrightness THEN levelled ELSE coloured
           d == Does(light, a)
<1>1. \/ Acked(frames, folded) /\ oursLevel' = (oursLevel \/ profile.withBrightness)
      \/ Raised(frames)
  BY DEF SetColorTemp
<1>2. profile.colorTemp /\ (profile.withBrightness => state.level \in 1 .. 100)
  BY HeldLevel DEF SetColorTemp
<1>3. a # Refused => Lawful(a) /\ Shown(d, a) /\ d.level = light.level
  BY <1>2, AgreeFacts, KelvinWritten
<1>4. profile.withBrightness /\ b # Refused => Lawful(b) /\ b.cmd = "brightness"
  BY <1>2, AgreeFacts, LevelWritten
<1>5. a # Refused => \A l : Shown(l, a) => TellsAll(coloured, l)
  BY <1>2, AgreeFacts, KelvinTold
<1>6. kelvin \in Nat \ {0}
  BY <1>2, AgreeFacts, KelvinAsked
<1> HIDE DEF kelvin
<1>7. StateOk(coloured) /\ coloured.level = state.level
  BY <1>6, AgreeFacts, ApplyKelvinFolds, KelvinPaints DEF Folds, Consistent, Painted
<1> HIDE DEF coloured
<1>8. /\ levelled.level = state.level /\ levelled.rgb = coloured.rgb /\ levelled.kelvin = coloured.kelvin
      /\ levelled.scene = coloured.scene /\ levelled.zone = coloured.zone
  BY <1>7, LevelHolds
<1> HIDE DEF a, levelled, d
<1>9. CASE ~profile.withBrightness
  <2>1. frames = <<a>> /\ folded = coloured
    BY <1>9
  <2> HIDE DEF frames, folded
  <2>2. CASE Raised(frames)
    BY <1>3, <2>1, <2>2, RaisedAgrees DEF Agrees
  <2>3. CASE Acked(frames, folded) /\ oursLevel' = (oursLevel \/ profile.withBrightness)
    <3>1. UNCHANGED <<profile, real, known>> /\ state' = coloured /\ a # Refused /\ light' = d
      BY <2>1, <2>3, AckedIs DEF d
    <3>2. TellsAll(state', light') /\ light'.level = light.level /\ state'.level = state.level
      BY <1>3, <1>5, <1>7, <3>1
    <3>3. oursLevel' => oursLevel
      BY <1>9, <2>3
    <3> QED
      BY <3>1, <3>2, <3>3, TellNext, LevelKept DEF Agrees
  <2> QED
    BY <1>1, <2>2, <2>3
<1>10. CASE profile.withBrightness
  <2>1. frames = <<a, b>> /\ folded = levelled
    BY <1>10
  <2>2. b = BrightnessFrame(state.level)
    OBVIOUS
  <2> HIDE DEF frames, folded, b
  <2>3. CASE Raised(frames)
    BY <1>3, <1>4, <1>10, <2>1, <2>3, RaisedAgrees DEF Agrees
  <2>4. CASE Acked(frames, folded)
    <3>1. UNCHANGED <<profile, real, known>> /\ state' = levelled /\ a # Refused /\ b # Refused /\ light' = Does(d, b)
      BY <2>1, <2>4, AckedIs DEF d
    <3>2. Shown(light', a) /\ light'.level = b.level
      BY <1>3, <1>4, <1>10, <3>1, BrightnessThen
    <3>3. TellsAll(coloured, light')
      BY <1>5, <3>1, <3>2
    <3>4. TellsAll(state', light')
      BY <1>8, <3>1, <3>3, SameTells
    <3>5. LevelInv'
      BY <1>2, <1>8, <1>10, <2>2, <3>1, <3>2, LevelSet
    <3> QED
      BY <3>1, <3>4, <3>5, TellNext DEF Agrees
  <2> QED
    BY <1>1, <2>3, <2>4
<1> QED
  BY <1>9, <1>10

LEMMA TurnOnKelvinAgrees ==
    ASSUME AgreeInv, TellsBack(profile), NEW pct \in Levels, NEW k \in Kelvins, TurnOnKelvin(pct, k)
    PROVE  Agrees
<1> DEFINE kelvin == CheckKelvin(k)
           a == ColorTemp(kelvin, profile.scheme, profile.segments, profile.pieces, profile.white)
           b == BrightnessFrame(pct)
           frames == IF profile.withBrightness THEN <<a, b>> ELSE <<b, a>>
           lit == [state EXCEPT !.level = pct]
           folded == ApplyKelvin(lit, kelvin)
<1>1. Acked(frames, folded) \/ Raised(frames)
  BY DEF TurnOnKelvin
<1>2. profile.colorTemp /\ pct \in 1 .. 100
  BY ColourStateAssumption DEF TurnOnKelvin
<1>3. a # Refused => Lawful(a) /\ \A l : LightOk(l) => Shown(Does(l, a), a) /\ Does(l, a).level = l.level
  BY <1>2, AgreeFacts, KelvinWritten
<1>4. b # Refused => Lawful(b) /\ b.cmd = "brightness"
  BY <1>2, AgreeFacts, LevelWritten
<1>5. StateOk(lit) /\ lit.level = pct
  BY AgreeFacts, LevelHolds
<1> HIDE DEF lit
<1>6. a # Refused => \A l : Shown(l, a) => TellsAll(folded, l)
  BY <1>2, <1>5, AgreeFacts, KelvinTold
<1>7. folded.level = pct
  <2>1. kelvin \in Nat \ {0}
    BY <1>2, AgreeFacts, KelvinAsked
  <2> HIDE DEF kelvin
  <2> QED
    BY <1>5, <2>1, KelvinPaints DEF Painted
<1>8. b = BrightnessFrame(pct)
  OBVIOUS
<1>9. frames = <<a, b>> \/ frames = <<b, a>>
  OBVIOUS
<1>10. LightOk(light)
  BY AgreeFacts
<1> HIDE DEF a, b, folded, frames
<1>11. CASE Raised(frames)
  BY <1>3, <1>4, <1>9, <1>11, RaisedAgrees DEF Agrees
<1>12. CASE Acked(frames, folded)
  <2>1. UNCHANGED <<profile, real, known>> /\ state' = folded /\ a # Refused /\ b # Refused
    BY <1>9, <1>12, AckedIs
  <2>2. Shown(light', a) /\ light'.level = b.level
    <3>1. CASE frames = <<a, b>>
      <4>1. light' = Does(Does(light, a), b)
        BY <1>12, <3>1, AckedIs
      <4>2. Shown(Does(light, a), a)
        BY <1>3, <1>10, <2>1
      <4> QED
        BY <1>4, <2>1, <4>1, <4>2, BrightnessThen
    <3>2. CASE frames = <<b, a>>
      <4>1. light' = Does(Does(light, b), a)
        BY <1>12, <3>2, AckedIs
      <4>2. Did(Does(light, b), light, b)
        BY <1>4, <1>10, <2>1, DoesIt DEF Lawful
      <4>3. LightOk(Does(light, b)) /\ Does(light, b).level = b.level
        BY <1>4, <2>1, <4>2 DEF Did
      <4> QED
        BY <1>3, <2>1, <4>1, <4>3
    <3> QED
      BY <1>9, <3>1, <3>2
  <2>3. TellsAll(state', light') /\ state'.level = pct
    BY <1>6, <1>7, <2>1, <2>2
  <2>4. LevelInv'
    BY <1>2, <1>8, <2>1, <2>2, <2>3, LevelSet
  <2> QED
    BY <2>1, <2>3, <2>4, TellNext DEF Agrees
<1> QED
  BY <1>1, <1>11, <1>12

-----------------------------------------------------------------------------
(* Scenes, segments and zones.                                             *)

LEMMA SetSceneAgrees ==
    ASSUME AgreeInv, NEW code \in Codes, SetScene(code)
    PROVE  Agrees
<1> DEFINE a == SceneActivate(code)
           folded == ApplyScene(state, code)
<1>1. (Acked(<<a>>, folded) /\ oursLevel' = oursLevel) \/ Raised(<<a>>)
  BY DEF SetScene
<1>2. code # 0
  BY ColourStateAssumption
<1>3. a.cmd = "scene" /\ a.code = code
  BY DEF SceneActivate
<1>4. \E zone : Holds(folded, state, NoColour, 0, code, zone) /\ zone = IF profile.bar THEN NoZone ELSE state.zone
  BY AgreeFacts, SceneHolds
<1> HIDE DEF a, folded
<1>5. Lawful(a)
  BY <1>3 DEF Lawful, IsFrame, FairLevel
<1>6. CASE Raised(<<a>>)
  BY <1>5, <1>6, RaisedAgrees DEF Agrees
<1>7. CASE Acked(<<a>>, folded) /\ oursLevel' = oursLevel
  <2>1. UNCHANGED <<profile, real, known>> /\ state' = folded /\ light' = Does(light, a)
    BY <1>7, AckedIs
  <2>2. Did(light', light, a)
    BY <1>5, <2>1, AgreeFacts, DoesIt DEF Lawful
  <2>3. light'.scene = code /\ light'.level = light.level /\ LightOk(light')
    BY <1>3, <2>2 DEF Did
  <2>4. /\ state'.scene = code /\ state'.rgb = NoColour /\ state'.kelvin = 0 /\ state'.level = state.level
        /\ profile.bar => state'.zone = NoZone
    BY <1>4, <2>1 DEF Holds
  <2>5. TellsAll(state', light')
    BY <1>2, <2>3, <2>4, AgreeFacts, ScenesTell
  <2> QED
    BY <1>7, <2>1, <2>3, <2>4, <2>5, TellNext, LevelKept DEF Agrees
<1> QED
  BY <1>1, <1>6, <1>7

\* A write of pieces: the level stays, and where nothing is told of the mode the state is not ours.
LEMMA PieceWritten ==
    ASSUME AgreeInv, NEW a, a # Refused => Lawful(a) /\ a.cmd \in {"colour", "pieceLevel"},
           NEW folded, folded.level = state.level,
           Acked(<<a>>, folded), oursLevel' = oursLevel, ours' => TellsAll(folded, Does(light, a))
    PROVE  Agrees
<1>1. UNCHANGED <<profile, real, known>> /\ state' = folded /\ light' = Does(light, a) /\ a # Refused
  BY AckedIs
<1>2. Did(light', light, a)
  BY <1>1, AgreeFacts, DoesIt DEF Lawful
<1>3. light'.level = light.level
  BY <1>1, <1>2 DEF Did
<1> QED
  BY <1>1, <1>3, TellNext, LevelKept DEF Agrees

\* The segments of the state aside, nothing changes.
LEMMA SegmentsAside ==
    ASSUME NEW s, StateOk(s), NEW segments, NEW r, r = [s EXCEPT !.segments = segments]
    PROVE  Holds(r, s, s.rgb, s.kelvin, s.scene, s.zone)
<1>1. r = [level |-> s.level, rgb |-> s.rgb, kelvin |-> s.kelvin, last |-> s.last, scene |-> s.scene,
           zone |-> s.zone, segments |-> segments]
  BY DEF StateOk, Fields
<1> QED
  BY <1>1 DEF Holds

LEMMA PickedHolds ==
    ASSUME NEW s, Consistent(s), NEW indices, NEW x
    PROVE  /\ StateOk(LeavesScene(UpdateSegmentsRgb(s, indices, x)))
           /\ Holds(LeavesScene(UpdateSegmentsRgb(s, indices, x)), s, s.rgb, s.kelvin, 0, s.zone)
           /\ Holds(LeavesScene(UpdateSegmentsLevel(s, indices, x)), s, s.rgb, s.kelvin, 0, s.zone)
<1> DEFINE p == UpdateSegmentsRgb(s, indices, x)
           q == UpdateSegmentsLevel(s, indices, x)
<1>1. StateOk(s) /\ StateOk(p) /\ StateOk(q)
  BY SegmentsRgbSet, SegmentsLevelSet DEF Consistent
<1>2. Holds(p, s, s.rgb, s.kelvin, s.scene, s.zone)
  BY <1>1, SegmentsAside DEF UpdateSegmentsRgb
<1>3. Holds(q, s, s.rgb, s.kelvin, s.scene, s.zone)
  BY <1>1, SegmentsAside DEF UpdateSegmentsLevel
<1> HIDE DEF p, q
<1>4. /\ StateOk(LeavesScene(p)) /\ Holds(LeavesScene(p), p, p.rgb, p.kelvin, 0, p.zone)
      /\ Holds(LeavesScene(q), q, q.rgb, q.kelvin, 0, q.zone)
  BY <1>1, SceneLeftHolds
<1>5. /\ StateOk(LeavesScene(p)) /\ Holds(LeavesScene(p), s, s.rgb, s.kelvin, 0, s.zone)
      /\ Holds(LeavesScene(q), s, s.rgb, s.kelvin, 0, s.zone)
  BY <1>2, <1>3, <1>4 DEF Holds
<1> QED
  BY <1>5 DEF p, q

LEMMA PaintsLawful ==
    ASSUME NEW f, Paints(f, Nat)
    PROVE  Lawful(f) /\ f.cmd = "colour"
BY DEF Paints, Lawful, IsFrame, FairLevel

LEMMA RangeIsNat == InRange \subseteq Nat
BY DEF InRange

LEMMA SetSegmentRgbAgrees ==
    ASSUME AgreeInv, NEW where, NEW rgb, SetSegmentRgb(where, rgb)
    PROVE  Agrees
<1> DEFINE a == SegmentRgb(where, rgb, profile.scheme, profile.segments, Span, profile.white)
           folded == LeavesScene(UpdateSegmentsRgb(state, Carried(where, ColourMaskCap), rgb))
<1>1. (Acked(<<a>>, folded) /\ ~ours' /\ oursLevel' = oursLevel) \/ Raised(<<a>>)
  BY DEF SetSegmentRgb
<1>2. a # Refused => Paints(a, InRange)
  BY AgreeFacts, SegmentRgbFrame
<1>3. folded.level = state.level
  BY AgreeFacts, PickedHolds DEF Holds
<1> HIDE DEF a, folded
<1>4. a # Refused => Lawful(a) /\ a.cmd = "colour"
  BY <1>2, PaintsLawful, RangeIsNat DEF Paints
<1>5. CASE Raised(<<a>>)
  BY <1>4, <1>5, RaisedAgrees DEF Agrees
<1> QED
  BY <1>1, <1>3, <1>4, <1>5, PieceWritten

LEMMA SetSegmentBrightnessAgrees ==
    ASSUME AgreeInv, NEW where, NEW pct \in Levels, SetSegmentBrightness(where, pct)
    PROVE  Agrees
<1> DEFINE pieces == BrightnessPieces(where)
           a == SegmentBrightness(pieces, pct, profile.scheme, profile.segments)
           folded == LeavesScene(UpdateSegmentsLevel(state, Carried(pieces, BrightnessMaskCap), pct))
<1>1. (Acked(<<a>>, folded) /\ ~ours' /\ oursLevel' = oursLevel) \/ Raised(<<a>>)
  BY DEF SetSegmentBrightness
<1>2. a # Refused => a.cmd = "pieceLevel"
  BY DEF SegmentBrightness
<1>3. folded.level = state.level
  BY AgreeFacts, PickedHolds DEF Holds
<1> HIDE DEF a, folded
<1>4. a # Refused => Lawful(a) /\ a.cmd = "pieceLevel"
  BY <1>2 DEF Lawful, IsFrame, FairLevel
<1>5. CASE Raised(<<a>>)
  BY <1>4, <1>5, RaisedAgrees DEF Agrees
<1> QED
  BY <1>1, <1>3, <1>4, <1>5, PieceWritten

LEMMA SetSegmentColorTempAgrees ==
    ASSUME AgreeInv, NEW where, NEW k \in Kelvins, SetSegmentColorTemp(where, k)
    PROVE  Agrees
<1> DEFINE a == SegmentColorTemp(where, CheckKelvin(k), profile.scheme, profile.segments,
                                 TintForKelvin(CheckKelvin(k)), profile.white)
           folded == LeavesScene(state)
<1>1. (Acked(<<a>>, folded) /\ ~ours' /\ oursLevel' = oursLevel) \/ Raised(<<a>>)
  BY DEF SetSegmentColorTemp
<1>2. a # Refused => Paints(a, InRange)
  BY AgreeFacts, SegmentKelvinSent
<1>3. folded.level = state.level
  BY AgreeFacts, SceneLeftHolds DEF Holds
<1> HIDE DEF a, folded
<1>4. a # Refused => Lawful(a) /\ a.cmd = "colour"
  BY <1>2, PaintsLawful, RangeIsNat DEF Paints
<1>5. CASE Raised(<<a>>)
  BY <1>4, <1>5, RaisedAgrees DEF Agrees
<1> QED
  BY <1>1, <1>3, <1>4, <1>5, PieceWritten

-----------------------------------------------------------------------------
(* A bar's own write.                                                      *)

\* A bar shows its Kelvin, and the other one what it did.
LEMMA ZoneTells ==
    ASSUME AgreeInv, ours, profile.bar, TellsBack(profile), light.scene = 0, NEW z \in Zones, NEW kelvin,
           NEW d, LightOk(d), d.scene = 0, \A i \in profile.zones[z] : d.look[i].kelvin = kelvin,
           \A i \in Positions \ profile.zones[z] : d.look[i] = light.look[i],
           NEW m, m.scene = 0, \A b \in Zones : m.zone[b] = IF b = z THEN kelvin ELSE state.zone[b]
    PROVE  TellsAll(m, d)
<1> SUFFICES ASSUME NEW r \in Reports(d)
             PROVE  Tells(m, r)
  BY DEF TellsAll
<1>1. profile.decode = "pair" /\ profile \in Profiles
  BY AgreeFacts, ProfileFacts DEF BarsReportPairs
<1>2. /\ r.kind = "pair"
      /\ \E i \in profile.zones[0], j \in profile.zones[1] :
            r.kelvins[0] = d.look[i].kelvin /\ r.kelvins[1] = d.look[j].kelvin
  BY <1>1, ReportIs
<1>3. PICK i \in profile.zones[0], j \in profile.zones[1] :
         r.kelvins[0] = d.look[i].kelvin /\ r.kelvins[1] = d.look[j].kelvin
  BY <1>2
<1>4. PICK q \in Reports(light) : /\ q.kind = "pair" /\ q.kelvins[0] = light.look[i].kelvin
                                  /\ q.kelvins[1] = light.look[j].kelvin
  BY <1>1, <1>3, PairReported
<1>5. Tells(state, q)
  BY <1>4 DEF AgreeInv, TellInv, TellsAll
<1>6. \A b \in Zones : state.zone[b] = q.kelvins[b]
  BY <1>4, <1>5 DEF Tells
<1>7. 0 \in Zones /\ 1 \in Zones /\ z \in {0, 1} /\ \A b \in Zones : b = 0 \/ b = 1
  BY DEF Zones
<1>8. profile.zones[0] \cap profile.zones[1] = {} /\ \A b \in Zones : profile.zones[b] \subseteq Positions
  BY <1>1, ProfileFacts DEF TellsBack, OneLook
<1>9. m.zone[0] = r.kelvins[0] /\ m.zone[1] = r.kelvins[1]
  <2>1. CASE z = 0
    <3>1. d.look[j] = light.look[j] /\ d.look[i].kelvin = kelvin
      BY <1>3, <1>7, <1>8, <2>1
    <3>2. m.zone[0] = kelvin /\ m.zone[1] = state.zone[1]
      BY <1>7, <2>1
    <3> QED
      BY <1>3, <1>4, <1>6, <1>7, <3>1, <3>2
  <2>2. CASE z = 1
    <3>1. d.look[i] = light.look[i] /\ d.look[j].kelvin = kelvin
      BY <1>3, <1>7, <1>8, <2>2
    <3>2. m.zone[1] = kelvin /\ m.zone[0] = state.zone[0]
      BY <1>7, <2>2
    <3> QED
      BY <1>3, <1>4, <1>6, <1>7, <3>1, <3>2
  <2> QED
    BY <1>7, <2>1, <2>2
<1>10. \A b \in Zones : m.zone[b] = r.kelvins[b]
  BY <1>7, <1>9
<1> QED
  BY <1>2, <1>10 DEF Tells

\* The frame of a zone shows its Kelvin there and nowhere else.
LEMMA ZoneFrame ==
    ASSUME profile \in Profiles, TellsBack(profile), NEW z \in Zones, NEW f, NEW kelvin \in Nat, Paints(f, {kelvin}),
           f.mask = profile.zones[z] \/ f.mask = MaskBits(profile.zones[z], profile.segments, ColourMaskCap),
           NEW l, LightOk(l), NEW d, d = Does(l, f)
    PROVE  /\ LightOk(d) /\ d.scene = 0 /\ d.level = l.level
           /\ \A i \in profile.zones[z] : d.look[i].kelvin = kelvin
           /\ \A i \in Positions \ profile.zones[z] : d.look[i] = l.look[i]
<1>1. f.cmd = "colour" /\ Look(f).kelvin = kelvin /\ IsFrame(f)
  BY DEF Paints, IsFrame
<1>2. profile.zones[z] \subseteq Moded /\ Moded \subseteq Pieces /\ Moded \subseteq Positions
  BY ModedPieces
<1>3. f.mask = profile.zones[z]
  BY <1>2 DEF MaskBits, Moded
<1>4. Did(d, l, f)
  BY <1>1, DoesIt
<1> QED
  BY <1>1, <1>2, <1>3, <1>4 DEF Did

LEMMA ZoneRgbShows ==
    ASSUME profile \in Profiles, profile.bar, TellsBack(profile), NEW where, NEW rgb, NEW f, f # Refused,
           f = SegmentRgb(where, rgb, profile.scheme, profile.segments, Span, profile.white)
    PROVE  /\ Paints(f, {RgbAsKelvin(rgb, profile.scheme, Span)})
           /\ f.mask \in {where, MaskBits(where, profile.segments, ColourMaskCap)}
<1> DEFINE kelvin == RgbAsKelvin(rgb, profile.scheme, Span)
<1>1. profile.white \in WhiteTypes /\ profile.white # "rgb_self_tem_color"
  BY ProfileFacts DEF TellsBack, OneLook
<1>2. kelvin \in Nat /\ (kelvin # 0 => profile.scheme \in PickAsKelvinSchemes)
  BY PickedKelvin
<1>3. CASE profile.scheme = "h60a6"
  <2>1. f = IF kelvin # 0 THEN SegmentColorTemp(where, kelvin, profile.scheme, profile.segments, rgb, profile.white)
            ELSE Op15Colour(rgb, 0, Black, where, profile.segments)
    BY <1>3 DEF SegmentRgb
  <2> HIDE DEF kelvin
  <2>2. CASE kelvin # 0
    <3>1. f = SegmentColorTemp(where, kelvin, profile.scheme, profile.segments, rgb, profile.white)
      BY <2>1, <2>2
    <3>2. Paints(f, {kelvin}) /\ f.mask = MaskBits(where, profile.segments, ColourMaskCap)
      BY <1>1, <1>2, <3>1, KelvinSlot
    <3> QED
      BY <3>2 DEF kelvin
  <2>3. CASE kelvin = 0
    <3>1. f = Op15Colour(rgb, 0, Black, where, profile.segments)
      BY <2>1, <2>3
    <3>2. Paints(f, {0}) /\ f.mask = MaskBits(where, profile.segments, ColourMaskCap)
      BY <3>1, Op15Look
    <3> QED
      BY <2>3, <3>2 DEF kelvin
  <2> QED
    BY <2>2, <2>3
<1>4. CASE profile.scheme = "h61a8"
  <2>1. kelvin = 0 /\ f = Rgbic0b(rgb, where)
    BY <1>2, <1>4 DEF SegmentRgb, PickAsKelvinSchemes
  <2>2. Paints(f, {0}) /\ f.mask = where
    BY <2>1, Rgbic0bLook
  <2> QED
    BY <2>1, <2>2
<1>5. CASE profile.scheme \notin {"h60a6", "h61a8"}
  BY <1>5 DEF SegmentRgb
<1> QED
  BY <1>3, <1>4, <1>5

\* The fold of one bar's Kelvin.
BarSet(m, s, z, kelvin) ==
    /\ m.level = s.level
    /\ profile.bar => m.scene = s.scene /\ \A b \in Zones : m.zone[b] = IF b = z THEN kelvin ELSE s.zone[b]

LEMMA OneBar ==
    ASSUME NEW s, StateOk(s), NEW z \in Zones, NEW kelvin \in Nat
    PROVE  BarSet(ApplyZoneKelvin(s, [b \in {z} |-> kelvin]), s, z, kelvin)
<1> DEFINE k == [b \in {z} |-> kelvin]
           r == ApplyZoneKelvin(s, k)
<1> SUFFICES BarSet(r, s, z, kelvin)
  OBVIOUS
<1>1. CASE ~profile.bar
  <2>1. r = s
    BY <1>1, NoBars
  <2> HIDE DEF r
  <2> QED
    BY <1>1, <2>1 DEF BarSet
<1>2. CASE profile.bar
  <2>1. Max({kelvin, 0}) = kelvin
    BY DEF Max
  <2>2. DOMAIN k = {z} /\ k[z] = kelvin
    OBVIOUS
  <2>3. \A b \in DOMAIN k : k[b] \in Int
    BY <2>2
  <2> HIDE DEF k
  <2>4. PICK zone \in [Zones -> Nat], whole \in Nat :
           /\ \A b \in Zones : zone[b] = IF b \in DOMAIN k THEN Max({k[b], 0}) ELSE s.zone[b]
           /\ whole = IF zone[0] = zone[1] THEN zone[0] ELSE 0
           /\ StateOk(r) /\ r.level = s.level /\ r.scene = s.scene /\ r.segments = s.segments
           /\ r.zone = zone /\ r.kelvin = whole /\ r.rgb = IF whole # 0 THEN NoColour ELSE s.rgb
           /\ Remembered(r)
    BY <1>2, <2>3, BarFields
  <2> HIDE DEF r
  <2>5. \A b \in Zones : zone[b] = IF b = z THEN kelvin ELSE s.zone[b]
    BY <2>1, <2>2, <2>4
  <2> QED
    BY <2>4, <2>5 DEF BarSet
<1> QED
  BY <1>1, <1>2

\* A zone's write, whatever it is of.
LEMMA ZoneWritten ==
    ASSUME AgreeInv, TellsBack(profile), NEW z \in Zones, NEW kelvin \in Nat,
           NEW a, a # Refused => Paints(a, Nat),
           a # Refused /\ profile.bar => /\ Paints(a, {kelvin})
                                         /\ a.mask \in {profile.zones[z], MaskBits(profile.zones[z], profile.segments, ColourMaskCap)},
           NEW s, StateOk(s), Holds(s, state, state.rgb, state.kelvin, 0, state.zone),
           NEW folded, BarSet(folded, s, z, kelvin),
           Acked(<<a>>, folded), oursLevel' = oursLevel, ours' = BarStaysOurs
    PROVE  Agrees
<1>1. a # Refused
  BY AckedIs
<1>2. Lawful(a) /\ a.cmd \in {"colour", "pieceLevel"}
  BY <1>1, PaintsLawful
<1>3. folded.level = state.level
  BY DEF BarSet, Holds
<1>4. ASSUME ours'
      PROVE  TellsAll(folded, Does(light, a))
  <2>1. ours /\ profile.bar /\ light.scene = 0
    BY <1>4 DEF BarStaysOurs
  <2> DEFINE d == Does(light, a)
  <2>2. /\ LightOk(d) /\ d.scene = 0
        /\ \A i \in profile.zones[z] : d.look[i].kelvin = kelvin
        /\ \A i \in Positions \ profile.zones[z] : d.look[i] = light.look[i]
    BY <1>1, <2>1, AgreeFacts, ZoneFrame
  <2>3. folded.scene = 0 /\ \A b \in Zones : folded.zone[b] = IF b = z THEN kelvin ELSE state.zone[b]
    BY <2>1 DEF BarSet, Holds
  <2> HIDE DEF d
  <2>4. TellsAll(folded, d)
    BY <2>1, <2>2, <2>3, ZoneTells
  <2> QED
    BY <2>4 DEF d
<1> QED
  BY <1>2, <1>3, <1>4, PieceWritten

LEMMA SetZoneRgbAgrees ==
    ASSUME AgreeInv, TellsBack(profile), NEW z \in Zones, NEW rgb, SetZoneRgb(z, rgb)
    PROVE  Agrees
<1> DEFINE where == profile.zones[z]
           kelvin == RgbAsKelvin(rgb, profile.scheme, Span)
           a == SegmentRgb(where, rgb, profile.scheme, profile.segments, Span, profile.white)
           picked == LeavesScene(UpdateSegmentsRgb(state, where, rgb))
           folded == ApplyZoneKelvin(picked, [b \in {z} |-> kelvin])
<1>1. (Acked(<<a>>, folded) /\ ours' = BarStaysOurs /\ oursLevel' = oursLevel) \/ Raised(<<a>>)
  BY DEF SetZoneRgb
<1>2. a # Refused => Paints(a, InRange)
  BY AgreeFacts, SegmentRgbFrame
<1>3. a # Refused /\ profile.bar => /\ Paints(a, {kelvin})
                                    /\ a.mask \in {where, MaskBits(where, profile.segments, ColourMaskCap)}
  BY AgreeFacts, ZoneRgbShows
<1>4. StateOk(picked) /\ Holds(picked, state, state.rgb, state.kelvin, 0, state.zone)
  BY AgreeFacts, PickedHolds
<1>5. kelvin \in Nat
  BY PickedKelvin
<1> HIDE DEF picked, kelvin, a
<1>6. BarSet(folded, picked, z, kelvin)
  BY <1>4, <1>5, OneBar
<1> HIDE DEF folded
<1>7. a # Refused => Paints(a, Nat) /\ Lawful(a)
  BY <1>2, PaintsLawful, RangeIsNat DEF Paints
<1>8. CASE Raised(<<a>>)
  BY <1>7, <1>8, RaisedAgrees DEF Agrees
<1>9. CASE Acked(<<a>>, folded) /\ ours' = BarStaysOurs /\ oursLevel' = oursLevel
  BY <1>3, <1>4, <1>5, <1>6, <1>7, <1>9, ZoneWritten
<1> QED
  BY <1>1, <1>8, <1>9

LEMMA SetZoneColorTempAgrees ==
    ASSUME AgreeInv, TellsBack(profile), NEW z \in Zones, NEW k \in Kelvins, SetZoneColorTemp(z, k)
    PROVE  Agrees
<1> DEFINE where == profile.zones[z]
           kelvin == CheckKelvin(k)
           a == SegmentColorTemp(where, kelvin, profile.scheme, profile.segments, TintForKelvin(kelvin), profile.white)
           left == LeavesScene(state)
           folded == ApplyZoneKelvin(left, [b \in {z} |-> kelvin])
<1>1. (Acked(<<a>>, folded) /\ ours' = BarStaysOurs /\ oursLevel' = oursLevel) \/ Raised(<<a>>)
  BY DEF SetZoneColorTemp
<1>2. a # Refused => Paints(a, InRange)
  BY AgreeFacts, SegmentKelvinSent
<1>3. kelvin \in Nat
  BY AgreeFacts, KelvinFacts DEF AgreeInv
<1>4. profile.white \in WhiteTypes /\ (profile.bar => profile.white # "rgb_self_tem_color")
  BY AgreeFacts, ProfileFacts DEF TellsBack, OneLook
<1> HIDE DEF kelvin
<1>5. a # Refused /\ profile.bar => /\ Paints(a, {kelvin})
                                    /\ a.mask \in {where, MaskBits(where, profile.segments, ColourMaskCap)}
  BY <1>3, <1>4, KelvinSlot
<1>6. StateOk(left) /\ Holds(left, state, state.rgb, state.kelvin, 0, state.zone)
  BY AgreeFacts, SceneLeftHolds
<1> HIDE DEF left, a
<1>7. BarSet(folded, left, z, kelvin)
  BY <1>3, <1>6, OneBar
<1> HIDE DEF folded
<1>8. a # Refused => Paints(a, Nat) /\ Lawful(a)
  BY <1>2, PaintsLawful, RangeIsNat DEF Paints
<1>9. CASE Raised(<<a>>)
  BY <1>8, <1>9, RaisedAgrees DEF Agrees
<1>10. CASE Acked(<<a>>, folded) /\ ours' = BarStaysOurs /\ oursLevel' = oursLevel
  BY <1>3, <1>5, <1>6, <1>7, <1>8, <1>10, ZoneWritten
<1> QED
  BY <1>1, <1>9, <1>10

-----------------------------------------------------------------------------
(* The reads, and what is not ours.                                        *)

\* A fold of the light's only report: the state holds what it tells.
LEMMA ModeRead ==
    ASSUME profile \in Profiles, LightOk(light), NEW s, Consistent(s), NEW r \in Reports(light)
    PROVE  /\ Reports(light) = {r} => TellsAll(ApplyMode(s, r), light)
           /\ ApplyMode(s, r).level = s.level
<1>1. IsReport(r)
  BY ReportsAre
<1>2. Tells(ApplyMode(s, r), r) /\ ApplyMode(s, r).level = s.level
  BY <1>1, ModeTells DEF Keeps
<1> QED
  BY <1>2 DEF TellsAll

LEMMA ReadModeAgrees ==
    ASSUME AgreeInv, ReadMode
    PROVE  Agrees
<1>1. PICK r \in Reports(light) : state' = ApplyMode(state, r)
  BY DEF ReadMode
<1>2. /\ UNCHANGED <<profile, real, known, light>> /\ oursLevel' = oursLevel
      /\ ours' => Reports(light) = {r}
  BY DEF ReadMode
<1>3. (Reports(light) = {r} => TellsAll(state', light)) /\ state'.level = state.level
  BY <1>1, AgreeFacts, ModeRead
<1>4. TellInv'
  BY <1>2, <1>3, TellNext
<1>5. LevelInv'
  BY <1>2, <1>3, LevelKept
<1> QED
  BY <1>4, <1>5 DEF Agrees

\* The brightness just read is the light's.
LEMMA LevelRead ==
    ASSUME AgreeInv, TellsBack(profile), UNCHANGED <<profile, real, known, light>>,
           state'.level = BrightnessPct(profile, light.level, known.pact),
           oursLevel' = ~BrightnessPending(profile, known.pact)
    PROVE  LevelInv'
<1>1. BrightnessPct(profile, light.level, known.pact) \in {Unknown} \cup 1 .. 100
  <2>1. CASE BrightnessPending(profile, known.pact)
    BY <2>1 DEF BrightnessPct
  <2>2. CASE ~BrightnessPending(profile, known.pact)
    BY <2>2, AgreeFacts, PercentRead
  <2> QED
    BY <2>1, <2>2
<1> QED
  BY <1>1, AgreeFacts, LevelNext

LEMMA ReadBrightnessAgrees ==
    ASSUME AgreeInv, TellsBack(profile), ReadBrightness
    PROVE  Agrees
<1> DEFINE level == BrightnessPct(profile, light.level, known.pact)
           lit == [state EXCEPT !.level = level]
<1>1. /\ UNCHANGED <<profile, real, known, light>> /\ state' = lit /\ ours' = ours
      /\ oursLevel' = ~BrightnessPending(profile, known.pact)
  BY DEF ReadBrightness
<1>2. /\ lit.level = level /\ lit.rgb = state.rgb /\ lit.kelvin = state.kelvin
      /\ lit.scene = state.scene /\ lit.zone = state.zone
  <2>1. StateOk(state) /\ lit = [state EXCEPT !.level = level]
    BY AgreeFacts
  <2> HIDE DEF lit, level
  <2> QED
    BY <2>1, LevelHolds
<1> HIDE DEF lit
<1>3. ours' => TellsAll(state', light')
  BY <1>1, <1>2, SameTells DEF AgreeInv, TellInv
<1>4. TellInv'
  BY <1>1, <1>3, TellNext
<1>5. LevelInv'
  BY <1>1, <1>2, LevelRead
<1> QED
  BY <1>4, <1>5 DEF Agrees

LEMMA ReadSegmentsAgrees ==
    ASSUME AgreeInv, ReadSegments
    PROVE  Agrees
<1> DEFINE segments == [i \in Positions |-> IF i \in Pieces THEN Segment(light, i) ELSE NoSegment]
           walked == [state EXCEPT !.segments = segments]
<1>1. UNCHANGED <<profile, real, known, light, ours, oursLevel>> /\ state' = walked
  BY DEF ReadSegments
<1>2. Holds(walked, state, state.rgb, state.kelvin, state.scene, state.zone)
  <2>1. StateOk(state) /\ walked = [state EXCEPT !.segments = segments]
    BY AgreeFacts
  <2> HIDE DEF walked, segments
  <2> QED
    BY <2>1, SegmentsAside
<1> HIDE DEF walked
<1>3. ours' => TellsAll(state', light')
  BY <1>1, <1>2, SameTells DEF AgreeInv, TellInv, Holds
<1>4. TellInv'
  BY <1>1, <1>3, TellNext
<1>5. LevelInv'
  BY <1>1, <1>2, LevelKept DEF Holds
<1> QED
  BY <1>4, <1>5 DEF Agrees

LEMMA ReadStatusAgrees ==
    ASSUME AgreeInv, TellsBack(profile), ReadStatus
    PROVE  Agrees
<1>1. PICK n \in Pieces \cup {-1}, r \in Reports(light) :
         LET prefix == {i \in Pieces : i <= n}
             lit == [state EXCEPT !.level = BrightnessPct(profile, light.level, known.pact)]
         IN  /\ state' = ApplyMode(MergeSegments(lit, [i \in prefix |-> Segment(light, i)]), r)
             /\ oursLevel' = ~BrightnessPending(profile, known.pact)
             /\ ours' = (Reports(light) = {r})
             /\ UNCHANGED <<profile, real, known, light>>
  BY DEF ReadStatus
<1> DEFINE prefix == {i \in Pieces : i <= n}
           level == BrightnessPct(profile, light.level, known.pact)
           lit == [state EXCEPT !.level = level]
           reported == [i \in prefix |-> Segment(light, i)]
           merged == MergeSegments(lit, reported)
<1>2. /\ state' = ApplyMode(merged, r)
      /\ oursLevel' = ~BrightnessPending(profile, known.pact)
      /\ ours' = (Reports(light) = {r})
      /\ UNCHANGED <<profile, real, known, light>>
  BY <1>1
<1>3. Consistent(lit) /\ lit.level = level
  <2>1. Consistent(lit)
    BY AgreeFacts, LevelFolds DEF Folds
  <2>2. StateOk(state) /\ lit = [state EXCEPT !.level = level]
    BY AgreeFacts
  <2> HIDE DEF lit, level
  <2>3. lit.level = level
    BY <2>2, LevelHolds
  <2> QED
    BY <2>1, <2>3
<1> HIDE DEF lit, prefix
<1>4. \A i \in DOMAIN reported : IsSegment(reported[i])
  BY DEF IsSegment, Segment
<1> HIDE DEF reported
<1>5. Consistent(merged) /\ merged.level = level
  BY <1>3, <1>4, SegmentsMerged, MergedHolds DEF Holds
<1> HIDE DEF merged
<1>6. (Reports(light) = {r} => TellsAll(state', light)) /\ state'.level = level
  BY <1>2, <1>5, AgreeFacts, ModeRead
<1>7. TellInv'
  BY <1>2, <1>6, TellNext
<1>8. LevelInv'
  BY <1>2, <1>6, LevelRead
<1> QED
  BY <1>7, <1>8 DEF Agrees

\* The pact learnt sets the range of the brightness, and until then no brightness is ours.
LEMMA LearnPactAgrees ==
    ASSUME AgreeInv, LearnPact
    PROVE  Agrees
<1>1. UNCHANGED <<profile, real, state, light, ours, oursLevel>> /\ known.pact = 0
  BY DEF LearnPact, history
<1>2. known'.version = known.version
  <2>1. known' = [known EXCEPT !.pact = real.pact] /\ known = [version |-> known.version, pact |-> known.pact]
    BY DEF LearnPact, AgreeInv, HeldInv, RevisionOk
  <2>2. known' = [version |-> known.version, pact |-> real.pact]
    BY <2>1
  <2> QED
    BY <2>2
<1>3. TellInv'
  BY <1>1, <1>2, TellNext DEF AgreeInv, TellInv
<1>4. LevelOk(light.level)'
  BY <1>1 DEF AgreeInv, LevelInv, LevelOk, LevelSpan, BrightnessRange
<1>5. ASSUME oursLevel
      PROVE  /\ ~BrightnessPending(profile, known'.pact)
             /\ state.level = BrightnessPct(profile, light.level, known'.pact)
  <2>1. /\ ~BrightnessPending(profile, known.pact)
        /\ state.level = BrightnessPct(profile, light.level, known.pact)
    BY <1>5 DEF AgreeInv, LevelInv
  <2>2. profile.levelByPact = {}
    BY <1>1, <2>1 DEF BrightnessPending
  <2> QED
    BY <2>1, <2>2 DEF BrightnessPending, BrightnessPct, BrightnessRange
<1>6. LevelInv'
  BY <1>1, <1>4, <1>5 DEF AgreeInv, LevelInv, BrightnessPending, BrightnessPct, BrightnessRange
<1> QED
  BY <1>3, <1>6 DEF Agrees

\* The version learnt moves the range of the heads' colours only where a profile of heads is gated by one.
LEMMA LearnVersionAgrees ==
    ASSUME AgreeInv, TellsBack(profile), LearnVersion
    PROVE  Agrees
<1>1. UNCHANGED <<profile, real, state, light, ours, oursLevel>> /\ profile.byVersion # {}
  BY DEF LearnVersion, history, Asks
<1>2. known'.pact = known.pact
  <2>1. known' = [known EXCEPT !.version = real.version] /\ known = [version |-> known.version, pact |-> known.pact]
    BY DEF LearnVersion, AgreeInv, HeldInv, RevisionOk
  <2>2. known' = [version |-> real.version, pact |-> known.pact]
    BY <2>1
  <2> QED
    BY <2>2
<1>3. TellInv'
  <2>1. Reports(light)' = Reports(light)
    <3>1. Moded' = Moded
      BY <1>1 DEF Moded, Pieces
    <3> QED
      BY <1>1, <3>1 DEF Reports, Looks, Colour
  <2>2. ASSUME NEW r \in Reports(light), Tells(state, r)
        PROVE  Tells(state, r)'
    <3>1. profile.decode # "heads"
      BY <1>1 DEF TellsBack, PicksTold
    <3>2. r.kind \in {"scene", "none", "kelvin", "colour", "pair"}
      BY <3>1, AgreeFacts, ReportIs
    <3> QED
      BY <1>1, <2>2, <3>2 DEF Tells, Reportable
  <2> QED
    BY <1>1, <2>1, <2>2 DEF AgreeInv, TellInv, TellsAll
<1>4. LevelInv'
  BY <1>1, <1>2 DEF AgreeInv, LevelInv, LevelOk, LevelSpan, BrightnessRange, BrightnessPct, BrightnessPending
<1> QED
  BY <1>3, <1>4 DEF Agrees

LEMMA ElsewhereAgrees ==
    ASSUME AgreeInv, Elsewhere
    PROVE  Agrees
<1>1. UNCHANGED <<profile, real, known, state, oursLevel>> /\ ~ours'
  BY DEF Elsewhere
<1>2. light = [level |-> light.level, look |-> light.look, piece |-> light.piece, scene |-> light.scene]
  BY AgreeFacts DEF LightOk
<1>3. light'.level = light.level
  <2>1. ASSUME NEW c, light' = [light EXCEPT !.scene = 0, !.look = [i \in Positions |->
                                    IF i \in Pieces THEN [kelvin |-> 0, shown |-> c] ELSE @[i]]]
        PROVE  light'.level = light.level
    <3> DEFINE look == [i \in Positions |-> IF i \in Pieces THEN [kelvin |-> 0, shown |-> c] ELSE light.look[i]]
    <3>1. light' = [light EXCEPT !.scene = 0, !.look = look]
      BY <1>2, <2>1
    <3> HIDE DEF look
    <3>2. light' = [level |-> light.level, look |-> look, piece |-> light.piece, scene |-> 0]
      BY <1>2, <3>1
    <3> QED
      BY <3>2
  <2>2. ASSUME NEW code, light' = [light EXCEPT !.scene = code]
        PROVE  light'.level = light.level
    <3>1. light' = [level |-> light.level, look |-> light.look, piece |-> light.piece, scene |-> code]
      BY <1>2, <2>2
    <3> QED
      BY <3>1
  <2> QED
    BY <2>1, <2>2 DEF Elsewhere
<1>4. TellInv'
  BY <1>1 DEF TellInv
<1>5. LevelInv'
  BY <1>1, <1>3, LevelKept
<1> QED
  BY <1>4, <1>5 DEF Agrees

LEMMA AgreeInitially ==
    ASSUME Init
    PROVE  AgreeInv
<1>1. HeldInv
  BY HeldInitially
<1>2. ~ours /\ ~oursLevel
  BY DEF Init
<1>3. light.level = 100 /\ state.level = Unknown
  BY DEF Init
<1>4. TellInv
  BY <1>2 DEF TellInv
<1>5. LevelInv
  BY <1>2, <1>3 DEF LevelInv, LevelOk
<1> QED
  BY <1>1, <1>4, <1>5 DEF AgreeInv

LEMMA AgreeStep ==
    ASSUME AgreeInv, TellsBack(profile), [Next]_vars
    PROVE  AgreeInv'
<1> SUFFICES Agrees
  BY HeldStep DEF Agrees, AgreeInv
<1>1. CASE Setters
  <2>1. ASSUME NEW pct \in Levels, SetBrightness(pct) PROVE Agrees
    BY <2>1, SetBrightnessAgrees
  <2>2. ASSUME NEW c \in Colours, SetRgb(c) PROVE Agrees
    BY <2>2, SetRgbAgrees
  <2>3. ASSUME NEW k \in Kelvins, SetColorTemp(k) PROVE Agrees
    BY <2>3, SetColorTempAgrees
  <2>4. ASSUME NEW pct \in Levels, NEW c \in Colours, TurnOnRgb(pct, c) PROVE Agrees
    BY <2>4, TurnOnRgbAgrees
  <2>5. ASSUME NEW pct \in Levels, NEW k \in Kelvins, TurnOnKelvin(pct, k) PROVE Agrees
    BY <2>5, TurnOnKelvinAgrees
  <2>6. ASSUME NEW code \in Codes, SetScene(code) PROVE Agrees
    BY <2>6, SetSceneAgrees
  <2> QED
    BY <1>1, <2>1, <2>2, <2>3, <2>4, <2>5, <2>6 DEF Setters
<1>2. CASE PieceSetters
  <2>1. \A x \in Picks : x \subseteq Pieces
    BY DEF Picks
  <2>2. ASSUME NEW x \in Picks, NEW c \in Colours, SetSegmentRgb(x, c) PROVE Agrees
    BY <2>1, <2>2, SetSegmentRgbAgrees
  <2>3. ASSUME NEW x \in Picks, NEW pct \in Levels, SetSegmentBrightness(x, pct) PROVE Agrees
    BY <2>1, <2>3, SetSegmentBrightnessAgrees
  <2>4. ASSUME NEW x \in Picks, NEW k \in Kelvins, SetSegmentColorTemp(x, k) PROVE Agrees
    BY <2>1, <2>4, SetSegmentColorTempAgrees
  <2>5. ASSUME NEW z \in Zones, NEW c \in Colours, SetZoneRgb(z, c) PROVE Agrees
    BY <2>5, SetZoneRgbAgrees
  <2>6. ASSUME NEW z \in Zones, NEW k \in Kelvins, SetZoneColorTemp(z, k) PROVE Agrees
    BY <2>6, SetZoneColorTempAgrees
  <2> QED
    BY <1>2, <2>2, <2>3, <2>4, <2>5, <2>6 DEF PieceSetters
<1>3. CASE Reads
  BY <1>3, ReadModeAgrees, ReadBrightnessAgrees, ReadSegmentsAgrees, ReadStatusAgrees DEF Reads
<1>4. CASE LearnPact \/ LearnVersion
  BY <1>4, LearnPactAgrees, LearnVersionAgrees
<1>5. CASE Elsewhere
  BY <1>5, ElsewhereAgrees
<1>6. CASE UNCHANGED vars
  <2>1. UNCHANGED <<profile, real, known, state, light, ours, oursLevel>>
    BY <1>6 DEF vars
  <2>2. TellInv'
    BY <2>1, TellNext DEF AgreeInv, TellInv
  <2>3. LevelInv'
    BY <2>1, LevelKept
  <2> QED
    BY <2>2, <2>3 DEF Agrees
<1> QED
  BY <1>1, <1>2, <1>3, <1>4, <1>5, <1>6 DEF Next

\* A poll after a write, or after a read, changes nothing the user sees, for every profile whose reports can
\* give back what is written (_fold.py, wire/parse.py): the light's own report agrees with the state.
THEOREM OwnReportsAgree ==
    ASSUME \A p \in Profiles : TellsBack(p)
    PROVE  Spec => []OwnReportAgrees
<1>1. Init => AgreeInv
  BY AgreeInitially
<1>2. AgreeInv /\ [Next]_vars => AgreeInv'
  <2>1. AgreeInv => TellsBack(profile)
    BY AgreeFacts
  <2> QED
    BY <2>1, AgreeStep
<1>3. AgreeInv => OwnReportAgrees
  <2> SUFFICES ASSUME AgreeInv
               PROVE  OwnReportAgrees
    OBVIOUS
  <2>1. ASSUME ours, Reportable(state), NEW r \in Reports(light)
        PROVE  Colours4(ApplyMode(state, r)) = Colours4(state)
    <3>1. Tells(state, r)
      BY <2>1 DEF AgreeInv, TellInv, TellsAll
    <3> QED
      BY <2>1, <3>1, AgreeFacts, TellsAgree
  <2>2. oursLevel => state.level = BrightnessPct(profile, light.level, known.pact)
    BY DEF AgreeInv, LevelInv
  <2> QED
    BY <2>1, <2>2 DEF OwnReportAgrees
<1> QED
  BY <1>1, <1>2, <1>3, PTL DEF Spec
=============================================================================
