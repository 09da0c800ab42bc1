--------------------------- MODULE MCColourState ---------------------------
(* ColourState over one profile of every colour scheme, every layout its   *)
(* mode report has, both kinds of gated range and a strip whose last       *)
(* segment no colour mask reaches.                                         *)
EXTENDS ColourState, TLC

MCPositions == {0, 1, 60}

\* Two tints of 4000 K; 6500 K is outside the narrow ranges below.
MCKelvinByTint == ("t40" :> 4000) @@ ("t40b" :> 4000) @@ ("t30" :> 3000) @@ ("t65" :> 6500)
MCFirstTint == (4000 :> "t40") @@ (3000 :> "t30") @@ (6500 :> "t65")

Bare == [scheme |-> "h60a6", segments |-> 2, pieces |-> 2, at |-> {0, 1}, white |-> "rgb_white", span |-> <<2200, 6500>>,
         byVersion |-> {}, byPact |-> {}, levelByPact |-> {}, levels |-> <<>>, colorTemp |-> TRUE, rgb |-> TRUE,
         pick |-> FALSE, pickLevel |-> FALSE, pickKelvin |-> FALSE, wholeKelvin |-> FALSE, withBrightness |-> FALSE,
         groups |-> {}, bar |-> FALSE, zones |-> [z \in Zones |-> {}], decode |-> "kelvin", reportsKelvin |-> TRUE,
         status |-> FALSE]

Picked(p) == [p EXCEPT !.pick = TRUE, !.pickLevel = TRUE, !.pickKelvin = TRUE]
TwoZones(p) == [p EXCEPT !.zones = [z \in Zones |-> {z}]]
Gate(lo, hi, key) == [key |-> key, lo |-> lo, hi |-> hi]

Ceiling == [Picked(Bare) EXCEPT !.status = TRUE]                                            \* H60A6
Bars == [TwoZones(Bare) EXCEPT !.bar = TRUE, !.pick = TRUE, !.decode = "pair", !.levels = <<20, 254>>]  \* H6047
Heads == [Bare EXCEPT !.decode = "heads", !.pick = TRUE]                                    \* H7061
Strip == [Bare EXCEPT !.segments = 64, !.at = {0, 60}, !.white = "rgb_self_tem_color", !.decode = "colour",
                      !.pick = TRUE]
Grouped == [Picked(Bare) EXCEPT !.groups = {{0, 1}}, !.wholeKelvin = TRUE, !.withBrightness = TRUE,
                                !.white = "rgb_black", !.decode = "colour"]
Rope == [Picked(Bare) EXCEPT !.scheme = "h61a8", !.span = <<>>, !.colorTemp = FALSE, !.reportsKelvin = FALSE,
                             !.pickLevel = FALSE, !.pickKelvin = FALSE]                     \* H61A8
Bulb == [Bare EXCEPT !.scheme = "h6006", !.segments = 0, !.at = {0}, !.decode = "colour", !.byVersion = {Gate(2700, 6500, 2)}]
Lamp == [Bare EXCEPT !.scheme = "h6188", !.segments = 0, !.at = {0}, !.decode = "colour",
                     !.byPact = {Gate(2700, 6500, 1), Gate(2200, 4000, 2)},
                     !.levelByPact = {Gate(1, 100, 1), Gate(40, 254, 2)}]
Table == [Bare EXCEPT !.scheme = "h6006", !.segments = 0, !.at = {0}, !.decode = "rgb"]     \* H6052
Panels == [Bare EXCEPT !.scheme = "h6061", !.segments = 1, !.at = {0}, !.pieces = 2, !.decode = "colour"]
Old == [Bare EXCEPT !.scheme = "legacy_02", !.segments = 0, !.at = {0}, !.decode = "none"]
Candle == [Bare EXCEPT !.scheme = "kelvin_v9", !.segments = 1, !.at = {0}, !.rgb = FALSE, !.decode = "none"]

MCProfiles == {Ceiling, Bars, Heads, Strip, Grouped, Rope, Bulb, Lamp, Table, Panels, Old, Candle}

\* Every percent set comes back from the raw byte it is sent as, in every range of the profiles.
ASSUME \A span \in {<<1, 100>>, <<20, 254>>, <<6, 254>>, <<40, 254>>} : \A pct \in 1 .. 100 :
           RawToPercent(PercentToRaw(pct, span), span) = pct

\* A report of each of these profiles gives back what was written.
ASSUME \A p \in MCProfiles : TellsBack(p)
=============================================================================
