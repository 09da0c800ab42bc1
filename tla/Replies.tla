------------------------------- MODULE Replies -------------------------------
(***************************************************************************)
(* Power writes and the single replies a poll reads: the bytes of a write  *)
(* (wire/build.py) and what a reply's bytes say (wire/parse.py).  A frame  *)
(* is [cmd, body], a body a sequence of bytes; a reply that is not one of  *)
(* the read's command, or carries no state, is none (an empty set).        *)
(***************************************************************************)
EXTENDS Integers, Sequences, SequencesExt

Byte == 0 .. 255
PowerByte(on) == IF on THEN 1 ELSE 0
Frame(cmd, body) == [cmd |-> cmd, body |-> body]

Power == 1
TotalSwitch == 2
Level == 4
Zone == 48    \* 0x30
Detail == 52  \* 0x34
Bars == 54    \* 0x36
Gradual == 163

Nibbles(high, low) == 16 * high + low
Switch(on) == Frame(Power, <<PowerByte(on)>>)
SwitchRelay(on) == Frame(Power, <<Nibbles(1, PowerByte(on))>>)
PlugAllOutlets(on) == Frame(Power, <<Nibbles(15, IF on THEN 15 ELSE 0)>>)
PlugTotalSwitch(on) == Frame(TotalSwitch, <<PowerByte(on)>>)
ZonePowerFrame(zone, on) == Frame(Zone, <<zone, PowerByte(on)>>)
LightSwitch(on) == Frame(Zone, <<PowerByte(on)>>)
BarSwitch(left, right) == Frame(Bars, <<PowerByte(left), PowerByte(right)>>)
GradualFrame(on) == Frame(Gradual, <<PowerByte(on)>>)

\* A plug's main switch, for its goodsType.
RelayPowerFrame(p, on) ==
    CASE p.relayPower = "outlet0" -> SwitchRelay(on)
      [] p.relayPower = "all_outlets" -> PlugAllOutlets(on)
      [] p.relayPower = "total_switch" -> PlugTotalSwitch(on)

\* The frames of whole-device power: one, but for a fixture whose zones no switch of its own drives.
PowerFrames(p, on) ==
    IF p.lightSwitch THEN <<LightSwitch(on)>>
    ELSE IF p.zones # <<>> /\ ~p.globalPower /\ ~p.bar THEN [i \in DOMAIN p.zones |-> ZonePowerFrame(p.zones[i], on)]
    ELSE IF p.relay THEN <<RelayPowerFrame(p, on)>> ELSE <<Switch(on)>>

-----------------------------------------------------------------------------
(* Replies.                                                                *)

Bit(byte, i) == (byte \div 2 ^ i) % 2 = 1
Meets1(byte) == byte = 1
ReplyState(reply, cmd, len) == IF reply.cmd = cmd /\ Len(reply.body) >= len THEN {reply.body} ELSE {}

ParsePower(reply) == {b[1] : b \in ReplyState(reply, Power, 1)}
ParseLightPower(reply, nonzero) == {IF nonzero THEN s # 0 ELSE Meets1(s) : s \in ParsePower(reply)}
\* On when a relay of the mask is.
ParseRelayOn(reply, mask) == {\E i \in 0 .. 7 : Bit(s, i) /\ Bit(mask, i) : s \in ParsePower(reply)}
ParseDetailPower(reply) == {Bit(b[1], 7) : b \in ReplyState(reply, Detail, 6)}
ParseBrightness(reply) == {b[1] : b \in ReplyState(reply, Level, 1)}
ParseBarSwitch(reply) == {<<Meets1(b[1]), Meets1(b[2])>> : b \in ReplyState(reply, Bars, 2)}
ParseGradual(reply) == {Meets1(b[1]) : b \in ReplyState(reply, Gradual, 1)}

\* The secret is given only on a repeat read: with a selector of 1.
SecretRead == 177
SecretLen == 8
ParseSecret(reply) == {SubSeq(b, 2, 1 + SecretLen) : b \in {x \in ReplyState(reply, SecretRead, 1 + SecretLen) : x[1] = 1}}

\* A mode reply too short for the layout its sub-mode is read with.
TooShort(sub, params) ==
    CASE sub \in {21, 13} -> Len(params) < 3
      [] sub = 19 -> Len(params) < 4 \/ (params[4] # 0 /\ Len(params) < 7)
      [] OTHER -> FALSE
SubMode(report) == report[1]
SceneSub == 4
SceneOf(report) == IF SubMode(report) = SceneSub /\ Len(report) >= 3 THEN {report[2] + 256 * report[3]} ELSE {}

\* Device info.  A version of zeros, a MAC of zeros and a UID of zeros are none.
Zeros(bytes) == \A i \in DOMAIN bytes : bytes[i] = 0
Version3(bytes) == IF Zeros(bytes) THEN {} ELSE {bytes}
WifiMac(bytes) == IF Zeros(bytes) THEN {} ELSE {bytes}
\* The id is the UID reversed, one leading pair of zeros dropped.
UidSerial(uid) ==
    LET parts == Reverse(uid)
    IN  IF Zeros(uid) THEN {}
        ELSE {IF parts[1] = 0 /\ parts[2] = 0 THEN SubSeq(parts, 3, Len(parts)) ELSE parts}
\* A version text without the control characters and spaces around it.
AsciiVersion(text) ==
    LET shown == {i \in DOMAIN text : text[i] > 32}
    IN  IF shown = {} THEN {}
        ELSE LET first == CHOOSE i \in shown : \A j \in shown : i <= j
                 last == CHOOSE i \in shown : \A j \in shown : i >= j
             IN  {SubSeq(text, first, last)}

None3 == [serial |-> {}, mac |-> {}, soft |-> {}, hard |-> {}]
DeviceInfoFrom(sel, info) ==
    CASE sel = 16 -> {[None3 EXCEPT !.serial = UidSerial(info.uid), !.soft = Version3(info.soft), !.hard = Version3(info.hard)]}
      [] sel = 17 -> {[None3 EXCEPT !.mac = WifiMac(info.mac), !.soft = Version3(info.soft), !.hard = Version3(info.hard)]}
      [] sel = 2 -> {[None3 EXCEPT !.serial = UidSerial(info.uid)]}
      [] sel = 3 -> {[None3 EXCEPT !.hard = AsciiVersion(info.text)]}
      [] OTHER -> {}
=============================================================================
