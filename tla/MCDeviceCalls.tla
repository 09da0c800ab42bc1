--------------------------- MODULE MCDeviceCalls ---------------------------
(***************************************************************************)
(* Instances of DeviceCalls for TLC: the profiles whose locks differ, each *)
(* with the calls that meet on it.  Callers are interchangeable.           *)
(***************************************************************************)
EXTENDS DeviceCalls

Profile(has, calls) == [has |-> has, calls |-> calls]

MCDevices == {
    Profile({"bars"}, {"setZonePower", "setSceneByName", "release"}),
    Profile({"bars", "scenePower"}, {"turnOn", "setScene", "setSceneByName"}),
    Profile({"pair"}, {"setBrightness", "setColorTemp", "turnOn", "release"}),
    Profile({"sections", "resync"}, {"setRgb", "setPower", "update"}),
    Profile({"secret", "emptyCheck"}, {"readSecret", "setRgb", "connect"}),
    Profile({"secret"}, {"readSecret", "update"}),
    Profile({"secret"}, {"readSecret", "setRgb", "release"}),
    Profile({"perCommand"}, {"setPower", "setBrightness", "turnOn", "release"})}

CallerSymmetry == Permutations(Tasks)
=============================================================================
