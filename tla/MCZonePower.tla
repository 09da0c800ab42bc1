---------------------------- MODULE MCZonePower -----------------------------
EXTENDS ZonePower, TLC

Symmetric == Permutations(Tasks) \cup Permutations(Zones)
=============================================================================
