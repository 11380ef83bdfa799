--------------------------- MODULE MCInternalNic ---------------------------
(* Two calls side by side for one switch.                                   *)
EXTENDS InternalNic, TLC

CONSTANTS c1, c2, s1, v1, v2

TwoCallers == {c1, c2}
OneSwitch  == {s1}
TwoValues  == {v1, v2}
SomeAsks   == {{"vlan"}, {"vlan", "mtu"}, {"mtu", "gateway"}, {"vlan", "ip"},
               {"mtu", "ip", "gateway"}}
InternalNicSymmetry == Permutations(NicCallers) \cup Permutations(Values)
=============================================================================
