------------------------------ MODULE MCUpLink ------------------------------
(* Two calls side by side; a switch with the port of a virtual machine on   *)
(* it and one without; two cards, for a bond or apart.                      *)
EXTENDS UpLink, TLC

CONSTANTS c1, c2, s1, s2, n1, n2, b1

TwoCallers  == {c1, c2}
TwoSwitches == {s1, s2}
OneOccupied == {s1}
TwoNics     == {n1, n2}
OneBond     == {b1}
UpLinkSymmetry == Permutations(Callers) \cup Permutations(Nics)
=============================================================================
