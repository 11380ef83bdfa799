---------------------------- MODULE MCDataStore ----------------------------
(* Two requests side by side, two names, two disks and one target.          *)
EXTENDS DataStore, TLC

CONSTANTS c1, c2, n1, n2, d1, d2, x1

TwoCallers == {c1, c2}
TwoNames   == {n1, n2}
TwoDisks   == {d1, d2}
OneTarget  == {x1}
DataStoreSymmetry == Permutations(Callers) \cup Permutations(Names) \cup Permutations(Disks)
=============================================================================
