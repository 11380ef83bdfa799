----------------------------- MODULE MCNetRules -----------------------------
(* Two calls side by side, one port, two filters and a policy.  Two filters   *)
(* may have nothing in common, a rule in common, or one rule within another.  *)
EXTENDS NetRules, TLC

CONSTANTS c1, c2, f1, f2, q1, t1

TwoCallers == {c1, c2}
TwoFilters == {f1, f2}
OnePolicy  == {q1}
OneTap     == {t1}
ThreeMatches == {"m1", "m2", "m3"}
Nested == [m \in ThreeMatches |-> IF m = "m1" THEN {"m1", "m2"} ELSE {m}]
Acls == {<<"m1">>, <<"m2", "m3">>, <<"m3", "everything">>}
Qoss == {<<"in">>, <<"in+burst", "out">>}
NetRulesSymmetry == Permutations(RulesCallers) \cup Permutations(Filters)
=============================================================================
