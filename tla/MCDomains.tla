----------------------------- MODULE MCDomains -----------------------------
(* Two requests side by side for one domain: domains do not interact.       *)
EXTENDS Domains, TLC

CONSTANTS c1, c2, vm, s1, s2, s3, m1

TwoCallers   == {c1, c2}
OneUuid      == {vm}
ThreeSources == {s1, s2, s3}
OneMac       == {m1}
DomainsSymmetry == Permutations(Callers) \cup Permutations(Sources)
=============================================================================
