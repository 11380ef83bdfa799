----------------------------- MODULE MCHostMode -----------------------------
(* One or two calls, a job and a shutdown.                                  *)
EXTENDS HostMode, TLC

CONSTANTS c1, c2, j1, s1

OneCaller   == {c1}
TwoCallers  == {c1, c2}
OneJob      == {j1}
OneShutdown == {s1}
NoShutdown  == {}
CallerSymmetry == Permutations(Callers)
=============================================================================
