----------------------------- MODULE MCNetCopy ------------------------------
(* Files of up to MaxBlocks blocks, each a hole or one of two contents, so  *)
(* that what was in the destination differs from what is written to it.     *)
EXTENDS NetCopy

CONSTANTS a, b

HoleAndData == {Hole, a, b}
NobodyShares == {}
=============================================================================
