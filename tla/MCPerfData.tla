----------------------------- MODULE MCPerfData -----------------------------
EXTENDS PerfData

CONSTANT d1

OneDevice == {d1}
ThreeSamples == 1 .. 3
SamplesOfOne == [s \in ThreeSamples |-> d1]
=============================================================================
