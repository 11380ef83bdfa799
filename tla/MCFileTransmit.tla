--------------------------- MODULE MCFileTransmit ---------------------------
(* Two transmits between two hosts: crossing on pools of one thread, or     *)
(* side by side on pools of two, with one port or with two.                 *)
EXTENDS FileTransmit

CONSTANTS t1, t2, h1, h2

TwoTransmits == {t1, t2}
TwoHosts     == {h1, h2}
TwoPorts     == {1, 2}

Crossing   == [src |-> [t \in TwoTransmits |-> IF t = t1 THEN h1 ELSE h2],
               dst |-> [t \in TwoTransmits |-> IF t = t1 THEN h2 ELSE h1],
               ports |-> {1}, slots |-> 1, restarts |-> 1, faults |-> FALSE]
OnePort    == [src |-> [t \in TwoTransmits |-> h1],
               dst |-> [t \in TwoTransmits |-> h2],
               ports |-> {1}, slots |-> 2, restarts |-> 1, faults |-> TRUE]
SideBySide == [OnePort EXCEPT !.ports = TwoPorts, !.restarts = 0]
ThreeSetups == {Crossing, OnePort, SideBySide}
=============================================================================
