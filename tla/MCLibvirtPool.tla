--------------------------- MODULE MCLibvirtPool ---------------------------
(* Two borrowers, a pool that keeps one connection, three closes.          *)
EXTENDS LibvirtPool

CONSTANTS u1, u2

TwoUsers   == {u1, u2}
EightConns == 1..8
=============================================================================
