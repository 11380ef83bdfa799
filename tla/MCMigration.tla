----------------------------- MODULE MCMigration -----------------------------
(* Two requests: for one domain, for two that live on different hosts, or   *)
(* one to the host the domain is already on.                                *)
EXTENDS Migration

CONSTANTS h1, h2, d1, d2

TwoHosts   == {h1, h2}
OneDomain  == {d1}
TwoDomains == {d1, d2}
OneEach == [d \in Domains |-> IF d = d1 THEN h1 ELSE h2]
Away    == [r \in Requests |-> {<<d1, h2>>}]
AnyTwo  == [r \in Requests |-> IF r = 1 THEN {<<d1, h2>>}
                               ELSE {<<d1, h2>>, <<d2, h1>>, <<d1, h1>>}]
=============================================================================
