---------------------------- MODULE MCDataSource ----------------------------
(***************************************************************************)
(* A small instance of the data sources. Live: an agent of today and an    *)
(* old one, of which the first may report the id of a stored server as its *)
(* host name. Sample: two tabs and two names.                              *)
(***************************************************************************)
EXTENDS DataSources, TLC

CONSTANTS a1, a2, i1, i2, i3, n2

MCAgent  == {a1, a2}
MCKept   == {<<>>, <<[id |-> i2, agent |-> a2], [id |-> i1, agent |-> a1]>>}
MCHostOf == [a \in MCAgent |-> IF a = a1 THEN i1 ELSE i3]

\* One of the names gives the id of a fixture.
MCSlug == [n \in Name |-> IF n = n2 THEN "atlas-edge" ELSE ToString(n)]

\* Three small generators.
MCDraw == {[seed \in Seed |-> [k \in Turn |-> (d + seed * 31 + k * 377) % 1000]] : d \in {0, 421, 999}}
=============================================================================
