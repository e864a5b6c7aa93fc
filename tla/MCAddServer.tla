---------------------------- MODULE MCAddServer ----------------------------
(***************************************************************************)
(* Small instances of AddServer: of three names two have the same id.      *)
(***************************************************************************)
EXTENDS AddServer

CONSTANTS n1, n2, n3, i1, i2

MCName == {n1, n2, n3}
MCId   == {i1, i2}
MCSlug == [n \in MCName |-> IF n = n3 THEN i2 ELSE i1]
=============================================================================
