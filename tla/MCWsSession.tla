---------------------------- MODULE MCWsSession ----------------------------
(***************************************************************************)
(* Small instances of WsSession: a channel of two or three messages shows  *)
(* the same cases (empty, filling, full) as the ten of the code.           *)
(***************************************************************************)
EXTENDS WsSession
=============================================================================
