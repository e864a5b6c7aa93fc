----------------------------- MODULE MCUseAsync -----------------------------
(***************************************************************************)
(* Small instances of UseAsync: two keys and up to four loads, three of    *)
(* which can be in flight when the page is left.                           *)
(***************************************************************************)
EXTENDS UseAsync
=============================================================================
