------------------------------ MODULE Counters ------------------------------
(***************************************************************************)
(* What the collectors compute of two values of a counter.                 *)
(***************************************************************************)
EXTENDS Naturals

\* saturating_sub: a counter that was reset has moved nothing.
Monus(a, b) == IF a >= b THEN a - b ELSE 0
=============================================================================
