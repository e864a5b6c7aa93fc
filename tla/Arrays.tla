------------------------------- MODULE Arrays -------------------------------
(***************************************************************************)
(* What the console does with arrays: Array.prototype.filter and sort.     *)
(* They are defined by the order of positions, not by recursion.           *)
(***************************************************************************)
EXTENDS Naturals, Sequences, FiniteSets

\* The positions in P, in the order R (the pairs of which the first is ahead).
Ranking(P, R) ==
  [r \in 1 .. Cardinality(P) |-> CHOOSE k \in P : Cardinality({l \in P : <<l, k>> \in R}) = r - 1]

Ascending(P) == {e \in P \X P : e[1] < e[2]}
Positions(P) == Ranking(P, Ascending(P))

\* The elements of s at the positions in P, in their order.
Sublist(s, P) == [r \in 1 .. Cardinality(P) |-> s[Positions(P)[r]]]

\* The elements that pass a test, in their order.
Filter(s, test(_)) == Sublist(s, {k \in 1 .. Len(s) : test(s[k])})

\* Sorting with a comparator is stable: what is neither before nor after an
\* element comes in the order in which it was.
Ahead(s, before(_, _)) ==
  {e \in (1 .. Len(s)) \X (1 .. Len(s)) :
     before(s[e[1]], s[e[2]]) \/ (~ before(s[e[2]], s[e[1]]) /\ e[1] < e[2])}

Arranged(s, R)          == [r \in 1 .. Len(s) |-> s[Ranking(1 .. Len(s), R)[r]]]
Sorted(s, before(_, _)) == Arranged(s, Ahead(s, before))

Elements(s) == {s[k] : k \in 1 .. Len(s)}
=============================================================================
