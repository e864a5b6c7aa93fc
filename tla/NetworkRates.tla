---------------------------- MODULE NetworkRates ----------------------------
(***************************************************************************)
(* The network collector (agent/src/metrics/network.rs): rates from        *)
(* counters that only grow while an interface exists, and start at zero    *)
(* again when it comes back.                                               *)
(*                                                                         *)
(* A rate is modelled by the number of bytes it is computed from; the      *)
(* division by the time between two cycles is left out. One direction of   *)
(* traffic stands for both.                                                *)
(***************************************************************************)
EXTENDS Naturals, FiniteSets

CONSTANTS
  Iface,
  MaxMoved,  \* bound: bytes of an interface between two cycles
  MaxCount   \* bound: a counter

ASSUME IfaceAssumption == IsFiniteSet(Iface)
ASSUME BoundsAssumption == MaxMoved \in Nat /\ MaxCount \in Nat \ {0}

VARIABLES
  up,         \* the interfaces that exist
  count,      \* interface -> its counter
  known,      \* the interfaces in prev_stats
  prev,       \* prev_stats
  first_run,
  rates,      \* interface -> the bytes its last rate is computed from
  moved,      \* history: interface -> bytes since the last cycle
  steady      \* history: the interfaces that exist since the last cycle

kernel    == <<up, count, moved, steady>>
collector == <<known, prev, first_run, rates>>
vars      == <<kernel, collector>>

\* new() reads the counters once.
Init ==
  /\ up \in SUBSET Iface
  /\ count \in [Iface -> 0 .. 1]
  /\ known = up /\ prev = count
  /\ first_run = TRUE
  /\ rates = [i \in {} |-> 0]
  /\ moved = [i \in Iface |-> 0]
  /\ steady = up

-----------------------------------------------------------------------------
Traffic(i) ==
  /\ i \in up /\ moved[i] < MaxMoved /\ count[i] < MaxCount
  /\ count' = [count EXCEPT ![i] = @ + 1]
  /\ moved' = [moved EXCEPT ![i] = @ + 1]
  /\ UNCHANGED <<up, steady, collector>>

Unplug(i) ==
  /\ i \in up
  /\ up' = up \ {i} /\ steady' = steady \ {i}
  /\ UNCHANGED <<count, moved, collector>>

Plug(i) ==
  /\ i \notin up
  /\ up' = up \cup {i}
  /\ count' = [count EXCEPT ![i] = 0]
  /\ UNCHANGED <<moved, steady, collector>>

\* Faulty variant: the absolute difference instead of the saturating one.
Difference(i) ==
  IF i \notin known THEN 0
  ELSE IF count[i] >= prev[i] THEN count[i] - prev[i] ELSE prev[i] - count[i]

\* saturating_sub; an interface without a previous value has no rate yet.
Since(i) == IF i \in known /\ count[i] >= prev[i] THEN count[i] - prev[i] ELSE 0

Record ==
  /\ known' = known \cup up
  /\ prev' = [i \in Iface |-> IF i \in up THEN count[i] ELSE prev[i]]

NextCycle ==
  /\ moved' = [i \in Iface |-> 0]
  /\ steady' = up
  /\ UNCHANGED <<up, count>>

\* Faulty variant: the flag is reset after the loop, not in it.
CollectFirstAll ==
  /\ rates' = [i \in up |-> IF first_run THEN 0 ELSE Since(i)]
  /\ first_run' = FALSE
  /\ Record /\ NextCycle

\* first_run is reset in the loop: only the interface that the map happens to
\* yield first goes without a rate.
Collect ==
  /\ \E first \in up :
       rates' = [i \in up |-> IF first_run /\ i = first THEN 0 ELSE Since(i)]
  /\ first_run' = FALSE
  /\ Record /\ NextCycle

\* Without interfaces there is nothing to do.
CollectNone ==
  /\ up = {}
  /\ rates' = [i \in {} |-> 0]
  /\ NextCycle
  /\ UNCHANGED <<known, prev, first_run>>

Cycle == Collect \/ CollectNone

Next ==
  \/ \E i \in Iface : Traffic(i) \/ Unplug(i) \/ Plug(i)
  \/ Cycle

Spec == Init /\ [][Next]_vars

-----------------------------------------------------------------------------
TypeOK ==
  /\ up \in SUBSET Iface /\ known \in SUBSET Iface /\ steady \in SUBSET Iface
  /\ count \in [Iface -> 0 .. MaxCount] /\ prev \in [Iface -> 0 .. MaxCount]
  /\ moved \in [Iface -> 0 .. MaxMoved]
  /\ first_run \in BOOLEAN

\* No rate counts more than moved in its cycle, however often the interface
\* went away and came back, and however long ago it was seen last.
NeverOverstated ==
  [][Cycle => \A i \in DOMAIN rates' : rates'[i] <= moved[i]]_vars

\* An interface that exists since the cycle before has the exact rate, but for
\* one interface in the first cycle that finds any.
ExactWhenSteady ==
  [][Cycle => Cardinality({i \in steady : rates'[i] # moved[i]}) <= (IF first_run THEN 1 ELSE 0)]_vars

-----------------------------------------------------------------------------
\* The inductive invariant: what the counters and the stored values are to each
\* other. An interface that came back has counted at most what moved.
RatesInv ==
  /\ TypeOK
  /\ steady \subseteq up /\ steady \subseteq known
  /\ \A i \in steady : count[i] = prev[i] + moved[i]
  /\ \A i \in up \ steady : count[i] <= moved[i]
=============================================================================
