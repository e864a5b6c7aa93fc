------------------------------ MODULE DataHook ------------------------------
(***************************************************************************)
(* What a page may count on when it loads data with a hook: what it shows  *)
(* changes only by an answer to its last question, which closes the        *)
(* question, and never after the component has left. Many loads may be     *)
(* open below; here there is one question, and it is open or not.          *)
(***************************************************************************)
CONSTANT Key

VARIABLES
  there,  \* the component is in the tree
  key,    \* what was asked last
  busy,   \* it has no answer yet
  data    \* the keys that what is shown was asked for: one, or none

vars == <<there, key, busy, data>>

Init ==
  /\ there \in BOOLEAN
  /\ key \in Key
  /\ busy = there
  /\ data = {}

-----------------------------------------------------------------------------
\* A new question leaves what is shown in place.
Ask(k) ==
  /\ there
  /\ key' = k
  /\ busy' = TRUE
  /\ UNCHANGED <<there, data>>

\* The answer may be that there is no such thing.
Answer ==
  /\ there /\ busy
  /\ busy' = FALSE
  /\ data' \in {{}, {key}}
  /\ UNCHANGED <<there, key>>

Fail ==
  /\ there /\ busy
  /\ busy' = FALSE
  /\ UNCHANGED <<there, key, data>>

Leave ==
  /\ there
  /\ there' = FALSE
  /\ UNCHANGED <<key, busy, data>>

Next == (\E k \in Key : Ask(k)) \/ Answer \/ Fail \/ Leave

\* One component, from the time it is mounted.
Spec == Init /\ [][Next]_vars

-----------------------------------------------------------------------------
\* The place of a component: one is mounted where another was, and the state of
\* one that is gone is dropped.
Mount(k) ==
  /\ there' = TRUE
  /\ key' = k
  /\ busy' = TRUE
  /\ data' = {}

Drop ==
  /\ there' = FALSE
  /\ key' \in Key
  /\ busy' = FALSE
  /\ data' = {}

PlaceSpec == Init /\ [][Next \/ Drop \/ \E k \in Key : Mount(k)]_vars
=============================================================================
