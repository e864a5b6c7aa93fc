------------------------------ MODULE UseAsync ------------------------------
(***************************************************************************)
(* One mounted use of the hook useAsync (dashboard-panel/src/hooks), the   *)
(* way every page loads its data, e.g. useMetrics(serverId).               *)
(*                                                                         *)
(* React commits a render with new dependencies, then runs the effect: the *)
(* cleanup of the last effect marks its load as cancelled, and the loader  *)
(* of the render starts a new load. A load is a promise with the three     *)
(* reactions then, catch and finally; each is a microtask of its own, so   *)
(* the reactions of different loads and the effects interleave.            *)
(*                                                                         *)
(* Data: a result is the number of the load that produced it; 0 is null.   *)
(***************************************************************************)
EXTENDS Naturals

CONSTANTS
  Key,       \* what the dependencies select: server ids, time ranges, ...
  MaxNonce,  \* bound: calls of refresh
  MaxLoads   \* bound: loads started

ASSUME KeyAssumption == Key # {} /\ "none" \notin Key
ASSUME BoundsAssumption == MaxNonce \in Nat /\ MaxLoads \in Nat

VARIABLES
  mounted,  \* the component is in the tree
  wanted,   \* the dependencies of the last render: [key, nonce]
  effect,   \* the dependencies the effect last ran with
  loads,    \* the number of loads started
  asked,    \* load -> the key its loader was called with
  phase,    \* load -> where its promise is
  live,     \* the load whose flag cancelled is false, or 0
  data,     \* the load whose result is shown
  error,    \* the load whose error is shown
  loading

shown == <<data, error, loading>>
vars  == <<mounted, wanted, effect, loads, asked, phase, live, shown>>

Load   == 1 .. MaxLoads
Deps   == [key : Key, nonce : 0 .. MaxNonce]
NotRun == [key |-> "none", nonce |-> 0]

Init ==
  /\ mounted = TRUE
  /\ wanted \in [key : Key, nonce : {0}]
  /\ effect = NotRun
  /\ loads = 0
  /\ asked = [l \in Load |-> wanted.key]
  /\ phase = [l \in Load |-> "idle"]
  /\ live = 0
  /\ data = 0
  /\ error = 0
  /\ loading = TRUE

-----------------------------------------------------------------------------
\* The parent renders the component for another key.
ChangeKey(k) ==
  /\ mounted
  /\ wanted' = [wanted EXCEPT !.key = k]
  /\ UNCHANGED <<mounted, effect, loads, asked, phase, live, shown>>

\* refresh: setNonce makes React render again.
Refresh ==
  /\ mounted
  /\ wanted.nonce < MaxNonce
  /\ wanted' = [wanted EXCEPT !.nonce = @ + 1]
  /\ UNCHANGED <<mounted, effect, loads, asked, phase, live, shown>>

\* The dependencies of the last render are not those of the last effect.
Stale == effect # wanted

\* The cleanup of the last effect, then the effect. In development StrictMode
\* runs the first effect of a component twice, with a cleanup in between.
RunEffect ==
  /\ mounted /\ Stale
  /\ \E n \in {1, 2} :
       /\ n = 2 => effect = NotRun
       /\ loads + n <= MaxLoads
       /\ loads' = loads + n
       /\ asked' = [l \in Load |-> IF l > loads /\ l <= loads + n THEN wanted.key ELSE asked[l]]
       /\ phase' = [l \in Load |-> IF l > loads /\ l <= loads + n THEN "pending" ELSE phase[l]]
       /\ live' = loads + n
  /\ effect' = wanted
  /\ loading' = TRUE
  /\ error' = 0
  /\ UNCHANGED <<mounted, wanted, data>>

\* The request is answered, fails or times out, in whatever order.
Settle(l) ==
  /\ phase[l] = "pending"
  /\ \E outcome \in {"fulfilled", "rejected"} : phase' = [phase EXCEPT ![l] = outcome]
  /\ UNCHANGED <<mounted, wanted, effect, loads, asked, live, shown>>

\* Faulty variant: the result of a cancelled load is taken.
ThenUnguarded(l) ==
  /\ phase[l] = "fulfilled"
  /\ data' = l
  /\ phase' = [phase EXCEPT ![l] = "handled"]
  /\ UNCHANGED <<mounted, wanted, effect, loads, asked, live, error, loading>>

Then(l) ==
  /\ phase[l] = "fulfilled"
  /\ data' = IF l = live THEN l ELSE data
  /\ phase' = [phase EXCEPT ![l] = "handled"]
  /\ UNCHANGED <<mounted, wanted, effect, loads, asked, live, error, loading>>

Catch(l) ==
  /\ phase[l] = "rejected"
  /\ error' = IF l = live THEN l ELSE error
  /\ phase' = [phase EXCEPT ![l] = "handled"]
  /\ UNCHANGED <<mounted, wanted, effect, loads, asked, live, data, loading>>

\* Faulty variant: whichever load ends clears the indicator.
FinallyUnguarded(l) ==
  /\ phase[l] = "handled"
  /\ loading' = FALSE
  /\ phase' = [phase EXCEPT ![l] = "over"]
  /\ UNCHANGED <<mounted, wanted, effect, loads, asked, live, data, error>>

\* Faulty variant: the indicator is cleared only after a success.
FinallyOnSuccess(l) ==
  /\ phase[l] = "handled"
  /\ loading' = IF l = live /\ data = l THEN FALSE ELSE loading
  /\ phase' = [phase EXCEPT ![l] = "over"]
  /\ UNCHANGED <<mounted, wanted, effect, loads, asked, live, data, error>>

Finally(l) ==
  /\ phase[l] = "handled"
  /\ loading' = IF l = live THEN FALSE ELSE loading
  /\ phase' = [phase EXCEPT ![l] = "over"]
  /\ UNCHANGED <<mounted, wanted, effect, loads, asked, live, data, error>>

\* Faulty variant: there is no cleanup.
UnmountUnguarded ==
  /\ mounted
  /\ mounted' = FALSE
  /\ UNCHANGED <<wanted, effect, loads, asked, phase, live, shown>>

\* The cleanup runs when the component leaves the tree.
Unmount ==
  /\ mounted
  /\ mounted' = FALSE
  /\ live' = 0
  /\ UNCHANGED <<wanted, effect, loads, asked, phase, shown>>

-----------------------------------------------------------------------------
Reaction(l) == Then(l) \/ Catch(l) \/ Finally(l)

Next ==
  \/ \E k \in Key : ChangeKey(k)
  \/ Refresh
  \/ RunEffect
  \/ \E l \in Load : Settle(l) \/ Reaction(l)
  \/ Unmount

\* React runs the effects of a commit, and microtasks run. Every request ends:
\* requests of apiService are aborted after eight seconds, those of mockService
\* are timers.
Fairness ==
  /\ WF_vars(RunEffect)
  /\ \A l \in Load : WF_vars(Settle(l)) /\ WF_vars(Reaction(l))

Spec     == Init /\ [][Next]_vars
FairSpec == Spec /\ Fairness

-----------------------------------------------------------------------------
TypeOK ==
  /\ mounted \in BOOLEAN
  /\ wanted \in Deps
  /\ effect \in Deps \cup {NotRun}
  /\ loads \in 0 .. MaxLoads
  /\ asked \in [Load -> Key]
  /\ phase \in [Load -> {"idle", "pending", "fulfilled", "rejected", "handled", "over"}]
  /\ live \in 0 .. MaxLoads
  /\ data \in 0 .. MaxLoads
  /\ error \in 0 .. MaxLoads
  /\ loading \in BOOLEAN

\* A page that is not loading shows the outcome of its last load, and that load
\* is for the dependencies the page was rendered with, whatever the order in
\* which the loads were answered. (After a failure the older data stays.)
ShowsLastOutcome ==
  mounted /\ ~ loading /\ ~ Stale =>
    /\ asked[loads] = wanted.key
    /\ phase[loads] = "over"
    /\ (data = loads /\ error = 0) \/ error = loads

\* An answer never replaces the answer to a later question.
NeverOlder == [][data' >= data]_data

\* Nothing is written once the component is unmounted.
QuietAfterUnmount == [][mounted \/ UNCHANGED shown]_vars

\* "guarding against out-of-order responses and updates after unmount"
\* (useAsync.ts:14): to its page a hook is a DataHook. The question is what the
\* effect last asked, and it is open until a reaction of the last load.
Asked == INSTANCE DataHook WITH
  there <- mounted,
  key   <- IF effect = NotRun THEN wanted.key ELSE effect.key,
  busy  <- loading /\ (loads = 0 \/ (data # loads /\ error # loads)),
  data  <- IF data = 0 THEN {} ELSE {asked[data]}

ImplementsDataHook == Asked!Spec

\* A question that stays is answered, with data or an error, and the page stops
\* loading, unless it is left. (The last disjunct is the bound on loads.)
QuestionAnswered ==
  \A w \in Deps :
    wanted = w ~> \/ wanted # w
                  \/ ~ mounted
                  \/ ~ loading /\ ~ Stale
                  \/ Stale /\ loads = MaxLoads

-----------------------------------------------------------------------------
(***************************************************************************)
(* The inductive invariant.                                                *)
(***************************************************************************)

\* The load that is not cancelled is the last one, until the component leaves.
LastIsLive ==
  /\ mounted => live = loads
  /\ ~ mounted => live = 0
  /\ \A l \in Load : phase[l] = "idle" <=> l > loads
  /\ loads = 0 <=> effect = NotRun
  /\ loads > 0 => asked[loads] = effect.key

\* What is shown of the live load is what its reactions have done.
Progress ==
  /\ data <= loads /\ error <= loads
  /\ loads = 0 => loading
  /\ live > 0 =>
       /\ loading <=> phase[live] # "over"
       /\ data = live => phase[live] \in {"handled", "over"}
       /\ phase[live] \in {"handled", "over"} => (data = live /\ error = 0) \/ error = live
       /\ phase[live] \in {"pending", "fulfilled", "rejected"} => error = 0

\* Every reachable state: only the last load can write what is shown.
HookInv ==
  /\ TypeOK
  /\ LastIsLive
  /\ Progress
=============================================================================
