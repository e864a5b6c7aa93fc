----------------------------- MODULE PageProofs ------------------------------
(***************************************************************************)
(* Proofs about the pages: how one of them loads its data (UseAsync), and  *)
(* what the routed pages hold (Console); for every set of keys, servers and*)
(* shapes of snapshots, and any number of loads.                           *)
(***************************************************************************)
EXTENDS UseAsync, Console, ArraysProofs

-----------------------------------------------------------------------------
(***************************************************************************)
(* UseAsync: only the last load of a page can write what it shows.         *)
(***************************************************************************)

LEMMA HookInitInv == Init => HookInv
<1> SUFFICES ASSUME Init
             PROVE  HookInv
  OBVIOUS
<1>1. wanted \in Deps
  BY BoundsAssumption DEF Init, Deps
<1>2. TypeOK
  BY <1>1, BoundsAssumption DEF Init, TypeOK, Deps
<1>3. LastIsLive /\ Progress
  BY DEF Init, LastIsLive, Progress, Load
<1>4. QED
  BY <1>2, <1>3 DEF HookInv

\* A step keeps the invariant: every load but the last is cancelled, and the
\* last one writes its outcome before it ends.
LEMMA HookStepInv == HookInv /\ [Next]_vars => HookInv'
<1> SUFFICES ASSUME HookInv, [Next]_vars
             PROVE  HookInv'
  OBVIOUS
<1> USE DEF HookInv
<1>a. 0 \in 0 .. MaxLoads
  BY BoundsAssumption
<1>b. \A d \in Deps : d # NotRun
  BY KeyAssumption DEF Deps, NotRun
<1>1. ASSUME NEW k \in Key, ChangeKey(k)
       PROVE  HookInv'
  <2>1. TypeOK'
    BY <1>1, BoundsAssumption DEF ChangeKey, TypeOK, Deps, Load, shown
  <2>2. LastIsLive'
    BY <1>1 DEF ChangeKey, TypeOK, LastIsLive, Load, shown
  <2>3. Progress'
    BY <1>1 DEF ChangeKey, TypeOK, LastIsLive, Progress, Load, shown
  <2>4. QED
    BY <2>1, <2>2, <2>3
<1>2. CASE Refresh
  <2>1. TypeOK'
    BY <1>2, BoundsAssumption DEF Refresh, TypeOK, Deps, Load, shown
  <2>2. LastIsLive'
    BY <1>2 DEF Refresh, TypeOK, LastIsLive, Load, shown
  <2>3. Progress'
    BY <1>2 DEF Refresh, TypeOK, LastIsLive, Progress, Load, shown
  <2>4. QED
    BY <2>1, <2>2, <2>3
<1>3. CASE RunEffect
  <2>1. TypeOK'
    BY <1>3, BoundsAssumption, <1>a DEF RunEffect, TypeOK, Deps, Load, shown
  <2>2. LastIsLive'
    BY <1>3, <1>b DEF RunEffect, TypeOK, LastIsLive, Load, shown
  <2>3. Progress'
    BY <1>3 DEF RunEffect, TypeOK, LastIsLive, Progress, Load, shown
  <2>4. QED
    BY <2>1, <2>2, <2>3
<1>4. ASSUME NEW l \in Load, Settle(l)
       PROVE  HookInv'
  <2>1. TypeOK'
    BY <1>4, BoundsAssumption DEF Settle, TypeOK, Deps, Load, shown
  <2>2. LastIsLive'
    BY <1>4 DEF Settle, TypeOK, LastIsLive, Load, shown
  <2>3. Progress'
    BY <1>4 DEF Settle, TypeOK, LastIsLive, Progress, Load, shown
  <2>4. QED
    BY <2>1, <2>2, <2>3
<1>5. ASSUME NEW l \in Load, Then(l)
       PROVE  HookInv'
  <2>1. TypeOK'
    BY <1>5, BoundsAssumption DEF Then, TypeOK, Deps, Load, shown
  <2>2. LastIsLive'
    BY <1>5 DEF Then, TypeOK, LastIsLive, Load, shown
  <2>3. Progress'
    BY <1>5 DEF Then, TypeOK, LastIsLive, Progress, Load, shown
  <2>4. QED
    BY <2>1, <2>2, <2>3
<1>6. ASSUME NEW l \in Load, Catch(l)
       PROVE  HookInv'
  <2>1. TypeOK'
    BY <1>6, BoundsAssumption DEF Catch, TypeOK, Deps, Load, shown
  <2>2. LastIsLive'
    BY <1>6 DEF Catch, TypeOK, LastIsLive, Load, shown
  <2>3. Progress'
    BY <1>6 DEF Catch, TypeOK, LastIsLive, Progress, Load, shown
  <2>4. QED
    BY <2>1, <2>2, <2>3
<1>7. ASSUME NEW l \in Load, Finally(l)
       PROVE  HookInv'
  <2>1. TypeOK'
    BY <1>7, BoundsAssumption DEF Finally, TypeOK, Deps, Load, shown
  <2>2. LastIsLive'
    BY <1>7 DEF Finally, TypeOK, LastIsLive, Load, shown
  <2>3. Progress'
    BY <1>7 DEF Finally, TypeOK, LastIsLive, Progress, Load, shown
  <2>4. QED
    BY <2>1, <2>2, <2>3
<1>8. CASE Unmount
  <2>1. TypeOK'
    BY <1>8, BoundsAssumption, <1>a DEF Unmount, TypeOK, Deps, Load, shown
  <2>2. LastIsLive'
    BY <1>8 DEF Unmount, TypeOK, LastIsLive, Load, shown
  <2>3. Progress'
    BY <1>8 DEF Unmount, TypeOK, LastIsLive, Progress, Load, shown
  <2>4. QED
    BY <2>1, <2>2, <2>3
<1>9. CASE UNCHANGED vars
  <2>1. TypeOK'
    BY <1>9, BoundsAssumption DEF vars, TypeOK, Deps, Load, shown
  <2>2. LastIsLive'
    BY <1>9 DEF vars, TypeOK, LastIsLive, Load, shown
  <2>3. Progress'
    BY <1>9 DEF vars, TypeOK, LastIsLive, Progress, Load, shown
  <2>4. QED
    BY <2>1, <2>2, <2>3
<1>10. QED
  BY <1>1, <1>2, <1>3, <1>4, <1>5, <1>6, <1>7, <1>8, <1>9 DEF Next, Reaction

\* Every reachable state of a mounted hook satisfies the invariant.
THEOREM HookInvariant == Spec => []HookInv
<1>1. Init => HookInv
  BY HookInitInv
<1>2. HookInv /\ [Next]_vars => HookInv'
  BY HookStepInv
<1>3. QED
  BY <1>1, <1>2, PTL DEF Spec

\* A page that has stopped loading shows the outcome of its last question, in
\* whatever order the answers came.
THEOREM LastOutcome == Spec => []ShowsLastOutcome
<1>1. HookInv => ShowsLastOutcome
  <2> SUFFICES ASSUME HookInv, mounted, ~ loading, effect = wanted
               PROVE  /\ asked[loads] = wanted.key
                      /\ phase[loads] = "over"
                      /\ (data = loads /\ error = 0) \/ error = loads
    BY DEF ShowsLastOutcome, Stale
  <2>1. live = loads /\ loads > 0
    BY DEF HookInv, LastIsLive, Progress, TypeOK
  <2>2. QED
    BY <2>1 DEF HookInv, LastIsLive, Progress, TypeOK
<1>2. QED
  BY <1>1, HookInvariant, PTL

\* Data on a page is never replaced by the answer to an earlier question.
THEOREM Freshness == Spec => NeverOlder
<1>1. HookInv /\ [Next]_vars => [data' >= data]_data
  <2> SUFFICES ASSUME HookInv, [Next]_vars, data' # data
               PROVE  data' >= data
    OBVIOUS
  <2>1. PICK l \in Load : Then(l)
    BY DEF Next, Reaction, ChangeKey, Refresh, RunEffect, Settle, Catch, Finally, Unmount, vars, shown
  <2>2. data' = live
    BY <2>1 DEF Then
  <2>3. live \in Nat /\ live # 0 /\ (mounted => live = loads) /\ (~ mounted => live = 0)
    BY <2>1 DEF Then, HookInv, LastIsLive, TypeOK, Load
  <2>4. QED
    BY <2>2, <2>3 DEF HookInv, Progress, TypeOK
<1>2. QED
  BY <1>1, HookInvariant, PTL DEF Spec, NeverOlder

\* A load that ends after its component has left writes nothing.
THEOREM QuietOnceLeft == Spec => QuietAfterUnmount
<1>1. HookInv /\ [Next]_vars => [mounted \/ UNCHANGED shown]_vars
  <2> SUFFICES ASSUME HookInv, Next, ~ mounted
               PROVE  UNCHANGED shown
    OBVIOUS
  <2>1. live = 0 /\ \A l \in Load : l # live
    BY DEF HookInv, LastIsLive, Load
  <2>2. PICK l \in Load : Settle(l) \/ Then(l) \/ Catch(l) \/ Finally(l)
    BY DEF Next, Reaction, ChangeKey, Refresh, RunEffect, Unmount
  <2>3. QED
    BY <2>1, <2>2 DEF Settle, Then, Catch, Finally, shown
<1>2. QED
  BY <1>1, HookInvariant, PTL DEF Spec, QuietAfterUnmount

LEMMA AskedInit == Init => Asked!Init
<1> SUFFICES ASSUME Init
             PROVE  Asked!Init
  OBVIOUS
<1>1. mounted = TRUE /\ effect = NotRun /\ wanted.key \in Key /\ loads = 0 /\ data = 0 /\ loading = TRUE
  BY DEF Init
<1>2. QED
  BY <1>1 DEF Asked!Init

\* Every step of the hook is one of its DataHook, or none.
LEMMA AskedStep == HookInv /\ [Next]_vars => [Asked!Next]_(Asked!vars)
<1> SUFFICES ASSUME HookInv, [Next]_vars
             PROVE  [Asked!Next]_(Asked!vars)
  OBVIOUS
<1>a. /\ loads \in Nat /\ data \in Nat /\ data <= loads /\ error \in Nat
      /\ loads <= MaxLoads /\ MaxLoads \in Nat
      /\ mounted \in BOOLEAN /\ loading \in BOOLEAN
      /\ asked \in [Load -> Key]
  BY BoundsAssumption DEF HookInv, TypeOK, Progress
<1>b. /\ loads = 0 <=> effect = NotRun
      /\ loads > 0 => asked[loads] = effect.key
      /\ loads = 0 => loading
      /\ mounted => live = loads
      /\ ~ mounted => live = 0
      /\ live > 0 => loading <=> phase[live] # "over"
  BY DEF HookInv, LastIsLive, Progress
<1>c. wanted \in Deps /\ \A d \in Deps : d # NotRun /\ d.key \in Key
  BY KeyAssumption DEF HookInv, TypeOK, Deps, NotRun
<1>1. ASSUME NEW k \in Key, ChangeKey(k)
      PROVE  [Asked!Next]_(Asked!vars)
  <2>1. /\ mounted /\ wanted'.key = k
        /\ UNCHANGED <<mounted, effect, loads, asked, data, error, loading>>
    BY <1>1, <1>c DEF ChangeKey, Deps, shown
  <2>2. CASE effect = NotRun
    <3>1. loads = 0 /\ loading
      BY <2>2, <1>b
    <3>2. Asked!Ask(k)
      BY <1>a, <2>1, <2>2, <3>1 DEF Asked!Ask
    <3>3. QED
      BY <3>2 DEF Asked!Next
  <2>3. CASE effect # NotRun
    BY <2>1, <2>3 DEF Asked!vars
  <2>4. QED
    BY <2>2, <2>3
<1>2. CASE Refresh
  <2>1. /\ wanted'.key = wanted.key
        /\ UNCHANGED <<mounted, effect, loads, asked, data, error, loading>>
    BY <1>2, <1>c DEF Refresh, Deps, shown
  <2>2. QED
    BY <2>1 DEF Asked!vars
<1>3. CASE RunEffect
  <2>1. PICK n \in {1, 2} :
          /\ loads + n <= MaxLoads
          /\ loads' = loads + n
          /\ asked' = [l \in Load |-> IF l > loads /\ l <= loads + n THEN wanted.key ELSE asked[l]]
    BY <1>3 DEF RunEffect
  <2>2. mounted /\ effect' = wanted /\ loading' /\ error' = 0 /\ UNCHANGED <<mounted, wanted, data>>
    BY <1>3 DEF RunEffect
  <2>3. wanted.key \in Key /\ effect' # NotRun /\ effect'.key = wanted.key
    BY <1>c, <2>2
  <2>4. data # 0 => asked'[data] = asked[data]
    BY <1>a, <2>1 DEF Load
  <2>5. data' # loads' /\ error' # loads'
    BY <1>a, <2>1, <2>2
  <2>6. Asked!Ask(wanted.key)
    BY <2>2, <2>3, <2>4, <2>5 DEF Asked!Ask
  <2>7. QED
    BY <2>3, <2>6 DEF Asked!Next
<1>4. ASSUME NEW l \in Load, Settle(l)
      PROVE  [Asked!Next]_(Asked!vars)
  BY <1>4 DEF Settle, shown, Asked!vars
<1>5. ASSUME NEW l \in Load, Then(l)
      PROVE  [Asked!Next]_(Asked!vars)
  <2>1. UNCHANGED <<mounted, wanted, effect, loads, asked, error, loading>>
    BY <1>5 DEF Then
  <2>2. CASE l # live
    BY <2>1, <2>2, <1>5 DEF Then, Asked!vars
  <2>3. CASE l = live
    <3>1. l # 0 /\ mounted /\ l = loads /\ loads > 0 /\ effect # NotRun
      BY <2>3, <1>a, <1>b DEF Load
    <3>2. data' = loads /\ phase[l] = "fulfilled"
      BY <2>3, <3>1, <1>5 DEF Then
    <3>3. loading /\ data # loads /\ error # loads
      BY <2>3, <3>1, <3>2, <1>b DEF HookInv, Progress
    <3>4. asked[loads] = effect.key
      BY <3>1, <1>b
    <3>5. Asked!Answer
      BY <2>1, <3>1, <3>2, <3>3, <3>4 DEF Asked!Answer
    <3>6. QED
      BY <3>5 DEF Asked!Next
  <2>4. QED
    BY <2>2, <2>3
<1>6. ASSUME NEW l \in Load, Catch(l)
      PROVE  [Asked!Next]_(Asked!vars)
  <2>1. UNCHANGED <<mounted, wanted, effect, loads, asked, data, loading>>
    BY <1>6 DEF Catch
  <2>2. CASE l # live
    BY <2>1, <2>2, <1>6 DEF Catch, Asked!vars
  <2>3. CASE l = live
    <3>1. l # 0 /\ mounted /\ l = loads /\ loads > 0 /\ effect # NotRun
      BY <2>3, <1>a, <1>b DEF Load
    <3>2. error' = loads /\ phase[l] = "rejected"
      BY <2>3, <3>1, <1>6 DEF Catch
    <3>3. loading /\ data # loads /\ error # loads
      BY <2>3, <3>1, <3>2, <1>b DEF HookInv, Progress
    <3>4. Asked!Fail
      BY <2>1, <3>1, <3>2, <3>3 DEF Asked!Fail
    <3>5. QED
      BY <3>4 DEF Asked!Next
  <2>4. QED
    BY <2>2, <2>3
\* The indicator is cleared after the outcome was stored.
<1>7. ASSUME NEW l \in Load, Finally(l)
      PROVE  [Asked!Next]_(Asked!vars)
  <2>1. UNCHANGED <<mounted, wanted, effect, loads, asked, data, error>>
    BY <1>7 DEF Finally
  <2>2. CASE l # live
    BY <2>1, <2>2, <1>7 DEF Finally, Asked!vars
  <2>3. CASE l = live
    <3>1. l # 0 /\ l = loads /\ loads > 0 /\ phase[l] = "handled"
      BY <2>3, <1>a, <1>b, <1>7 DEF Finally, Load
    <3>2. data = loads \/ error = loads
      BY <2>3, <3>1 DEF HookInv, Progress
    <3>3. UNCHANGED (loading /\ (loads = 0 \/ (data # loads /\ error # loads)))
      BY <2>1, <3>1, <3>2
    <3>4. QED
      BY <2>1, <3>3 DEF Asked!vars
  <2>4. QED
    BY <2>2, <2>3
<1>8. CASE Unmount
  <2>1. mounted /\ ~ mounted' /\ UNCHANGED <<wanted, effect, loads, asked, data, error, loading>>
    BY <1>8 DEF Unmount, shown
  <2>2. Asked!Leave
    BY <2>1 DEF Asked!Leave
  <2>3. QED
    BY <2>2 DEF Asked!Next
<1>9. CASE UNCHANGED vars
  BY <1>9 DEF vars, shown, Asked!vars
<1>10. QED
  BY <1>1, <1>2, <1>3, <1>4, <1>5, <1>6, <1>7, <1>8, <1>9 DEF Next, Reaction

\* To its page the hook is a DataHook: loads overlap, answers overtake each other
\* and effects run late, and yet what is shown changes only by an answer to the
\* last question, which closes it, and never after the page has left.
THEOREM HookRefinement == Spec => ImplementsDataHook
<1>1. Init => Asked!Init
  BY AskedInit
<1>2. HookInv /\ [Next]_vars => [Asked!Next]_(Asked!vars)
  BY AskedStep
<1>3. QED
  BY <1>1, <1>2, HookInvariant, PTL DEF Spec, ImplementsDataHook, Asked!Spec

-----------------------------------------------------------------------------
(***************************************************************************)
(* Console: the hooks of a page have the key that the page is for.         *)
(***************************************************************************)

LEMMA NewHooks ==
  ASSUME NEW T, NEW k \in ServerId \cup {NoId}, NEW h
  PROVE  /\ Loading(h, k) \in HookOf(T) /\ Loading(h, k).key = k /\ Loading(h, k).data = <<>>
         /\ Unused \in HookOf(T) /\ Unused.key = NoId /\ Unused.data = <<>>
BY DEF Loading, Unused, HookOf

\* What a hook holds after each of its steps: only Rekey changes the key, only an
\* answer changes the data.
HookSteps(T, h) ==
  /\ h.key \in ServerId \cup {NoId} /\ h.data \in Seq(T)
  /\ \A d \in Seq(T) : Got(h, d) \in HookOf(T) /\ Got(h, d).key = h.key /\ Got(h, d).data = d
  /\ Failed(h) \in HookOf(T) /\ Failed(h).key = h.key /\ Failed(h).data = h.data
  /\ Again(h) \in HookOf(T) /\ Again(h).key = h.key /\ Again(h).data = h.data
  /\ \A k \in ServerId \cup {NoId} :
       Rekey(h, k) \in HookOf(T) /\ Rekey(h, k).key = k /\ Rekey(h, k).data = h.data

LEMMA HooksKeep ==
  ASSUME NEW T, NEW h \in HookOf(T)
  PROVE  HookSteps(T, h)
BY DEF HookOf, Got, Failed, Again, Rekey, HookSteps

LEMMA NoIds == Ids(<<>>) = {}
BY DEF Ids

\* The servers of an id have that id.
LEMMA EntryIsOfId ==
  ASSUME NEW s \in Seq(Machine), NEW i
  PROVE  Entry(s, i) \in Seq(Machine) /\ Ids(Entry(s, i)) \subseteq {i}
<1> DEFINE P == {k \in 1 .. Len(s) : s[k].id = i}
<1>1. Entry(s, i) = Sublist(s, P) /\ P \in SUBSET (1 .. Len(s))
  BY DEF Entry, Filter
<1>2. \A k \in P : s[k].id = i
  OBVIOUS
<1> HIDE DEF P
<1>3. Sublist(s, P) \in Seq(Machine)
  BY <1>1, SublistType
<1>4. \A r \in 1 .. Len(Sublist(s, P)) : \E k \in P : Sublist(s, P)[r] = s[k]
  BY <1>1, SublistElements
<1>5. \A r \in 1 .. Len(Entry(s, i)) : Entry(s, i)[r].id = i
  BY <1>1, <1>2, <1>4
<1>6. QED
  BY <1>1, <1>3, <1>5 DEF Ids

\* What the overview follows is a server of its list, or none.
LEMMA PrimaryType ==
  ASSUME NEW s \in Seq(Machine)
  PROVE  Primary(s) \in ServerId \cup {NoId}
<1> DEFINE online == Filter(s, LAMBDA x : x.online)
           P == {k \in 1 .. Len(s) : s[k].online}
<1>1. online = Sublist(s, P) /\ P \in SUBSET (1 .. Len(s))
  BY DEF Filter
<1>2. Primary(s) = IF online # <<>> THEN online[1].id ELSE IF s # <<>> THEN s[1].id ELSE NoId
  BY DEF Primary
<1> HIDE DEF P
<1>3. online \in Seq(Machine)
  BY <1>1, SublistType
<1> HIDE DEF online
<1>4. \A t \in Seq(Machine) : t # <<>> => t[1].id \in ServerId
  <2> SUFFICES ASSUME NEW t \in Seq(Machine), t # <<>>
               PROVE  t[1].id \in ServerId
    OBVIOUS
  <2>1. t[1] \in Machine
    OBVIOUS
  <2>2. QED
    BY <2>1 DEF Machine
<1>5. QED
  BY <1>2, <1>3, <1>4

LEMMA PrimaryOfNobody == Primary(<<>>) = NoId
<1> DEFINE online == Filter(<<>>, LAMBDA x : x.online)
           P == {k \in 1 .. Len(<<>>) : <<>>[k].online}
<1>1. online = Sublist(<<>>, P) /\ P \in SUBSET (1 .. Len(<<>>)) /\ P = {}
  BY DEF Filter
<1>2. <<>> \in Seq(Machine)
  OBVIOUS
<1> HIDE DEF P
<1>3. online = <<>>
  BY <1>1, <1>2, SublistElements
<1> HIDE DEF online
<1>4. Primary(<<>>) = IF online # <<>> THEN online[1].id ELSE IF <<>> # <<>> THEN <<>>[1].id ELSE NoId
  BY DEF Primary, online
<1>5. QED
  BY <1>3, <1>4

LEMMA PagesInitInv == PagesInit => PagesInv
<1> SUFFICES ASSUME PagesInit
             PROVE  PagesInv
  OBVIOUS
<1>1. world \in Seq(Machine) /\ extra \in Seq(Machine)
  <2>1. ASSUME NEW f \in [1 .. 1 -> [id : ServerId, online : BOOLEAN]]
        PROVE  f \in Seq(Machine)
    <3>1. f \in [1 .. 1 -> Machine]
      BY DEF Machine
    <3>2. QED
      BY <3>1, SeqDef
  <2>2. <<>> \in Seq(Machine)
    OBVIOUS
  <2>3. QED
    BY <2>1, <2>2 DEF PagesInit
<1>2. NoId \in ServerId \cup {NoId}
  OBVIOUS
<1>3. route \in [page : Page, id : ServerId \cup {NoId}, panel : Panel] /\ route.page # "details"
  BY <1>2 DEF PagesInit, Page, Panel
<1>4. /\ list \in HookOf(Machine) /\ list.data = <<>>
      /\ server \in HookOf(Machine) /\ server.data = <<>>
      /\ metrics \in HookOf(MetricsSnapshot) /\ metrics.key = NoId
  BY <1>2, NewHooks DEF PagesInit
<1>5. PagesTypes
  BY <1>1, <1>2, <1>3, <1>4 DEF PagesInit, PagesTypes
<1>6. DetailsAreOfRoute
  BY <1>3 DEF DetailsAreOfRoute
<1>7. list.data \o extra = <<>>
  BY <1>4 DEF PagesInit
<1>8. OverviewFollows
  BY <1>4, <1>7, PrimaryOfNobody DEF OverviewFollows, Shown
<1>9. QED
  BY <1>5, <1>6, <1>8 DEF PagesInv

\* A page that is mounted holds nothing of the one before.
LEMMA MountInv ==
  ASSUME PagesTypes, NEW p \in Page, NEW i \in ServerId \cup {NoId}, NEW panel \in Panel,
         p = "overview" => i = NoId,
         Mount(p, i, panel), UNCHANGED world, Render
  PROVE  PagesInv'
<1>1. NoId \in ServerId \cup {NoId}
  OBVIOUS
<1>2. route' \in [page : Page, id : ServerId \cup {NoId}, panel : Panel] /\ route'.page = p /\ route'.id = i
  BY DEF Mount
<1>3. /\ list' \in HookOf(Machine) /\ list'.data = <<>>
      /\ server' \in HookOf(Machine) /\ server'.data = <<>>
      /\ p = "details" => server'.key = i
  BY <1>1, NewHooks DEF Mount
<1>4. /\ metrics' \in HookOf(MetricsSnapshot) /\ metrics'.data = <<>>
      /\ p \in {"details", "overview"} => metrics'.key = i
  BY <1>1, NewHooks DEF Mount
<1>5. extra' = <<>> /\ restarting' = NoId
  BY DEF Mount
<1>6. crashed' \in BOOLEAN
  BY DEF Render
<1>7. PagesTypes'
  BY <1>1, <1>2, <1>3, <1>4, <1>5, <1>6 DEF PagesTypes
<1>8. DetailsAreOfRoute'
  BY <1>2, <1>3, <1>4, <1>5, NoIds DEF DetailsAreOfRoute
<1>9. Shown' = <<>>
  BY <1>3, <1>5 DEF Shown
<1>10. OverviewFollows'
  BY <1>2, <1>4, <1>9, PrimaryOfNobody DEF OverviewFollows
<1>11. QED
  BY <1>7, <1>8, <1>10 DEF PagesInv

\* Every step of the pages keeps the invariant.
LEMMA PagesStepInv == PagesInv /\ [PagesNext]_pagesVars => PagesInv'
<1> SUFFICES ASSUME PagesInv, [PagesNext]_pagesVars
             PROVE  PagesInv'
  OBVIOUS
<1>t. /\ PagesTypes /\ DetailsAreOfRoute /\ OverviewFollows
      /\ world \in Seq(Machine) /\ extra \in Seq(Machine)
      /\ route \in [page : Page, id : ServerId \cup {NoId}, panel : Panel]
      /\ list \in HookOf(Machine) /\ server \in HookOf(Machine) /\ metrics \in HookOf(MetricsSnapshot)
      /\ restarting \in ServerId \cup {NoId}
  BY DEF PagesInv, PagesTypes
<1>n. NoId \in ServerId \cup {NoId} /\ \A i \in ServerId : i \in ServerId \cup {NoId}
  OBVIOUS
<1>h. list \in HookOf(Machine) /\ server \in HookOf(Machine) /\ metrics \in HookOf(MetricsSnapshot)
  BY <1>t
<1>k. HookSteps(Machine, list) /\ HookSteps(Machine, server) /\ HookSteps(MetricsSnapshot, metrics)
  BY <1>h, HooksKeep
<1>l. /\ list.data \in Seq(Machine)
      /\ \A d \in Seq(Machine) : Got(list, d) \in HookOf(Machine) /\ Got(list, d).data = d
      /\ Failed(list) \in HookOf(Machine) /\ Failed(list).data = list.data
      /\ Again(list) \in HookOf(Machine) /\ Again(list).data = list.data
  BY <1>k DEF HookSteps
<1>s. /\ server.key \in ServerId \cup {NoId}
      /\ \A d \in Seq(Machine) : Got(server, d) \in HookOf(Machine) /\ Got(server, d).key = server.key
                                 /\ Got(server, d).data = d
      /\ Failed(server) \in HookOf(Machine) /\ Failed(server).key = server.key
      /\ Failed(server).data = server.data
  BY <1>k DEF HookSteps
<1>m. /\ metrics.key \in ServerId \cup {NoId}
      /\ \A d \in Seq(MetricsSnapshot) : Got(metrics, d) \in HookOf(MetricsSnapshot) /\ Got(metrics, d).key = metrics.key
                                  /\ Got(metrics, d).data = d
      /\ Failed(metrics) \in HookOf(MetricsSnapshot) /\ Failed(metrics).key = metrics.key
      /\ Failed(metrics).data = metrics.data
      /\ Again(metrics) \in HookOf(MetricsSnapshot) /\ Again(metrics).key = metrics.key
      /\ Again(metrics).data = metrics.data
      /\ \A k \in ServerId \cup {NoId} : Rekey(metrics, k) \in HookOf(MetricsSnapshot) /\ Rekey(metrics, k).key = k
  BY <1>k DEF HookSteps
<1>c. Render => crashed' \in BOOLEAN
  BY DEF Render
\* The overview follows the first server that is online.
<1>f. ASSUME NEW s \in Seq(Machine), FollowPrimary(s)
      PROVE  /\ metrics' \in HookOf(MetricsSnapshot)
             /\ route.page = "overview" => metrics'.key = Primary(s)
             /\ route.page # "overview" => metrics' = metrics
  BY <1>f, <1>t, <1>m, PrimaryType DEF FollowPrimary
<1>1. CASE Navigate
  <2>1. CASE \E p \in Page \ {"details"} : Mount(p, NoId, "overview")
    BY <2>1, <1>1, <1>t, <1>n, MountInv DEF Navigate, Panel
  <2>2. CASE \E i \in ServerId, panel \in {"overview", "processes"} : Mount("details", i, panel)
    <3>1. "details" \in Page /\ {"overview", "processes"} \subseteq Panel
      BY DEF Page, Panel
    <3>2. PICK i \in ServerId, panel \in Panel : Mount("details", i, panel)
      BY <2>2, <3>1
    <3>3. QED
      BY <3>1, <3>2, <1>1, <1>t, <1>n, MountInv DEF Navigate
  <2>3. QED
    BY <1>1, <2>1, <2>2 DEF Navigate
<1>2. CASE SetPanel
  <2>1. /\ route' \in [page : Page, id : ServerId \cup {NoId}, panel : Panel]
        /\ route'.page = route.page /\ route'.id = route.id
    BY <1>2, <1>t DEF SetPanel
  <2>2. UNCHANGED <<world, list, extra, server, metrics, restarting>> /\ Render
    BY <1>2 DEF SetPanel
  <2>3. PagesTypes'
    BY <1>t, <1>c, <2>1, <2>2 DEF PagesTypes
  <2>4. DetailsAreOfRoute' /\ OverviewFollows'
    BY <1>t, <2>1, <2>2 DEF DetailsAreOfRoute, OverviewFollows, Shown
  <2>5. QED
    BY <2>3, <2>4 DEF PagesInv
<1>3. CASE RefreshPage
  <2>1. UNCHANGED <<world, route, extra, server, restarting>> /\ Render
    BY <1>3 DEF RefreshPage
  <2>2. /\ list' \in HookOf(Machine) /\ list'.data = list.data
        /\ metrics' \in HookOf(MetricsSnapshot) /\ metrics'.key = metrics.key /\ metrics'.data = metrics.data
    BY <1>3, <1>t, <1>l, <1>m DEF RefreshPage
  <2>3. PagesTypes'
    BY <1>t, <1>c, <2>1, <2>2 DEF PagesTypes
  <2>4. DetailsAreOfRoute' /\ OverviewFollows'
    BY <1>t, <2>1, <2>2 DEF DetailsAreOfRoute, OverviewFollows, Shown
  <2>5. QED
    BY <2>3, <2>4 DEF PagesInv
<1>4. CASE Redirect
  <2>1. Primary(list.data) \in ServerId \cup {NoId}
    BY <1>l, PrimaryType
  <2>2. "details" \in Page /\ "processes" \in Panel /\ "overview" \in Panel
    BY DEF Page, Panel
  <2>3. PICK panel \in Panel : Mount("details", Primary(list.data), panel)
    BY <1>4, <2>2 DEF Redirect
  <2>4. QED
    BY <1>4, <1>t, <2>1, <2>2, <2>3, MountInv DEF Redirect
<1>5. CASE AnswerList
  <2>1. UNCHANGED <<world, route, extra, server, restarting>> /\ Render
    BY <1>5 DEF AnswerList
  <2>2. CASE list' = Got(list, world) /\ FollowPrimary(world \o extra)
    <3>1. list' \in HookOf(Machine) /\ list'.data = world
      BY <2>2, <1>t, <1>l
    <3>2. world \o extra \in Seq(Machine)
      BY <1>t
    <3>3. /\ metrics' \in HookOf(MetricsSnapshot)
          /\ route.page = "overview" => metrics'.key = Primary(world \o extra)
          /\ route.page # "overview" => metrics' = metrics
      BY <2>2, <3>2, <1>f
    <3>4. PagesTypes'
      BY <1>t, <1>c, <2>1, <3>1, <3>3 DEF PagesTypes
    <3>5. DetailsAreOfRoute' /\ OverviewFollows'
      BY <1>t, <2>1, <3>1, <3>3 DEF DetailsAreOfRoute, OverviewFollows, Shown
    <3>6. QED
      BY <3>4, <3>5 DEF PagesInv
  <2>3. CASE list' = Failed(list) /\ UNCHANGED metrics
    <3>1. list' \in HookOf(Machine) /\ list'.data = list.data
      BY <2>3, <1>l
    <3>2. PagesTypes'
      BY <1>t, <1>c, <2>1, <2>3, <3>1 DEF PagesTypes
    <3>3. DetailsAreOfRoute' /\ OverviewFollows'
      BY <1>t, <2>1, <2>3, <3>1 DEF DetailsAreOfRoute, OverviewFollows, Shown
    <3>4. QED
      BY <3>2, <3>3 DEF PagesInv
  <2>4. QED
    BY <1>5, <2>2, <2>3 DEF AnswerList
<1>6. CASE AnswerServer
  <2>1. UNCHANGED <<world, route, list, extra, metrics, restarting>> /\ Render
    BY <1>6 DEF AnswerServer
  <2>2. Entry(world, server.key) \in Seq(Machine) /\ Ids(Entry(world, server.key)) \subseteq {server.key}
    BY <1>t, EntryIsOfId
  <2>3. /\ server' \in HookOf(Machine) /\ server'.key = server.key
        /\ server'.data = server.data \/ Ids(server'.data) \subseteq {server.key}
    BY <1>6, <1>s, <2>2 DEF AnswerServer
  <2>4. PagesTypes'
    BY <1>t, <1>c, <2>1, <2>3 DEF PagesTypes
  <2>5. DetailsAreOfRoute' /\ OverviewFollows'
    BY <1>t, <2>1, <2>3 DEF DetailsAreOfRoute, OverviewFollows, Shown
  <2>6. QED
    BY <2>4, <2>5 DEF PagesInv
<1>7. CASE AnswerMetrics
  <2>1. UNCHANGED <<world, route, list, extra, server, restarting>> /\ Render
    BY <1>7 DEF AnswerMetrics
  <2>2. ASSUME NEW s \in Shape, metrics.key # NoId,
               metrics' = Got(metrics, <<[id |-> metrics.key, shape |-> s]>>)
        PROVE  /\ metrics' \in HookOf(MetricsSnapshot) /\ metrics'.key = metrics.key
               /\ Ids(metrics'.data) \subseteq {metrics.key}
    <3> DEFINE d == <<[id |-> metrics.key, shape |-> s]>>
    <3>1. d \in Seq(MetricsSnapshot)
      BY <2>2, <1>m DEF MetricsSnapshot
    <3>2. Ids(d) \subseteq {metrics.key}
      BY DEF Ids
    <3> HIDE DEF d
    <3>3. metrics' = Got(metrics, d)
      BY <2>2 DEF d
    <3>4. QED
      BY <1>m, <3>1, <3>2, <3>3
  <2>3. /\ metrics' \in HookOf(MetricsSnapshot) /\ metrics'.key = metrics.key
        /\ metrics'.data = metrics.data \/ Ids(metrics'.data) \subseteq {metrics.key}
    BY <1>7, <1>m, <2>2 DEF AnswerMetrics
  <2>4. PagesTypes'
    BY <1>t, <1>c, <2>1, <2>3 DEF PagesTypes
  <2>5. DetailsAreOfRoute' /\ OverviewFollows'
    BY <1>t, <2>1, <2>3 DEF DetailsAreOfRoute, OverviewFollows, Shown
  <2>6. QED
    BY <2>4, <2>5 DEF PagesInv
<1>8. CASE RestartAnswered
  <2>1. UNCHANGED <<world, route, list, extra, server>> /\ Render /\ restarting' = NoId
    BY <1>8 DEF RestartAnswered
  <2>2. metrics' \in HookOf(MetricsSnapshot) /\ metrics'.key = metrics.key /\ metrics'.data = metrics.data
    BY <1>8, <1>t, <1>m DEF RestartAnswered
  <2>3. PagesTypes'
    BY <1>t, <1>n, <1>c, <2>1, <2>2 DEF PagesTypes
  <2>4. DetailsAreOfRoute' /\ OverviewFollows'
    BY <1>t, <2>1, <2>2 DEF DetailsAreOfRoute, OverviewFollows, Shown
  <2>5. QED
    BY <2>3, <2>4 DEF PagesInv
<1>9. CASE Add
  <2>1. UNCHANGED <<route, list, server, restarting>> /\ Render /\ route.page = "overview"
    BY <1>9 DEF Add
  <2>2. PICK i \in ServerId : /\ world' = Append(world, [id |-> i, online |-> TRUE])
                        /\ extra' = Append(extra, [id |-> i, online |-> TRUE])
                        /\ FollowPrimary(list.data \o extra')
    BY <1>9 DEF Add
  <2>3. [id |-> i, online |-> TRUE] \in Machine
    BY DEF Machine
  <2>4. world' \in Seq(Machine) /\ extra' \in Seq(Machine)
    BY <1>t, <2>2, <2>3
  <2>5. list.data \o extra' \in Seq(Machine)
    BY <1>l, <2>4
  <2>6. metrics' \in HookOf(MetricsSnapshot) /\ metrics'.key = Primary(list.data \o extra')
    BY <1>f, <2>1, <2>2, <2>5
  <2>7. PagesTypes'
    BY <1>t, <1>c, <2>1, <2>4, <2>6 DEF PagesTypes
  <2>8. DetailsAreOfRoute' /\ OverviewFollows'
    BY <2>1, <2>6 DEF DetailsAreOfRoute, OverviewFollows, Shown
  <2>9. QED
    BY <2>7, <2>8 DEF PagesInv
<1>10. CASE Flip
  <2>1. UNCHANGED <<route, list, extra, server, metrics, restarting, crashed>>
    BY <1>10 DEF Flip, pageState
  <2>2. world' \in Seq(Machine)
    <3>1. PICK k \in 1 .. Len(world) : world' = [world EXCEPT ![k].online = ~ @]
      BY <1>10 DEF Flip
    <3>2. world[k] \in Machine
      BY <1>t
    <3>3. [world[k] EXCEPT !.online = ~ @] \in Machine
      BY <3>2 DEF Machine
    <3>4. QED
      BY <1>t, <3>1, <3>3
  <2>3. PagesTypes'
    BY <1>t, <2>1, <2>2 DEF PagesTypes
  <2>4. DetailsAreOfRoute' /\ OverviewFollows'
    BY <1>t, <2>1 DEF DetailsAreOfRoute, OverviewFollows, Shown
  <2>5. QED
    BY <2>3, <2>4 DEF PagesInv
<1>11. CASE Restart
  <2>1. UNCHANGED <<world, route, list, extra, server, metrics>> /\ Render /\ restarting' = route.id
    BY <1>11 DEF Restart
  <2>2. route.id \in ServerId \cup {NoId}
    BY <1>t
  <2>3. PagesTypes'
    BY <1>t, <1>c, <2>1, <2>2 DEF PagesTypes
  <2>4. DetailsAreOfRoute' /\ OverviewFollows'
    BY <1>t, <2>1 DEF DetailsAreOfRoute, OverviewFollows, Shown
  <2>5. QED
    BY <2>3, <2>4 DEF PagesInv
<1>12. CASE UNCHANGED pagesVars
  <2>1. UNCHANGED <<world, route, list, extra, server, metrics, restarting, crashed>>
    BY <1>12 DEF pagesVars, pageState
  <2>2. PagesTypes'
    BY <1>t, <2>1 DEF PagesTypes
  <2>3. DetailsAreOfRoute' /\ OverviewFollows'
    BY <1>t, <2>1 DEF DetailsAreOfRoute, OverviewFollows, Shown
  <2>4. QED
    BY <2>2, <2>3 DEF PagesInv
<1>13. QED
  BY <1>1, <1>2, <1>3, <1>4, <1>5, <1>6, <1>7, <1>8, <1>9, <1>10, <1>11, <1>12 DEF PagesNext

\* Every reachable state of the pages satisfies the invariant.
THEOREM PagesInvariant == PagesSpec => []PagesInv
<1>1. PagesInit => PagesInv
  BY PagesInitInv
<1>2. PagesInv /\ [PagesNext]_pagesVars => PagesInv'
  BY PagesStepInv
<1>3. QED
  BY <1>1, <1>2, PTL DEF PagesSpec

\* The page of a server never shows, refreshes or restarts another one, in
\* whatever order pages are left and answers come.
THEOREM DetailsOfTheRoute == PagesSpec => []DetailsAreOfRoute
<1>1. PagesInv => DetailsAreOfRoute
  BY DEF PagesInv
<1>2. QED
  BY <1>1, PagesInvariant, PTL

\* The overview loads the figures of the first server that is online of those
\* it lists, after any answers, additions and refreshes.
THEOREM OverviewFollowsPrimary == PagesSpec => []OverviewFollows
<1>1. PagesInv => OverviewFollows
  BY DEF PagesInv
<1>2. QED
  BY <1>1, PagesInvariant, PTL

\* The hooks of a page that is mounted wait for what the page shows.
LEMMA MountWaits ==
  ASSUME NEW p, NEW i, NEW panel, Mount(p, i, panel)
  PROVE  WaitsForOwn'
<1>1. route'.page = p /\ restarting' = NoId
  BY DEF Mount
<1>2. p # "details" => ~ server'.busy
  BY DEF Mount, Unused
<1>3. p \notin {"details", "overview"} => ~ metrics'.busy
  BY DEF Mount, Unused
<1>4. QED
  BY <1>1, <1>2, <1>3 DEF WaitsForOwn

\* Hooks are not asked, and answers are not awaited, for another page.
LEMMA WaitsStep == PagesTypes /\ WaitsForOwn /\ [PagesNext]_pagesVars => WaitsForOwn'
<1> SUFFICES ASSUME PagesTypes, WaitsForOwn, [PagesNext]_pagesVars
             PROVE  WaitsForOwn'
  OBVIOUS
<1>t. /\ route \in [page : Page, id : ServerId \cup {NoId}, panel : Panel]
      /\ server \in HookOf(Machine) /\ metrics \in HookOf(MetricsSnapshot)
  BY DEF PagesTypes
<1>m. /\ \A d : Got(server, d).busy = FALSE /\ Got(metrics, d).busy = FALSE
      /\ Failed(server).busy = FALSE /\ Failed(metrics).busy = FALSE
  BY <1>t DEF HookOf, Got, Failed
<1>1. CASE Navigate
  BY <1>1, MountWaits DEF Navigate
<1>2. CASE Redirect
  BY <1>2, MountWaits DEF Redirect
<1>3. CASE SetPanel
  <2>1. route'.page = route.page /\ UNCHANGED <<server, metrics, restarting>>
    BY <1>3, <1>t DEF SetPanel
  <2>2. QED
    BY <2>1 DEF WaitsForOwn
<1>4. CASE RefreshPage
  <2>1. UNCHANGED <<route, server, restarting>>
    BY <1>4 DEF RefreshPage
  <2>2. route.page \notin {"details", "overview"} => UNCHANGED metrics
    BY <1>4 DEF RefreshPage
  <2>3. QED
    BY <2>1, <2>2 DEF WaitsForOwn
<1>5. CASE AnswerList
  <2>1. UNCHANGED <<route, server, restarting>>
    BY <1>5 DEF AnswerList
  <2>2. route.page # "overview" => UNCHANGED metrics
    BY <1>5 DEF AnswerList, FollowPrimary
  <2>3. QED
    BY <2>1, <2>2 DEF WaitsForOwn
<1>6. CASE AnswerServer
  <2>1. UNCHANGED <<route, metrics, restarting>> /\ ~ server'.busy
    BY <1>6, <1>m DEF AnswerServer
  <2>2. QED
    BY <2>1 DEF WaitsForOwn
<1>7. CASE AnswerMetrics
  <2>1. UNCHANGED <<route, server, restarting>> /\ ~ metrics'.busy
    BY <1>7, <1>m DEF AnswerMetrics
  <2>2. QED
    BY <2>1 DEF WaitsForOwn
<1>8. CASE RestartAnswered
  <2>1. UNCHANGED <<route, server>> /\ restarting' = NoId /\ route.page = "details"
    BY <1>8 DEF RestartAnswered, WaitsForOwn
  <2>2. QED
    BY <2>1 DEF WaitsForOwn
<1>9. CASE Add
  <2>1. UNCHANGED <<route, server, restarting>> /\ route.page = "overview"
    BY <1>9 DEF Add
  <2>2. QED
    BY <2>1 DEF WaitsForOwn
<1>10. CASE Flip \/ UNCHANGED pagesVars
  <2>1. UNCHANGED <<route, server, metrics, restarting>>
    BY <1>10 DEF Flip, pagesVars, pageState
  <2>2. QED
    BY <2>1 DEF WaitsForOwn
<1>11. CASE Restart
  <2>1. UNCHANGED <<route, server, metrics>> /\ route.page = "details"
    BY <1>11 DEF Restart
  <2>2. QED
    BY <2>1 DEF WaitsForOwn
<1>12. QED
  BY <1>1, <1>2, <1>3, <1>4, <1>5, <1>6, <1>7, <1>8, <1>9, <1>10, <1>11 DEF PagesNext

LEMMA ServerMounts ==
  ASSUME NEW p, NEW i \in ServerId \cup {NoId}, NEW panel, Mount(p, i, panel)
  PROVE  ServerHook!Drop \/ \E k \in ServerId \cup {NoId} : ServerHook!Mount(k)
<1>1. route'.page = p
  BY DEF Mount
<1>2. CASE p = "details"
  <2>1. server'.key = i /\ server'.busy = TRUE /\ server'.data = <<>>
    BY <1>2 DEF Mount, Loading
  <2>2. ServerHook!Mount(i)
    BY <1>1, <1>2, <2>1, NoIds DEF ServerHook!Mount
  <2>3. QED
    BY <2>2
<1>3. CASE p # "details"
  <2>1. server'.key = NoId /\ server'.busy = FALSE /\ server'.data = <<>>
    BY <1>3 DEF Mount, Unused
  <2>2. ServerHook!Drop
    BY <1>1, <1>3, <2>1, NoIds DEF ServerHook!Drop
  <2>3. QED
    BY <2>2
<1>4. QED
  BY <1>2, <1>3

LEMMA MetricsMounts ==
  ASSUME NEW p, NEW i \in ServerId \cup {NoId}, NEW panel, Mount(p, i, panel)
  PROVE  MetricsHook!Drop \/ \E k \in ServerId \cup {NoId} : MetricsHook!Mount(k)
<1>1. route'.page = p
  BY DEF Mount
<1>2. CASE p \in {"details", "overview"}
  <2>1. metrics'.key = i /\ metrics'.busy = TRUE /\ metrics'.data = <<>>
    BY <1>2 DEF Mount, Loading
  <2>2. MetricsHook!Mount(i)
    BY <1>1, <1>2, <2>1, NoIds DEF MetricsHook!Mount
  <2>3. QED
    BY <2>2
<1>3. CASE p \notin {"details", "overview"}
  <2>1. metrics'.key = NoId /\ metrics'.busy = FALSE /\ metrics'.data = <<>>
    BY <1>3 DEF Mount, Unused
  <2>2. MetricsHook!Drop
    BY <1>1, <1>3, <2>1, NoIds DEF MetricsHook!Drop
  <2>3. QED
    BY <2>2
<1>4. QED
  BY <1>2, <1>3

\* A step of the pages is one of the hook of the server, or none.
ServerHookNext  == ServerHook!Next \/ ServerHook!Drop \/ \E k \in ServerId \cup {NoId} : ServerHook!Mount(k)
MetricsHookNext == MetricsHook!Next \/ MetricsHook!Drop \/ \E k \in ServerId \cup {NoId} : MetricsHook!Mount(k)

LEMMA ServerHookStep ==
  PagesTypes /\ WaitsForOwn /\ [PagesNext]_pagesVars => [ServerHookNext]_(ServerHook!vars)
<1> SUFFICES ASSUME PagesTypes, WaitsForOwn, [PagesNext]_pagesVars
             PROVE  [ServerHookNext]_(ServerHook!vars)
  OBVIOUS
<1>t. /\ route \in [page : Page, id : ServerId \cup {NoId}, panel : Panel]
      /\ server \in HookOf(Machine) /\ list \in HookOf(Machine) /\ world \in Seq(Machine)
  BY DEF PagesTypes
<1>1. CASE Navigate
  <2>1. PICK p \in Page, i \in ServerId \cup {NoId}, panel \in Panel : Mount(p, i, panel)
    BY <1>1 DEF Navigate, Page, Panel
  <2>2. QED
    BY <2>1, ServerMounts DEF ServerHookNext
<1>2. CASE Redirect
  <2>1. Primary(list.data) \in ServerId \cup {NoId}
    BY <1>t, PrimaryType DEF HookOf
  <2>2. QED
    BY <1>2, <2>1, ServerMounts DEF Redirect, ServerHookNext
<1>3. CASE AnswerServer
  <2>1. route' = route /\ server.busy
    BY <1>3 DEF AnswerServer
  <2>2. route.page = "details"
    BY <2>1 DEF WaitsForOwn
  <2>3. CASE server' = Got(server, Entry(world, server.key))
    <3>1. Ids(Entry(world, server.key)) \in {{}, {server.key}}
      BY <1>t, EntryIsOfId
    <3>2. server'.busy = FALSE /\ server'.key = server.key /\ server'.data = Entry(world, server.key)
      BY <1>t, <2>3 DEF HookOf, Got
    <3>3. ServerHook!Answer
      BY <2>1, <2>2, <3>1, <3>2 DEF ServerHook!Answer
    <3>4. QED
      BY <3>3 DEF ServerHook!Next, ServerHookNext
  <2>4. CASE server' = Failed(server)
    <3>1. server'.busy = FALSE /\ server'.key = server.key /\ server'.data = server.data
      BY <1>t, <2>4 DEF HookOf, Failed
    <3>2. ServerHook!Fail
      BY <2>1, <2>2, <3>1 DEF ServerHook!Fail
    <3>3. QED
      BY <3>2 DEF ServerHook!Next, ServerHookNext
  <2>5. QED
    BY <1>3, <2>3, <2>4 DEF AnswerServer
<1>4. CASE \/ SetPanel \/ RefreshPage \/ AnswerList \/ AnswerMetrics \/ RestartAnswered
           \/ Add \/ Flip \/ Restart \/ UNCHANGED pagesVars
  <2>1. route'.page = route.page /\ server' = server
    BY <1>4, <1>t DEF SetPanel, RefreshPage, AnswerList, AnswerMetrics, RestartAnswered, Add, Flip, Restart,
                      pagesVars, pageState
  <2>2. QED
    BY <2>1 DEF ServerHook!vars
<1>5. QED
  BY <1>1, <1>2, <1>3, <1>4 DEF PagesNext

\* Another question for the page's figures: another key, or a refresh.
LEMMA MetricsAsks ==
  ASSUME NEW k \in ServerId \cup {NoId}, route.page \in {"details", "overview"}, route'.page = route.page,
         metrics'.key = k, metrics'.busy = TRUE, metrics'.data = metrics.data
  PROVE  MetricsHookNext
<1>1. MetricsHook!Ask(k)
  BY DEF MetricsHook!Ask
<1>2. QED
  BY <1>1 DEF MetricsHook!Next, MetricsHookNext

\* A step of the pages is one of the hook of the figures, or none.
LEMMA MetricsHookStep ==
  PagesTypes /\ WaitsForOwn /\ [PagesNext]_pagesVars => [MetricsHookNext]_(MetricsHook!vars)
<1> SUFFICES ASSUME PagesTypes, WaitsForOwn, [PagesNext]_pagesVars
             PROVE  [MetricsHookNext]_(MetricsHook!vars)
  OBVIOUS
<1>t. /\ route \in [page : Page, id : ServerId \cup {NoId}, panel : Panel]
      /\ metrics \in HookOf(MetricsSnapshot) /\ metrics.key \in ServerId \cup {NoId}
      /\ list \in HookOf(Machine) /\ world \in Seq(Machine) /\ extra \in Seq(Machine)
  BY DEF PagesTypes, HookOf
\* Asking again for what is shown.
<1>r. ASSUME route.page \in {"details", "overview"}, route'.page = route.page, metrics' = Again(metrics)
      PROVE  MetricsHookNext
  <2>1. metrics'.key = metrics.key /\ metrics'.busy = TRUE /\ metrics'.data = metrics.data
    BY <1>r, <1>t DEF HookOf, Again
  <2>2. QED
    BY <2>1, <1>r, <1>t, MetricsAsks
\* Following the first server that is online.
<1>f. ASSUME NEW s \in Seq(Machine), FollowPrimary(s), route' = route
      PROVE  [MetricsHookNext]_(MetricsHook!vars)
  <2>1. CASE metrics' = metrics
    BY <2>1, <1>f DEF MetricsHook!vars
  <2>2. CASE metrics' # metrics
    <3>1. route.page = "overview" /\ metrics' = Rekey(metrics, Primary(s))
      BY <2>2, <1>f DEF FollowPrimary
    <3>2. Primary(s) \in ServerId \cup {NoId}
      BY PrimaryType
    <3>3. metrics'.key = Primary(s) /\ metrics'.busy = TRUE /\ metrics'.data = metrics.data
      BY <2>2, <3>1, <1>t DEF HookOf, Rekey
    <3>4. QED
      BY <3>1, <3>2, <3>3, <1>f, MetricsAsks
  <2>3. QED
    BY <2>1, <2>2
<1>1. CASE Navigate
  <2>1. PICK p \in Page, i \in ServerId \cup {NoId}, panel \in Panel : Mount(p, i, panel)
    BY <1>1 DEF Navigate, Page, Panel
  <2>2. QED
    BY <2>1, MetricsMounts DEF MetricsHookNext
<1>2. CASE Redirect
  <2>1. Primary(list.data) \in ServerId \cup {NoId}
    BY <1>t, PrimaryType DEF HookOf
  <2>2. QED
    BY <1>2, <2>1, MetricsMounts DEF Redirect, MetricsHookNext
<1>3. CASE RefreshPage
  <2>1. route' = route /\ route.page \in {"details", "overview"}
    BY <1>3 DEF RefreshPage
  <2>2. metrics' = metrics \/ metrics' = Again(metrics)
    BY <1>3 DEF RefreshPage
  <2>3. QED
    BY <2>1, <2>2, <1>r DEF MetricsHook!vars
<1>4. CASE RestartAnswered
  <2>1. route' = route /\ route.page = "details"
    BY <1>4 DEF RestartAnswered, WaitsForOwn
  <2>2. metrics' = metrics \/ metrics' = Again(metrics)
    BY <1>4 DEF RestartAnswered
  <2>3. QED
    BY <2>1, <2>2, <1>r DEF MetricsHook!vars
<1>5. CASE AnswerList
  <2>1. route' = route
    BY <1>5 DEF AnswerList
  <2>2. world \o extra \in Seq(Machine)
    BY <1>t
  <2>3. FollowPrimary(world \o extra) \/ metrics' = metrics
    BY <1>5 DEF AnswerList
  <2>4. QED
    BY <2>1, <2>2, <2>3, <1>f DEF MetricsHook!vars
<1>6. CASE Add
  <2>1. route' = route
    BY <1>6 DEF Add
  <2>2. PICK i \in ServerId : extra' = Append(extra, [id |-> i, online |-> TRUE]) /\ FollowPrimary(list.data \o extra')
    BY <1>6 DEF Add
  <2>3. [id |-> i, online |-> TRUE] \in Machine /\ list.data \in Seq(Machine)
    BY <1>t DEF Machine, HookOf
  <2>4. list.data \o extra' \in Seq(Machine)
    BY <1>t, <2>2, <2>3
  <2>5. QED
    BY <2>1, <2>2, <2>4, <1>f
<1>7. CASE AnswerMetrics
  <2>1. route' = route /\ metrics.busy
    BY <1>7 DEF AnswerMetrics
  <2>2. route.page \in {"details", "overview"}
    BY <2>1 DEF WaitsForOwn
  <2>3. ASSUME NEW s \in Shape, metrics' = Got(metrics, <<[id |-> metrics.key, shape |-> s]>>)
        PROVE  MetricsHookNext
    <3> DEFINE d == <<[id |-> metrics.key, shape |-> s]>>
    <3>1. Ids(d) \in {{}, {metrics.key}}
      BY DEF Ids
    <3> HIDE DEF d
    <3>2. metrics' = Got(metrics, d)
      BY <2>3 DEF d
    <3>3. metrics'.busy = FALSE /\ metrics'.key = metrics.key /\ metrics'.data = d
      BY <1>t, <3>2 DEF HookOf, Got
    <3>4. MetricsHook!Answer
      BY <2>1, <2>2, <3>1, <3>3 DEF MetricsHook!Answer
    <3>5. QED
      BY <3>4 DEF MetricsHook!Next, MetricsHookNext
  <2>4. CASE metrics' = Failed(metrics)
    <3>1. metrics'.busy = FALSE /\ metrics'.key = metrics.key /\ metrics'.data = metrics.data
      BY <1>t, <2>4 DEF HookOf, Failed
    <3>2. MetricsHook!Fail
      BY <2>1, <2>2, <3>1 DEF MetricsHook!Fail
    <3>3. QED
      BY <3>2 DEF MetricsHook!Next, MetricsHookNext
  <2>5. QED
    BY <1>7, <2>3, <2>4 DEF AnswerMetrics
<1>8. CASE SetPanel \/ AnswerServer \/ Flip \/ Restart \/ UNCHANGED pagesVars
  <2>1. route'.page = route.page /\ metrics' = metrics
    BY <1>8, <1>t DEF SetPanel, AnswerServer, Flip, Restart, pagesVars, pageState
  <2>2. QED
    BY <2>1 DEF MetricsHook!vars
<1>9. QED
  BY <1>1, <1>2, <1>3, <1>4, <1>5, <1>6, <1>7, <1>8 DEF PagesNext

\* The hooks of the pages behave as those of useAsync are proved to (theorem
\* HookRefinement), and a page that is mounted takes nothing over from the last.
THEOREM PageHooks == PagesSpec => HooksAreDataHooks
<1>1. PagesInit => PagesTypes /\ WaitsForOwn /\ ServerHook!Init /\ MetricsHook!Init
  <2> SUFFICES ASSUME PagesInit
               PROVE  PagesTypes /\ WaitsForOwn /\ ServerHook!Init /\ MetricsHook!Init
    OBVIOUS
  <2>1. PagesTypes
    BY PagesInitInv DEF PagesInv
  <2>2. /\ route.page = "overview" /\ restarting = NoId
        /\ server.busy = FALSE /\ server.key = NoId /\ server.data = <<>>
        /\ metrics.busy = TRUE /\ metrics.key = NoId /\ metrics.data = <<>>
    BY DEF PagesInit, Loading, Unused
  <2>3. WaitsForOwn
    BY <2>2 DEF WaitsForOwn
  <2>4. ServerHook!Init
    BY <2>2, NoIds DEF ServerHook!Init
  <2>5. MetricsHook!Init
    BY <2>2, NoIds DEF MetricsHook!Init
  <2>6. QED
    BY <2>1, <2>3, <2>4, <2>5
<1>2. PagesTypes /\ WaitsForOwn /\ [PagesNext]_pagesVars => WaitsForOwn'
  BY WaitsStep
<1>3. PagesInv => PagesTypes
  BY DEF PagesInv
<1>4. PagesTypes /\ WaitsForOwn /\ [PagesNext]_pagesVars =>
        /\ [ServerHook!Next \/ ServerHook!Drop \/ \E k \in ServerId \cup {NoId} : ServerHook!Mount(k)]_(ServerHook!vars)
        /\ [MetricsHook!Next \/ MetricsHook!Drop \/ \E k \in ServerId \cup {NoId} : MetricsHook!Mount(k)]_(MetricsHook!vars)
  BY ServerHookStep, MetricsHookStep DEF ServerHookNext, MetricsHookNext
<1>5. QED
  BY <1>1, <1>2, <1>3, <1>4, PagesInvariant, PTL DEF PagesSpec, HooksAreDataHooks, ServerHook!PlaceSpec, MetricsHook!PlaceSpec

\* What every page and panel reads is in a snapshot of the sample data.
LEMMA SampleRenders ==
  ASSUME Shape \subseteq {"sample"}, PagesTypes
  PROVE  Renders
<1>1. route.panel \in Panel
  BY DEF PagesTypes
<1>2. Read \subseteq SampleFields
  BY <1>1 DEF Read, SampleFields
<1>3. metrics.data \in Seq(MetricsSnapshot)
  BY DEF PagesTypes, HookOf
<1>4. ASSUME NEW k \in 1 .. Len(metrics.data)
      PROVE  Fields(metrics.data[k].shape) = SampleFields
  <2>1. metrics.data[k] \in MetricsSnapshot
    BY <1>3
  <2>2. metrics.data[k].shape = "sample"
    BY <2>1 DEF MetricsSnapshot
  <2>3. QED
    BY <2>2 DEF Fields
<1>5. QED
  BY <1>2, <1>4 DEF Renders

\* With a data source whose snapshots all have the shape of the sample data, as
\* in demo mode, no page throws while it renders.
THEOREM PagesRenderSamples ==
  ASSUME Shape \subseteq {"sample"}
  PROVE  PagesSpec => []PagesRender
<1> DEFINE Inv == PagesInv /\ PagesRender
<1>s. PagesTypes => Renders
  BY SampleRenders
<1>r. PagesTypes' => Renders'
  BY <1>s, PTL
<1>1. PagesInit => Inv
  BY PagesInitInv DEF PagesInit, PagesRender
<1>2. Inv /\ [PagesNext]_pagesVars => Inv'
  <2> SUFFICES ASSUME PagesInv, PagesRender, [PagesNext]_pagesVars
               PROVE  Inv'
    OBVIOUS
  <2>1. PagesInv'
    BY PagesStepInv
  <2>3. Renders'
    BY <2>1, <1>r DEF PagesInv
  <2>4. CASE Render
    BY <2>1, <2>3, <2>4 DEF Render, PagesRender
  <2>5. CASE Flip \/ UNCHANGED pagesVars
    <3>1. crashed' = crashed
      BY <2>5 DEF Flip, pagesVars
    <3>2. QED
      BY <3>1, <2>1 DEF PagesRender
  <2>6. QED
    BY <2>4, <2>5 DEF PagesNext, Navigate, SetPanel, RefreshPage, Redirect, AnswerList,
       AnswerServer, AnswerMetrics, RestartAnswered, Add, Restart
<1>3. QED
  <2>1. PagesSpec => []Inv
    BY <1>1, <1>2, PTL DEF PagesSpec
  <2>2. Inv => PagesRender
    OBVIOUS
  <2>3. QED
    BY <2>1, <2>2, PTL
=============================================================================
