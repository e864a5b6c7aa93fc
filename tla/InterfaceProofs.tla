-------------------------- MODULE InterfaceProofs ---------------------------
(***************************************************************************)
(* Proofs about what the user operates: the "Add server" dialog and the    *)
(* stored servers, what lies over a page, timers, preferences, the command *)
(* palette and the tables; for any names, agents, ids, texts and lists,    *)
(* and any number of calls and visits.                                     *)
(***************************************************************************)
EXTENDS AddServer, Overlays, Timers, Preferences, CommandPalette, Lists, ProcessTable, ArraysProofs

-----------------------------------------------------------------------------
(***************************************************************************)
(* AddServer.                                                              *)
(***************************************************************************)

\* What makes a server announced belongs to its id and is of the right type.
LEMMA NewServer ==
  ASSUME DialogInv, NEW c \in Call, calls[c].kind = "add"
  PROVE  New(c) \in Server
<1>1. calls[c].form \in Form /\ calls[c].form.name # Blank /\ calls[c].form.agent # Blank
  BY DEF DialogInv, CallsInv
<1>2. calls[c].form.name \in Name /\ calls[c].form.agent \in Agent
  BY <1>1 DEF Form
<1>3. QED
  BY <1>2, SlugAssumption DEF New, Server

LEMMA InitDialog == Init => DialogInv
<1> SUFFICES ASSUME Init
             PROVE  DialogInv
  OBVIOUS
<1>1. TypeOK
  <2>1. test \in [phase : {"idle", "connecting", "connected", "failed"}, by : 0 .. MaxCalls]
    BY BoundsAssumption DEF Init, Idle
  <2>2. form \in Form
    BY DEF Init, Form, Empty
  <2>3. \A c \in Call : calls[c] = NoCall
    BY DEF Init
  <2>4. announced \in [Id -> Server \cup {NoServer}]
    BY DEF Init
  <2>5. made \in 0 .. MaxCalls
    BY BoundsAssumption DEF Init
  <2>6. open \in BOOLEAN /\ submitting \in BOOLEAN
    BY DEF Init
  <2>7. visit = 1 /\ listing = "asked" /\ listed = {} /\ stored = {}
    BY DEF Init
  <2>8. QED
    BY <2>1, <2>2, <2>3, <2>4, <2>5, <2>6, <2>7 DEF TypeOK
<1>2. CallsInv
  BY DEF Init, CallsInv, NoCall, Form, Empty
<1>3. UniqueIds /\ WaitsForCalls
  BY DEF Init, UniqueIds, WaitsForCalls, Idle
<1>4. QED
  BY <1>1, <1>2, <1>3 DEF Init, DialogInv

\* Making a call: it has a number of its own.
LEMMA StartEffect ==
  ASSUME DialogInv, NEW kind \in {"test", "add"}, Start(kind),
         kind = "add" => form.name # Blank /\ form.agent # Blank
  PROVE  /\ CallsInv'
         /\ made + 1 \in Call /\ made' \in 0 .. MaxCalls
         /\ calls'[made + 1] = [kind |-> kind, form |-> form, visit |-> visit]
         /\ \A c \in Call : calls[c].kind # "none" => c # made + 1 /\ calls'[c] = calls[c]
         /\ \A c \in Call : calls'[c] # NoCall => c <= made'
<1>0. made \in Nat /\ made < MaxCalls /\ made' = made + 1
  <2>1. made \in 0 .. MaxCalls
    BY DEF DialogInv, TypeOK
  <2>2. made < MaxCalls /\ made' = made + 1
    BY DEF Start
  <2>3. QED
    BY <2>1, <2>2
<1>1. made + 1 \in Call /\ made' = made + 1 /\ made' \in 0 .. MaxCalls
  BY <1>0, BoundsAssumption DEF Call
<1>2. calls[made + 1] = NoCall
  <2>1. calls[made + 1] # NoCall => made + 1 <= made
    BY <1>1 DEF DialogInv, TypeOK
  <2>2. QED
    BY <2>1, <1>0
<1>3. calls' = [calls EXCEPT ![made + 1] = [kind |-> kind, form |-> form, visit |-> visit]]
  BY DEF Start
<1>4. calls'[made + 1] = [kind |-> kind, form |-> form, visit |-> visit]
  BY <1>1, <1>3 DEF DialogInv, CallsInv
<1>5. \A c \in Call : c # made + 1 => calls'[c] = calls[c]
  BY <1>3 DEF DialogInv, CallsInv
<1>6. \A c \in Call : calls[c].kind # "none" => c # made + 1
  BY <1>2 DEF NoCall
<1>7. CallsInv'
  <2>1. visit \in Nat /\ form \in Form
    BY BoundsAssumption DEF DialogInv, TypeOK
  <2>2. calls' \in [Call -> [kind : {"none", "test", "add"}, form : Form, visit : Nat]]
    BY <1>3, <2>1 DEF DialogInv, CallsInv
  <2>3. ASSUME NEW c \in Call, calls'[c].kind = "add"
        PROVE  calls'[c].form.name # Blank /\ calls'[c].form.agent # Blank
    BY <2>3, <1>4, <1>5 DEF DialogInv, CallsInv
  <2>4. QED
    BY <2>2, <2>3 DEF CallsInv
<1>8. \A c \in Call : calls'[c] # NoCall => c <= made'
  BY <1>1, <1>5 DEF DialogInv, TypeOK, Call
<1>9. QED
  BY <1>1, <1>4, <1>5, <1>6, <1>7, <1>8

\* The end of a call leaves the others as they are.
LEMMA DoneEffect ==
  ASSUME DialogInv, NEW c \in Call, Done(c)
  PROVE  /\ CallsInv'
         /\ \A d \in Call : d # c => calls'[d] = calls[d]
         /\ \A d \in Call : calls'[d] # NoCall => d <= made
<1>1. \A d \in Call : calls'[d] = IF d = c THEN NoCall ELSE calls[d]
  BY DEF Done, DialogInv, CallsInv
<1>2. calls' \in [Call -> [kind : {"none", "test", "add"}, form : Form, visit : Nat]]
  BY DEF Done, DialogInv, CallsInv, NoCall, Form, Empty
<1>3. QED
  BY <1>1, <1>2 DEF DialogInv, CallsInv, TypeOK, NoCall

LEMMA NextDialog == DialogInv /\ [Next]_vars => DialogInv'
<1> SUFFICES ASSUME DialogInv, [Next]_vars
             PROVE  DialogInv'
  OBVIOUS
<1>a. TypeOK /\ CallsInv /\ UniqueIds /\ WaitsForCalls
  BY DEF DialogInv
<1>1. CASE ReadStored
  BY <1>1 DEF ReadStored, DialogInv, TypeOK, CallsInv, UniqueIds, WaitsForCalls, Here, dialog, Server
<1>2. CASE ShowList
  BY <1>2 DEF ShowList, DialogInv, TypeOK, CallsInv, UniqueIds, WaitsForCalls, Here, dialog
<1>3. CASE Remount
  <2>1. test' \in [phase : {"idle", "connecting", "connected", "failed"}, by : 0 .. MaxCalls]
    BY <1>3, BoundsAssumption DEF Remount, Idle
  <2>2. form' \in Form
    BY <1>3 DEF Remount, Form, Empty
  <2>3. visit' \in 1 .. MaxVisits
    BY <1>3, <1>a, BoundsAssumption DEF Remount, TypeOK
  <2>4. TypeOK'
    BY <1>3, <1>a, <2>1, <2>2, <2>3 DEF Remount, TypeOK
  <2>5. WaitsForCalls'
    BY <1>3 DEF Remount, WaitsForCalls, Idle
  <2>6. QED
    BY <1>3, <2>4, <2>5 DEF Remount, DialogInv, CallsInv, UniqueIds
<1>4. CASE Open
  <2>1. test' \in [phase : {"idle", "connecting", "connected", "failed"}, by : 0 .. MaxCalls]
    BY <1>4, BoundsAssumption DEF Open, Idle
  <2>2. form' \in Form
    BY <1>4 DEF Open, Form, Empty
  <2>3. TypeOK'
    BY <1>4, <1>a, <2>1, <2>2 DEF Open, TypeOK, page
  <2>4. WaitsForCalls'
    BY <1>4 DEF Open, WaitsForCalls, Idle
  <2>5. QED
    BY <1>4, <2>3, <2>4 DEF Open, DialogInv, CallsInv, UniqueIds, page
<1>5. CASE Close
  BY <1>5 DEF Close, DialogInv, TypeOK, CallsInv, UniqueIds, WaitsForCalls, Here, page
<1>6. CASE Type
  <2>1. form' \in Form
    BY <1>6 DEF Type, DialogInv, TypeOK, Form
  <2>2. QED
    BY <1>6, <2>1, BoundsAssumption
    DEF Type, DialogInv, TypeOK, CallsInv, UniqueIds, WaitsForCalls, Here, Idle, page
<1>7. CASE RunTest
  <2>1. Start("test") /\ test' = [phase |-> "connecting", by |-> made + 1]
        /\ UNCHANGED <<page, open, form, submitting, stored, announced>>
    BY <1>7 DEF RunTest
  <2>2. /\ CallsInv'
        /\ made + 1 \in Call /\ made' \in 0 .. MaxCalls
        /\ calls'[made + 1] = [kind |-> "test", form |-> form, visit |-> visit]
        /\ \A c \in Call : calls[c].kind # "none" => c # made + 1 /\ calls'[c] = calls[c]
        /\ \A c \in Call : calls'[c] # NoCall => c <= made'
    BY <2>1, StartEffect
  <2>3. WaitsForCalls'
    BY <2>1, <2>2, <1>a DEF WaitsForCalls, Here, page
  <2>4. TypeOK'
    BY <2>1, <2>2, <1>a, BoundsAssumption DEF TypeOK, Call, page
  <2>5. QED
    BY <2>1, <2>2, <2>3, <2>4 DEF DialogInv, UniqueIds
<1>8. CASE Submit
  <2>1. Start("add") /\ submitting' = TRUE /\ form.name # Blank /\ form.agent # Blank
        /\ UNCHANGED <<page, open, form, test, stored, announced>>
    BY <1>8 DEF Submit
  <2>2. /\ CallsInv'
        /\ made + 1 \in Call /\ made' \in 0 .. MaxCalls
        /\ calls'[made + 1] = [kind |-> "add", form |-> form, visit |-> visit]
        /\ \A c \in Call : calls[c].kind # "none" => c # made + 1 /\ calls'[c] = calls[c]
        /\ \A c \in Call : calls'[c] # NoCall => c <= made'
    BY <2>1, StartEffect
  <2>3. WaitsForCalls'
    BY <2>1, <2>2, <1>a DEF WaitsForCalls, Here, page
  <2>4. TypeOK'
    BY <2>1, <2>2, <1>a, BoundsAssumption DEF TypeOK, Call, page
  <2>5. QED
    BY <2>1, <2>2, <2>3, <2>4 DEF DialogInv, UniqueIds
<1>9. ASSUME NEW c \in Call, AnswerTest(c)
      PROVE  DialogInv'
  <2>1. calls[c].kind = "test" /\ Done(c)
        /\ UNCHANGED <<page, open, form, submitting, made, stored, announced>>
    BY <1>9 DEF AnswerTest
  <2>2. /\ CallsInv'
        /\ \A d \in Call : d # c => calls'[d] = calls[d]
        /\ \A d \in Call : calls'[d] # NoCall => d <= made
    BY <2>1, DoneEffect
  <2>3. \/ test' = test /\ ~ Here(c)
        \/ \E result \in {"connected", "failed"} : test' = [phase |-> result, by |-> c]
    BY <1>9 DEF AnswerTest
  <2>4. TypeOK'
    BY <2>1, <2>2, <2>3, <1>a, BoundsAssumption DEF TypeOK, Call, page
  <2>5. WaitsForCalls'
    BY <2>1, <2>2, <2>3, <1>a DEF WaitsForCalls, Here, page
  <2>6. QED
    BY <2>1, <2>2, <2>4, <2>5 DEF DialogInv, UniqueIds
<1>10. ASSUME NEW c \in Call, AddSucceeds(c)
       PROVE  DialogInv'
  <2>1. calls[c].kind = "add" /\ Done(c)
        /\ stored' = Stored(stored, New(c))
        /\ announced' = [announced EXCEPT ![New(c).id] = New(c)]
        /\ UNCHANGED <<page, form, test, made>>
    BY <1>10 DEF AddSucceeds
  <2>2. /\ CallsInv'
        /\ \A d \in Call : d # c => calls'[d] = calls[d]
        /\ \A d \in Call : calls'[d] # NoCall => d <= made
    BY <2>1, DoneEffect
  <2>3. New(c) \in Server
    BY <2>1, NewServer
  <2>4. \/ open' = FALSE /\ submitting' = FALSE
        \/ ~ Here(c) /\ UNCHANGED <<open, submitting>>
    BY <1>10 DEF AddSucceeds
  <2>5. announced' \in [Id -> Server \cup {NoServer}] /\ stored' \subseteq Server
    BY <2>1, <2>3, <1>a DEF TypeOK, Stored
  <2>6. TypeOK'
    BY <2>1, <2>2, <2>4, <2>5, <1>a DEF TypeOK, page
  <2>7. WaitsForCalls'
    BY <2>1, <2>2, <2>4, <1>a DEF WaitsForCalls, Here, page
  <2>8. UniqueIds'
    BY <2>1, <1>a DEF UniqueIds, Stored
  <2>9. ASSUME NEW i \in Id, announced'[i] # NoServer
        PROVE  announced'[i].id = i
    BY <2>1, <2>3, <2>9 DEF DialogInv, TypeOK
  <2>10. QED
    BY <2>2, <2>6, <2>7, <2>8, <2>9 DEF DialogInv
<1>11. ASSUME NEW c \in Call, AddFails(c)
       PROVE  DialogInv'
  <2>1. calls[c].kind = "add" /\ Done(c)
        /\ UNCHANGED <<page, open, form, test, made, stored, announced>>
    BY <1>11 DEF AddFails
  <2>2. /\ CallsInv'
        /\ \A d \in Call : d # c => calls'[d] = calls[d]
        /\ \A d \in Call : calls'[d] # NoCall => d <= made
    BY <2>1, DoneEffect
  <2>3. submitting' = FALSE \/ (submitting' = submitting /\ ~ Here(c))
    BY <1>11 DEF AddFails
  <2>4. TypeOK'
    BY <2>1, <2>2, <2>3, <1>a DEF TypeOK, page
  <2>5. WaitsForCalls'
    BY <2>1, <2>2, <2>3, <1>a DEF WaitsForCalls, Here, page
  <2>6. QED
    BY <2>1, <2>2, <2>4, <2>5 DEF DialogInv, UniqueIds
<1>12. CASE UNCHANGED vars
  BY <1>12 DEF vars, dialog, page, DialogInv, TypeOK, CallsInv, UniqueIds, WaitsForCalls, Here
<1>13. QED
  BY <1>1, <1>2, <1>3, <1>4, <1>5, <1>6, <1>7, <1>8, <1>9, <1>10, <1>11, <1>12 DEF Next, Answer

\* In every reachable state a disabled button and a panel that says "Connecting"
\* have a pending call of this page, whatever was closed, reopened or left.
THEOREM DialogInvariant == Spec => []DialogInv
<1>1. Init => DialogInv
  BY InitDialog
<1>2. DialogInv /\ [Next]_vars => DialogInv'
  BY NextDialog
<1>3. QED
  BY <1>1, <1>2, PTL DEF Spec

\* The dialog's state has its type.
THEOREM TypeCorrect == Spec => []TypeOK
<1>1. DialogInv => TypeOK
  BY DEF DialogInv
<1>2. QED
  BY <1>1, DialogInvariant, PTL

\* No two stored servers have the same id, whichever calls overlapped.
THEOREM NoDuplicates == Spec => []UniqueIds
<1>1. DialogInv => UniqueIds
  BY DEF DialogInv
<1>2. QED
  BY <1>1, DialogInvariant, PTL

\* An announced server is stored, once, until one of its id replaces it.
THEOREM NothingLost == Spec => []AnnouncedIsStored
<1>1. Init => AnnouncedIsStored
  BY DEF Init, AnnouncedIsStored
<1>2. DialogInv /\ AnnouncedIsStored /\ [Next]_vars => AnnouncedIsStored'
  <2> SUFFICES ASSUME DialogInv, AnnouncedIsStored, [Next]_vars
               PROVE  AnnouncedIsStored'
    OBVIOUS
  <2>1. ASSUME NEW c \in Call, AddSucceeds(c)
        PROVE  AnnouncedIsStored'
    <3>1. calls[c].kind = "add" /\ stored' = Stored(stored, New(c))
          /\ announced' = [announced EXCEPT ![New(c).id] = New(c)]
      BY <2>1 DEF AddSucceeds
    <3>2. New(c) \in Server
      BY <3>1, NewServer
    <3>3. ASSUME NEW i \in Id, announced'[i] # NoServer
          PROVE  {s \in stored' : s.id = i} = {announced'[i]}
      <4>1. CASE i = New(c).id
        <5>1. announced'[i] = New(c)
          BY <4>1, <3>1, <3>2 DEF DialogInv, TypeOK
        <5>2. QED
          BY <4>1, <5>1, <3>1 DEF Stored
      <4>2. CASE i # New(c).id
        <5>1. announced'[i] = announced[i]
          BY <4>2, <3>1, <3>2 DEF DialogInv, TypeOK
        <5>2. {s \in stored' : s.id = i} = {s \in stored : s.id = i}
          BY <4>2, <3>1 DEF Stored
        <5>3. QED
          BY <5>1, <5>2, <3>3 DEF AnnouncedIsStored
      <4>3. QED
        BY <4>1, <4>2
    <3>4. QED
      BY <3>3 DEF AnnouncedIsStored
  <2>2. CASE UNCHANGED <<stored, announced>>
    BY <2>2 DEF AnnouncedIsStored
  <2>3. QED
    BY <2>1, <2>2 DEF Next, Answer, ReadStored, ShowList, Remount, Open, Close, Type, RunTest,
       Submit, AnswerTest, AddFails, vars
<1>3. QED
  BY <1>1, <1>2, DialogInvariant, PTL DEF Spec

-----------------------------------------------------------------------------
(***************************************************************************)
(* Overlays.                                                               *)
(***************************************************************************)

LEMMA OverlayStepInv == OverlayInv /\ [OverlayNext]_overlayVars => OverlayInv'
<1> SUFFICES ASSUME OverlayInv, [OverlayNext]_overlayVars
             PROVE  OverlayInv'
  OBVIOUS
<1> USE DEF OverlayInv, ScrollLockIsDialogs
<1>1. CASE OpenDialog
  BY <1>1 DEF OpenDialog
<1>2. CASE CloseDialog
  BY <1>2 DEF CloseDialog, CleanUp
<1>3. CASE Escape
  BY <1>3 DEF Escape, CleanUp
<1>4. CASE PointerDown
  <2>1. menus' \subseteq menus
    BY <1>4 DEF PointerDown
  <2>2. QED
    BY <1>4, <2>1 DEF PointerDown
<1>5. CASE ToggleMenu
  BY <1>5 DEF ToggleMenu
<1>6. CASE Choose
  BY <1>6 DEF Choose
<1>7. CASE SetDrawer
  BY <1>7 DEF SetDrawer
<1>8. CASE Go
  BY <1>8 DEF Go, CleanUp
<1>9. CASE UNCHANGED overlayVars
  BY <1>9 DEF overlayVars
<1>10. QED
  BY <1>1, <1>2, <1>3, <1>4, <1>5, <1>6, <1>7, <1>8, <1>9 DEF OverlayNext

\* However a dialog was closed or its page left, the body scrolls again, and
\* nothing of the layout stays open on the landing page.
THEOREM ScrollLock == OverlaySpec => []ScrollLockIsDialogs
<1>1. OverlayInit => OverlayInv
  BY DEF OverlayInit, OverlayInv, ScrollLockIsDialogs
<1>2. OverlayInv => ScrollLockIsDialogs
  BY DEF OverlayInv
<1>3. QED
  BY <1>1, <1>2, OverlayStepInv, PTL DEF OverlaySpec

-----------------------------------------------------------------------------
(***************************************************************************)
(* Timers.                                                                 *)
(***************************************************************************)

\* Making room for a toast keeps the toasts distinct.
LEMMA LastTwoType ==
  ASSUME NEW s \in Seq(Toast), \A j, k \in 1 .. Len(s) : s[j] = s[k] => j = k
  PROVE  /\ LastTwo(s) \in Seq(Toast) /\ Len(LastTwo(s)) <= 2
         /\ \A j, k \in 1 .. Len(LastTwo(s)) : LastTwo(s)[j] = LastTwo(s)[k] => j = k
         /\ \A j \in 1 .. Len(LastTwo(s)) : \E k \in 1 .. Len(s) : LastTwo(s)[j] = s[k]
<1>0. Len(s) \in Nat
  OBVIOUS
<1>1. CASE Len(s) <= 2
  BY <1>1 DEF LastTwo
<1>2. CASE ~ Len(s) <= 2
  <2> DEFINE t == SubSeq(s, Len(s) - 1, Len(s))
  <2>1. LastTwo(s) = t
    BY <1>2 DEF LastTwo
  <2>2. Len(s) - 1 \in 1 .. Len(s) + 1 /\ Len(s) - 1 \in Nat /\ Len(s) \in 0 .. Len(s)
    BY <1>0, <1>2
  <2>3. /\ t \in Seq(Toast) /\ Len(t) = 2
        /\ \A j \in 1 .. 2 : t[j] = s[Len(s) - 2 + j] /\ Len(s) - 2 + j \in 1 .. Len(s)
    BY <1>0, <1>2, <2>2
  <2> HIDE DEF t
  <2>4. \A j, k \in 1 .. 2 : t[j] = t[k] => j = k
    <3> SUFFICES ASSUME NEW j \in 1 .. 2, NEW k \in 1 .. 2, t[j] = t[k]
                 PROVE  j = k
      OBVIOUS
    <3>1. Len(s) - 2 + j = Len(s) - 2 + k
      BY <2>3
    <3>2. QED
      BY <1>0, <3>1
  <2>5. QED
    BY <2>1, <2>3, <2>4
<1>3. QED
  BY <1>1, <1>2

\* No toast is shown twice, and each has its timer.
LEMMA PushInv ==
  ASSUME ToastsInv, Push
  PROVE  ToastsInv'
<1>1. PICK t \in Toast \ pushed :
        toasts' = Append(LastTwo(toasts), t) /\ timers' = timers \cup {t} /\ pushed' = pushed \cup {t}
  BY DEF Push
<1>2. /\ toasts \in Seq(Toast) /\ timers \subseteq pushed /\ pushed \subseteq Toast
      /\ \A j, k \in 1 .. Len(toasts) : toasts[j] = toasts[k] => j = k
      /\ \A k \in 1 .. Len(toasts) : toasts[k] \in timers
  BY DEF ToastsInv, TimersInv
<1> DEFINE two == LastTwo(toasts)
<1>3. /\ two \in Seq(Toast) /\ Len(two) <= 2
      /\ \A j, k \in 1 .. Len(two) : two[j] = two[k] => j = k
      /\ \A j \in 1 .. Len(two) : two[j] \in timers
  BY <1>2, LastTwoType
<1> HIDE DEF two
<1>4. Len(two) \in Nat
  BY <1>3
<1>5. /\ toasts' \in Seq(Toast) /\ Len(toasts') = Len(two) + 1
      /\ \A j \in 1 .. Len(two) : toasts'[j] = two[j]
      /\ toasts'[Len(two) + 1] = t
  BY <1>1, <1>3, <1>4 DEF two
<1>6. \A j \in 1 .. Len(toasts') : j \in 1 .. Len(two) \/ j = Len(two) + 1
  BY <1>4, <1>5
<1>7. \A j, k \in 1 .. Len(toasts') : toasts'[j] = toasts'[k] => j = k
  <2> SUFFICES ASSUME NEW j \in 1 .. Len(toasts'), NEW k \in 1 .. Len(toasts'), toasts'[j] = toasts'[k]
               PROVE  j = k
    OBVIOUS
  <2>1. \A i \in 1 .. Len(two) : toasts'[i] # t
    BY <1>1, <1>2, <1>3, <1>5
  <2>2. QED
    BY <1>3, <1>5, <1>6, <2>1
<1>8. \A k \in 1 .. Len(toasts') : toasts'[k] \in timers'
  BY <1>1, <1>3, <1>5, <1>6
<1>9. UNCHANGED <<frame, displayed, value, hint, over>>
  BY DEF Push, counterVars, hintVars
<1>10. QED
  BY <1>1, <1>2, <1>3, <1>4, <1>5, <1>7, <1>8, <1>9 DEF ToastsInv, TimersInv

LEMMA DismissInv ==
  ASSUME ToastsInv, Dismiss
  PROVE  ToastsInv'
<1> DEFINE P(t) == {k \in 1 .. Len(toasts) : toasts[k] # t}
<1>1. PICK t \in timers : toasts' = Sublist(toasts, P(t)) /\ timers' = timers \ {t} /\ pushed' = pushed
  BY DEF Dismiss, Filter
<1> DEFINE Q == P(t)
<1>2. /\ toasts \in Seq(Toast) /\ timers \subseteq pushed /\ pushed \subseteq Toast
      /\ Len(toasts) <= 3
      /\ \A j, k \in 1 .. Len(toasts) : toasts[j] = toasts[k] => j = k
      /\ \A k \in 1 .. Len(toasts) : toasts[k] \in timers
  BY DEF ToastsInv, TimersInv
<1>3. Q \in SUBSET (1 .. Len(toasts)) /\ \A k \in Q : toasts[k] # t
  OBVIOUS
<1>4. toasts' = Sublist(toasts, Q)
  BY <1>1
<1> HIDE DEF Q
<1>5. toasts' \in Seq(Toast)
  BY <1>2, <1>3, <1>4, SublistType
<1>6. \A r \in 1 .. Len(toasts') : \E k \in Q : toasts'[r] = toasts[k]
  BY <1>2, <1>3, <1>4, SublistElements
<1>7. /\ Len(toasts') <= Len(toasts)
      /\ \A q, r \in 1 .. Len(toasts') : toasts'[q] = toasts'[r] => q = r
  BY <1>2, <1>3, <1>4, SublistDistinct
<1>8. \A k \in 1 .. Len(toasts') : toasts'[k] \in timers'
  BY <1>1, <1>2, <1>3, <1>6
<1>9. UNCHANGED <<frame, displayed, value, hint, over>>
  BY DEF Dismiss, counterVars, hintVars
<1>10. Len(toasts') <= 3
  BY <1>2, <1>5, <1>7
<1>11. QED
  BY <1>1, <1>2, <1>5, <1>7, <1>8, <1>9, <1>10 DEF ToastsInv, TimersInv

LEMMA TimerStepInv ==
  ASSUME ToastsInv, [TimerNext]_timerVars
  PROVE  ToastsInv'
<1> DEFINE Moves == /\ frame = None => displayed = value
                    /\ frame # None => frame = value
                    /\ hint # "hidden" => over
<1>1. CASE Push
  BY <1>1, PushInv
<1>2. CASE Dismiss
  BY <1>2, DismissInv
<1>3. Moves
  BY DEF ToastsInv, TimersInv
<1>4. ASSUME UNCHANGED toastVars, Moves'
      PROVE  ToastsInv'
  BY <1>4 DEF ToastsInv, TimersInv, toastVars
<1>5. CASE BootBegins \/ BootTimer \/ BootLeft
  <2>1. UNCHANGED <<toastVars, counterVars, hintVars>>
    BY <1>5 DEF BootBegins, BootTimer, BootLeft
  <2>2. Moves'
    BY <1>3, <2>1 DEF counterVars, hintVars
  <2> HIDE DEF Moves
  <2>3. QED
    BY <1>4, <2>1, <2>2
<1>6. CASE SetMotion
  <2>1. Moves'
    BY <1>3, <1>6 DEF SetMotion, hintVars
  <2> HIDE DEF Moves
  <2>2. QED
    BY <1>4, <1>6, <2>1 DEF SetMotion
<1>7. CASE Change
  <2>1. Moves'
    BY <1>3, <1>7, ReadingAssumption DEF Change, hintVars
  <2> HIDE DEF Moves
  <2>2. QED
    BY <1>4, <1>7, <2>1 DEF Change
<1>8. CASE Frame
  <2>1. Moves'
    BY <1>3, <1>8 DEF Frame, hintVars
  <2> HIDE DEF Moves
  <2>2. QED
    BY <1>4, <1>8, <2>1 DEF Frame
<1>9. CASE HintNext
  <2>1. Moves'
    BY <1>3, <1>9 DEF HintNext, HintComes, HintGoes, HintTimer, counterVars
  <2> HIDE DEF Moves
  <2>2. QED
    BY <1>4, <1>9, <2>1 DEF HintNext, HintComes, HintGoes, HintTimer
<1>10. CASE UNCHANGED timerVars
  <2>1. UNCHANGED <<toastVars, counterVars, hintVars>>
    BY <1>10 DEF timerVars
  <2>2. Moves'
    BY <1>3, <2>1 DEF counterVars, hintVars
  <2> HIDE DEF Moves
  <2>3. QED
    BY <1>4, <2>1, <2>2
<1>11. QED
  BY <1>1, <1>2, <1>5, <1>6, <1>7, <1>8, <1>9, <1>10 DEF TimerNext, ToastNext, MotionNext

\* Toasts, counters and tooltips leave nothing behind, whichever timer ends first.
THEOREM TimersKeep == TimerSpec => []TimersInv
<1>1. TimerInit => ToastsInv
  BY DEF TimerInit, ToastsInv, TimersInv
<1>2. ToastsInv /\ [TimerNext]_timerVars => ToastsInv'
  BY TimerStepInv
<1>3. ToastsInv => TimersInv
  BY DEF ToastsInv
<1>4. QED
  BY <1>1, <1>2, <1>3, PTL DEF TimerSpec

-----------------------------------------------------------------------------
(***************************************************************************)
(* Preferences.                                                            *)
(***************************************************************************)

\* A tab that settles on its settings shows them, and stores them.
LEMMA SettleInv ==
  ASSUME DocumentInv, NEW t \in Tab, NEW s \in Settings, Settle(t, s),
         opened' = opened \/ opened' = opened \cup {t}, UNCHANGED light
  PROVE  DocumentInv'
<1>1. /\ opened \subseteq Tab /\ prefs \in [Tab -> Settings] /\ light \in BOOLEAN
      /\ document \in [Tab -> [light : BOOLEAN, compact : BOOLEAN]]
      /\ \A u \in opened : document[u] = Applied(prefs[u], light)
  BY DEF DocumentInv, DocumentFollows
<1>2. Applied(s, light) \in [light : BOOLEAN, compact : BOOLEAN]
  BY <1>1 DEF Applied, IsLight, Settings
<1>3. /\ prefs' = [prefs EXCEPT ![t] = s] /\ kept' = s
      /\ document' = [document EXCEPT ![t] = Applied(s, light)]
  BY DEF Settle
<1>4. /\ prefs' \in [Tab -> Settings]
      /\ document' \in [Tab -> [light : BOOLEAN, compact : BOOLEAN]]
      /\ prefs'[t] = s /\ document'[t] = Applied(s, light)
      /\ \A u \in Tab \ {t} : prefs'[u] = prefs[u] /\ document'[u] = document[u]
  BY <1>1, <1>2, <1>3
<1>5. opened' \subseteq Tab
  BY <1>1
<1>6. \A u \in opened' : document'[u] = Applied(prefs'[u], light')
  BY <1>1, <1>4
<1>7. QED
  BY <1>1, <1>3, <1>4, <1>5, <1>6 DEF DocumentInv, DocumentFollows

LEMMA PreferencesStepInv == DocumentInv /\ [PrefNext]_prefVars => DocumentInv'
<1> SUFFICES ASSUME DocumentInv, [PrefNext]_prefVars
             PROVE  DocumentInv'
  OBVIOUS
<1>t. /\ opened \subseteq Tab /\ prefs \in [Tab -> Settings] /\ kept \in Settings /\ light \in BOOLEAN
      /\ document \in [Tab -> [light : BOOLEAN, compact : BOOLEAN]]
      /\ \A u \in opened : document[u] = Applied(prefs[u], light)
  BY DEF DocumentInv, DocumentFollows
<1>1. ASSUME NEW t \in Tab, OpenTab(t)
      PROVE  DocumentInv'
  BY <1>1, <1>t, SettleInv DEF OpenTab
<1>2. ASSUME NEW t \in Tab, UpdateSettings(t)
      PROVE  DocumentInv'
  <2>1. prefs[t] \in Settings
    BY <1>t
  <2>2. PICK s \in Settings : Settle(t, s)
    <3>1. \A theme \in Theme : [prefs[t] EXCEPT !.theme = theme] \in Settings
      BY <2>1 DEF Settings
    <3>2. [prefs[t] EXCEPT !.compact = ~ @] \in Settings
      BY <2>1 DEF Settings
    <3>3. DEFAULT_SETTINGS \in Settings
      BY DEF DEFAULT_SETTINGS, Settings, Theme
    <3>4. QED
      BY <1>2, <3>1, <3>2, <3>3 DEF UpdateSettings, SetTheme, SetSwitch, Reset
  <2>3. QED
    BY <1>2, <2>2, SettleInv DEF UpdateSettings
<1>3. CASE SystemChanges
  <2>1. light' = ~ light /\ UNCHANGED <<opened, prefs, kept>>
    BY <1>3 DEF SystemChanges
  <2>2. document' = [t \in Tab |->
          IF t \in opened /\ prefs[t].theme = "system" THEN Applied(prefs[t], ~ light) ELSE document[t]]
    BY <1>3 DEF SystemChanges
  <2>3. ASSUME NEW t \in Tab
        PROVE  Applied(prefs[t], ~ light) \in [light : BOOLEAN, compact : BOOLEAN]
    <3>1. prefs[t] \in Settings
      BY <1>t
    <3>2. QED
      BY <3>1, <1>t DEF Applied, IsLight, Settings
  <2>4. document' \in [Tab -> [light : BOOLEAN, compact : BOOLEAN]]
    BY <1>t, <2>2, <2>3
  <2>5. ASSUME NEW t \in opened, prefs[t].theme # "system"
        PROVE  Applied(prefs[t], light) = Applied(prefs[t], ~ light)
    BY <2>5 DEF Applied, IsLight
  <2>6. ASSUME NEW t \in opened
        PROVE  document'[t] = Applied(prefs[t], ~ light)
    <3>1. t \in Tab /\ document[t] = Applied(prefs[t], light)
      BY <1>t
    <3>2. CASE prefs[t].theme = "system"
      BY <2>2, <3>1, <3>2
    <3>3. CASE prefs[t].theme # "system"
      BY <2>2, <2>5, <3>1, <3>3
    <3>4. QED
      BY <3>2, <3>3
  <2>7. light' \in BOOLEAN
    BY <2>1
  <2>8. \A t \in opened' : document'[t] = Applied(prefs'[t], light')
    BY <2>1, <2>6
  <2>9. QED
    BY <1>t, <2>1, <2>4, <2>7, <2>8 DEF DocumentInv, DocumentFollows
<1>4. ASSUME UNCHANGED <<opened, prefs, kept, light, document>>
      PROVE  DocumentInv'
  BY <1>4 DEF DocumentInv, DocumentFollows
<1>5. ASSUME NEW t \in Tab,
             \/ SetSection(t) \/ NavigateTab(t) \/ Edit(t) \/ SaveConnection(t) \/ ClearCredentials(t)
             \/ TestConnection(t) \/ Tested(t)
      PROVE  DocumentInv'
  BY <1>4, <1>5 DEF SetSection, NavigateTab, Edit, SaveConnection, ClearCredentials, TestConnection, Tested
<1>6. CASE UNCHANGED prefVars
  BY <1>4, <1>6 DEF prefVars
<1>7. QED
  BY <1>1, <1>2, <1>3, <1>5, <1>6 DEF PrefNext, SettingsNext, ConnectionNext

\* Every open tab looks as its settings and the system say, whatever other tabs
\* stored in between.
THEOREM DocumentsFollow == PrefSpec => []DocumentFollows
<1>1. PrefInit => DocumentInv
  <2> SUFFICES ASSUME PrefInit
               PROVE  DocumentInv
    OBVIOUS
  <2>1. DEFAULT_SETTINGS \in Settings
    BY DEF DEFAULT_SETTINGS, Settings, Theme
  <2>2. Applied(DEFAULT_SETTINGS, FALSE) \in [light : BOOLEAN, compact : BOOLEAN]
    BY DEF Applied, IsLight, DEFAULT_SETTINGS
  <2>3. QED
    BY <2>1, <2>2 DEF PrefInit, DocumentInv, DocumentFollows
<1>2. DocumentInv => DocumentFollows
  BY DEF DocumentInv
<1>3. QED
  BY <1>1, <1>2, PreferencesStepInv, PTL DEF PrefSpec

-----------------------------------------------------------------------------
(***************************************************************************)
(* CommandPalette.                                                         *)
(***************************************************************************)

\* The results are commands.
LEMMA ResultsType ==
  ASSUME NEW C, PageCommands \in Seq(C), NEW s \in Seq(C), NEW text
  PROVE  Results(s, text) \in Seq(C) /\ Len(Results(s, text)) \in Nat
<1> DEFINE P == {k \in 1 .. Len(commands(s)) : commands(s)[k] \in text}
<1>1. Results(s, text) = Sublist(commands(s), P)
  BY DEF Results, Filter
<1>2. commands(s) \in Seq(C) /\ P \in SUBSET (1 .. Len(commands(s)))
  BY DEF commands
<1> HIDE DEF P
<1>3. Results(s, text) \in Seq(C)
  BY <1>1, <1>2, SublistType
<1>4. QED
  BY <1>3

\* The results without the servers are the first of those with them.
LEMMA PagesComeFirst ==
  ASSUME NEW C, PageCommands \in Seq(C), NEW s \in Seq(C), NEW text
  PROVE  /\ Len(Results(<<>>, text)) <= Len(Results(s, text))
         /\ \A r \in 1 .. Len(Results(<<>>, text)) : Results(s, text)[r] = Results(<<>>, text)[r]
<1> DEFINE P == {k \in 1 .. Len(PageCommands) : PageCommands[k] \in text}
           Q == {k \in 1 .. Len(PageCommands \o s) : (PageCommands \o s)[k] \in text}
<1>1. Results(s, text) = Sublist(PageCommands \o s, Q)
  BY DEF Results, Filter, commands
<1>2. commands(<<>>) = PageCommands
  BY DEF commands
<1>3. Results(<<>>, text) = Sublist(PageCommands, P)
  BY <1>2 DEF Results, Filter
<1>4. P = Q \cap (1 .. Len(PageCommands))
  <2>1. Len(PageCommands) \in Nat /\ Len(s) \in Nat /\ Len(PageCommands \o s) = Len(PageCommands) + Len(s)
    OBVIOUS
  <2>2. \A k \in 1 .. Len(PageCommands) :
          k \in 1 .. Len(PageCommands \o s) /\ (PageCommands \o s)[k] = PageCommands[k]
    BY <2>1
  <2>3. QED
    BY <2>2
<1>5. P \in SUBSET (1 .. Len(PageCommands)) /\ Q \in SUBSET (1 .. Len(PageCommands \o s))
  OBVIOUS
<1> HIDE DEF P, Q
<1>6. QED
  BY <1>1, <1>3, <1>4, <1>5, SublistOfPrefix

LEMMA ServersType ==
  ASSUME NEW C, ServerCommands \in Seq(C), NEW v \in View
  PROVE  v.servers \in {<<>>, ServerCommands} /\ v.servers \in Seq(C) /\ <<>> \in Seq(C)
<1>1. v.servers \in {<<>>, ServerCommands}
  BY DEF View
<1>2. <<>> \in Seq(C)
  OBVIOUS
<1>3. QED
  BY <1>1, <1>2

\* Every command is one of a page or of a server, and the text that is cleared matches it.
LEMMA AnyCommandMatches ==
  ASSUME NEW C, PageCommands \in Seq(C), ServerCommands \in Seq(C), NEW s \in {<<>>, ServerCommands},
         NEW k \in 1 .. Len(commands(s))
  PROVE  commands(s)[k] \in AnyCommand
<1>1. s = <<>> \/ s = ServerCommands
  OBVIOUS
<1>2. CASE s = <<>>
  <2>1. commands(s) = PageCommands
    BY <1>2 DEF commands
  <2>2. QED
    BY <2>1 DEF AnyCommand
<1>3. CASE s = ServerCommands
  <2>1. /\ Len(PageCommands) \in Nat /\ Len(ServerCommands) \in Nat
        /\ commands(s) = PageCommands \o ServerCommands
        /\ Len(commands(s)) = Len(PageCommands) + Len(ServerCommands)
    BY <1>3 DEF commands
  <2>2. CASE k <= Len(PageCommands)
    <3>1. k \in 1 .. Len(PageCommands) /\ commands(s)[k] = PageCommands[k]
      BY <2>1, <2>2
    <3>2. QED
      BY <3>1 DEF AnyCommand
  <2>3. CASE k > Len(PageCommands)
    <3>1. k - Len(PageCommands) \in 1 .. Len(ServerCommands)
          /\ commands(s)[k] = ServerCommands[k - Len(PageCommands)]
      BY <2>1, <2>3
    <3>2. QED
      BY <3>1 DEF AnyCommand
  <2>4. QED
    BY <2>1, <2>2, <2>3
<1>4. QED
  BY <1>1, <1>2, <1>3

\* There are no more results than with the text cleared, and each is one of those.
LEMMA ClearedHasMore ==
  ASSUME NEW C, PageCommands \in Seq(C), ServerCommands \in Seq(C), NEW s \in {<<>>, ServerCommands}, NEW text
  PROVE  /\ Len(Results(s, text)) <= Len(Results(s, AnyCommand))
         /\ Elements(Results(s, text)) \subseteq Elements(Results(s, AnyCommand))
<1> DEFINE n == Len(commands(s))
           P == {k \in 1 .. n : commands(s)[k] \in text}
           Q == {k \in 1 .. n : commands(s)[k] \in AnyCommand}
<1>1. Results(s, text) = Sublist(commands(s), P) /\ Results(s, AnyCommand) = Sublist(commands(s), Q)
  BY DEF Results, Filter
<1>2. commands(s) \in Seq(C) /\ n \in Nat
  <2>1. s = <<>> \/ s = ServerCommands
    OBVIOUS
  <2>2. <<>> \in Seq(C)
    OBVIOUS
  <2>3. s \in Seq(C)
    BY <2>1, <2>2
  <2>4. QED
    BY <2>3 DEF commands
<1>3. P \subseteq Q /\ P \in SUBSET (1 .. n) /\ Q \in SUBSET (1 .. n)
  BY AnyCommandMatches
<1> HIDE DEF P, Q
<1>4. IsFiniteSet(Q)
  BY <1>2, <1>3, PositionsAscend
<1>5. Cardinality(P) <= Cardinality(Q)
  BY <1>3, <1>4, FS_Subset
<1>6. Len(Sublist(commands(s), P)) = Cardinality(P) /\ Len(Sublist(commands(s), Q)) = Cardinality(Q)
  BY <1>2, <1>3, SublistType
<1>7. ASSUME NEW r \in 1 .. Len(Sublist(commands(s), P))
      PROVE  \E q \in 1 .. Len(Sublist(commands(s), Q)) : Sublist(commands(s), Q)[q] = Sublist(commands(s), P)[r]
  <2>1. PICK k \in P : Sublist(commands(s), P)[r] = commands(s)[k]
    BY <1>2, <1>3, SublistElements
  <2>2. k \in Q
    BY <1>3
  <2>3. \A j \in Q : \E q \in 1 .. Len(Sublist(commands(s), Q)) : Sublist(commands(s), Q)[q] = commands(s)[j]
    BY <1>2, <1>3, SublistElements
  <2>4. QED
    BY <2>1, <2>2, <2>3
<1>8. QED
  BY <1>1, <1>5, <1>6, <1>7 DEF Elements

\* What is pending adds results and takes none away; those of an unchanged text
\* keep their places.
LEMMA PendingAdds ==
  ASSUME NEW C, PageCommands \in Seq(C), ServerCommands \in Seq(C),
         NEW u \in View, NEW v \in View, Grows(u, v)
  PROVE  /\ Len(results(u)) \in Nat /\ Len(results(v)) \in Nat
         /\ results(u) \in Seq(C) /\ results(v) \in Seq(C)
         /\ Len(results(u)) <= Len(results(v))
         /\ Elements(results(u)) \subseteq Elements(results(v))
         /\ u.typed = v.typed => \A r \in 1 .. Len(results(u)) : results(v)[r] = results(u)[r]
<1>1. /\ u.servers \in Seq(C) /\ v.servers \in Seq(C) /\ v.servers \in {<<>>, ServerCommands}
      /\ u.servers = v.servers \/ u.servers = <<>>
      /\ u.typed = v.typed \/ v.typed = AnyCommand
  BY ServersType DEF Grows
<1> DEFINE m == Results(v.servers, u.typed)
<1>2. /\ results(u) \in Seq(C) /\ Len(results(u)) \in Nat
      /\ results(v) \in Seq(C) /\ Len(results(v)) \in Nat /\ m \in Seq(C) /\ Len(m) \in Nat
  BY <1>1, ResultsType DEF results
<1>3. Len(results(u)) <= Len(m) /\ \A r \in 1 .. Len(results(u)) : m[r] = results(u)[r]
  <2>1. CASE u.servers = v.servers
    BY <1>2, <2>1 DEF results
  <2>2. CASE u.servers = <<>>
    BY <1>1, <2>2, PagesComeFirst DEF results
  <2>3. QED
    BY <1>1, <2>1, <2>2
<1>4. Len(m) <= Len(results(v)) /\ Elements(m) \subseteq Elements(results(v))
  <2>1. CASE u.typed = v.typed
    BY <1>2, <2>1 DEF results
  <2>2. CASE v.typed = AnyCommand
    BY <1>1, <2>2, ClearedHasMore DEF results
  <2>3. QED
    BY <1>1, <2>1, <2>2
<1>5. u.typed = v.typed => m = results(v)
  BY DEF results
<1> HIDE DEF m
<1>6. Elements(results(u)) \subseteq Elements(m)
  <2>1. ASSUME NEW r \in 1 .. Len(results(u))
        PROVE  r \in 1 .. Len(m) /\ results(u)[r] = m[r]
    BY <1>2, <1>3
  <2>2. QED
    BY <2>1 DEF Elements
<1>7. QED
  BY <1>2, <1>3, <1>4, <1>5, <1>6

\* What the effects set: nothing but the text, cleared on opening, and the cursor,
\* which is among the results if their number changed.
LEMMA EffectsSet ==
  ASSUME NEW C, PageCommands \in Seq(C), ServerCommands \in Seq(C),
         NEW s \in View, NEW u \in View, NEW v \in View
  PROVE  /\ AfterEffects(s, u, v) \in View
         /\ AfterEffects(s, u, v).shown = s.shown
         /\ AfterEffects(s, u, v).servers = s.servers
         /\ AfterEffects(s, u, v).typed = s.typed \/ AfterEffects(s, u, v).typed = AnyCommand
         /\ u.shown = v.shown => AfterEffects(s, u, v).typed = s.typed
         /\ Len(results(v)) # Len(results(u)) => Fits(AfterEffects(s, u, v).cursor, results(v))
         /\ Len(results(v)) = Len(results(u)) => \/ AfterEffects(s, u, v).cursor = s.cursor
                                                 \/ AfterEffects(s, u, v).cursor = 0
         /\ Len(results(v)) = Len(results(u)) /\ u.shown = v.shown => AfterEffects(s, u, v) = s
<1> DEFINE o == Opened(s, u, v)
<1>1. Len(results(v)) \in Nat /\ results(v) \in Seq(C)
  <2>1. v.servers \in Seq(C)
    BY ServersType
  <2>2. QED
    BY <2>1, ResultsType DEF results
<1>2. /\ o \in View /\ o.shown = s.shown /\ o.servers = s.servers
      /\ o.typed = s.typed \/ o.typed = AnyCommand
      /\ o.cursor = s.cursor \/ o.cursor = 0
      /\ u.shown = v.shown => o = s
  BY DEF Opened, View
<1>3. AfterEffects(s, u, v) = IF Len(results(v)) # Len(results(u))
                                THEN [o EXCEPT !.cursor = Clamped(@, results(v))] ELSE o
  BY DEF AfterEffects
<1> HIDE DEF o
<1>4. o.cursor \in Nat
  BY <1>2 DEF View
<1>5. Clamped(o.cursor, results(v)) \in Nat /\ Fits(Clamped(o.cursor, results(v)), results(v))
  <2>1. results(v) # <<>> => Len(results(v)) > 0
    BY <1>1
  <2>2. QED
    BY <1>1, <1>4, <2>1 DEF Clamped, Fits
<1>6. CASE Len(results(v)) # Len(results(u))
  <2>1. AfterEffects(s, u, v) = [o EXCEPT !.cursor = Clamped(o.cursor, results(v))]
    BY <1>3, <1>6
  <2>2. /\ AfterEffects(s, u, v) \in View /\ AfterEffects(s, u, v).shown = o.shown
        /\ AfterEffects(s, u, v).typed = o.typed /\ AfterEffects(s, u, v).servers = o.servers
        /\ AfterEffects(s, u, v).cursor = Clamped(o.cursor, results(v))
    BY <1>2, <1>5, <2>1 DEF View
  <2>3. QED
    BY <1>2, <1>5, <1>6, <2>2
<1>7. CASE Len(results(v)) = Len(results(u))
  <2>1. AfterEffects(s, u, v) = o
    BY <1>3, <1>7
  <2>2. QED
    BY <1>2, <1>7, <2>1
<1>8. QED
  BY <1>6, <1>7

\* Where the effects leave the cursor depends on where it was, unless the palette was opened.
LEMMA EffectsOnCursor ==
  ASSUME NEW s \in View, NEW t \in View, NEW u, NEW v, u.shown = v.shown, t.cursor = s.cursor
  PROVE  AfterEffects(t, u, v).cursor = AfterEffects(s, u, v).cursor
<1>1. Opened(s, u, v) = s /\ Opened(t, u, v) = t
  BY DEF Opened
<1>2. CASE Len(results(v)) # Len(results(u))
  <2>1. /\ AfterEffects(s, u, v) = [s EXCEPT !.cursor = Clamped(s.cursor, results(v))]
        /\ AfterEffects(t, u, v) = [t EXCEPT !.cursor = Clamped(s.cursor, results(v))]
    BY <1>1, <1>2 DEF AfterEffects
  <2>2. QED
    BY <2>1 DEF View
<1>3. CASE Len(results(v)) = Len(results(u))
  BY <1>1, <1>3 DEF AfterEffects
<1>4. QED
  BY <1>2, <1>3

\* Effects that are run again leave a cursor that fits.
LEMMA EffectsFit ==
  ASSUME NEW C, PageCommands \in Seq(C), ServerCommands \in Seq(C),
         NEW s \in View, NEW u \in View, NEW v \in View, Fits(s.cursor, results(v))
  PROVE  Fits(AfterEffects(s, u, v).cursor, results(v))
<1> DEFINE w == AfterEffects(s, u, v)
<1>1. /\ Len(results(v)) # Len(results(u)) => Fits(w.cursor, results(v))
      /\ Len(results(v)) = Len(results(u)) => w.cursor = s.cursor \/ w.cursor = 0
  BY EffectsSet
<1> HIDE DEF w
<1>2. Fits(w.cursor, results(v))
  BY <1>1 DEF Fits
<1>3. QED
  BY <1>2 DEF w

LEMMA FitsMore ==
  ASSUME NEW c \in Nat, NEW q, NEW r, Len(q) \in Nat, Len(r) \in Nat, Len(q) <= Len(r), Fits(c, q)
  PROVE  Fits(c, r)
  BY DEF Fits

\* An event of the user that renders at once keeps the invariant, if it leaves the
\* servers alone and the cursor among the results of the screen.
LEMMA AtOnceInv ==
  ASSUME NEW C, PageCommands \in Seq(C), ServerCommands \in Seq(C), PaletteInv,
         NEW s \in View, AtOnce(s), Fits(AfterEffects(s, heard, screen).cursor, results(screen))
  PROVE  PaletteInv'
<1> DEFINE v == AfterEffects(s, heard, screen)
           w == AfterEffects(v, screen, v)
<1>1. state \in View /\ screen \in View /\ heard \in View
  BY DEF PaletteInv
<1>2. screen' = v /\ heard' = v /\ state' = w
  BY DEF AtOnce
<1>3. v \in View /\ Fits(v.cursor, results(screen))
  BY <1>1, EffectsSet
<1> HIDE DEF v
<1>4. /\ w \in View /\ w.shown = v.shown /\ w.servers = v.servers
      /\ w.typed = v.typed \/ w.typed = AnyCommand
      /\ Len(results(v)) # Len(results(screen)) => Fits(w.cursor, results(v))
      /\ Len(results(v)) = Len(results(screen)) => w.cursor = v.cursor \/ w.cursor = 0
  <2>1. v \in View /\ screen \in View
    BY <1>1, <1>3
  <2>2. QED
    BY <2>1, EffectsSet
<1> HIDE DEF w
<1>5. Fits(w.cursor, results(v))
  BY <1>3, <1>4 DEF Fits
<1>6. AfterEffects(w, v, v) = w
  BY <1>3, <1>4, EffectsSet
<1>7. Grows(v, v) /\ Grows(v, w)
  BY <1>4 DEF Grows
<1>8. results(screen') = results(v)
  BY <1>2
<1>9. QED
  BY <1>2, <1>3, <1>4, <1>5, <1>6, <1>7, <1>8 DEF PaletteInv

LEMMA PaletteStepInv ==
  ASSUME NEW C, PageCommands \in Seq(C), ServerCommands \in Seq(C), PaletteInv, [PaletteNext]_paletteVars
  PROVE  PaletteInv'
<1>1. /\ state \in View /\ screen \in View /\ heard \in View
      /\ Grows(heard, screen) /\ Grows(screen, state)
      /\ Fits(AfterEffects(state, heard, screen).cursor, results(screen))
      /\ heard.shown = screen.shown
  BY DEF PaletteInv, Grows
<1>2. /\ Len(results(heard)) \in Nat /\ Len(results(screen)) \in Nat
      /\ Len(results(heard)) <= Len(results(screen))
  BY <1>1, PendingAdds
<1>3. ASSUME NEW s \in View, s.cursor = state.cursor, AtOnce(s)
      PROVE  PaletteInv'
  <2>1. AfterEffects(s, heard, screen).cursor = AfterEffects(state, heard, screen).cursor
    BY <1>1, <1>3, EffectsOnCursor
  <2>2. QED
    BY <1>1, <1>3, <2>1, AtOnceInv
<1>4. ASSUME NEW b \in BOOLEAN, AtOnce([state EXCEPT !.shown = b])
      PROVE  PaletteInv'
  <2>1. [state EXCEPT !.shown = b] \in View /\ [state EXCEPT !.shown = b].cursor = state.cursor
    BY <1>1 DEF View
  <2>2. QED
    BY <1>3, <1>4, <2>1
<1>5. CASE Show \/ Hide \/ Enter \/ Click
  BY <1>4, <1>5 DEF Show, Hide, Enter, Click
<1>6. CASE TypeText
  <2>1. PICK text \in Texts \cup {AnyCommand} : AtOnce([state EXCEPT !.typed = text])
    BY <1>6 DEF TypeText
  <2>2. [state EXCEPT !.typed = text] \in View /\ [state EXCEPT !.typed = text].cursor = state.cursor
    BY <1>1 DEF View
  <2>3. QED
    BY <1>3, <2>1, <2>2
<1>7. CASE Arrow
  <2> DEFINE n == Len(results(heard))
  <2>1. state.cursor \in Nat
    BY <1>1 DEF View
  <2>2. PICK c : AtOnce([state EXCEPT !.cursor = c]) /\ c \in Nat /\ (c < n \/ c = 0)
    <3>1. \/ AtOnce([state EXCEPT !.cursor = IF n = 0 THEN 0 ELSE (state.cursor + 1) % n])
          \/ AtOnce([state EXCEPT !.cursor = IF n = 0 THEN 0 ELSE (state.cursor + n - 1) % n])
      BY <1>7 DEF Arrow
    <3>2. n \in Nat
      BY <1>2
    <3> HIDE DEF n
    <3>3. \A c \in Nat : n # 0 => c % n \in Nat /\ c % n < n
      BY <3>2
    <3>4. n # 0 => state.cursor + 1 \in Nat /\ state.cursor + n - 1 \in Nat
      BY <2>1, <3>2
    <3>5. QED
      BY <3>1, <3>3, <3>4
  <2>3. [state EXCEPT !.cursor = c] \in View /\ [state EXCEPT !.cursor = c].cursor = c
    BY <1>1, <2>2 DEF View
  <2>4. Fits(c, results(screen))
    BY <1>2, <2>2 DEF Fits
  <2>5. Fits(AfterEffects([state EXCEPT !.cursor = c], heard, screen).cursor, results(screen))
    <3> DEFINE s == [state EXCEPT !.cursor = c]
    <3>1. s \in View /\ s.cursor = c
      BY <2>3
    <3> HIDE DEF s
    <3>2. Fits(AfterEffects(s, heard, screen).cursor, results(screen))
      BY <1>1, <2>4, <3>1, EffectsFit
    <3>3. QED
      BY <3>2 DEF s
  <2>6. QED
    BY <2>2, <2>3, <2>5, AtOnceInv
<1>8. CASE Hover
  <2>1. PICK k \in 0 .. Len(results(screen)) - 1 : state' = [state EXCEPT !.cursor = k]
    BY <1>8 DEF Hover
  <2>2. UNCHANGED <<screen, heard>>
    BY <1>8 DEF Hover
  <2>3. k \in Nat /\ k < Len(results(screen))
    BY <1>2, <2>1
  <2>4. /\ state' \in View /\ state'.cursor = k /\ state'.shown = state.shown
        /\ state'.typed = state.typed /\ state'.servers = state.servers
    BY <1>1, <2>1, <2>3 DEF View
  <2>5. Fits(k, results(screen))
    BY <2>3 DEF Fits
  <2>6. Fits(AfterEffects(state', heard, screen).cursor, results(screen))
    BY <1>1, <2>4, <2>5, EffectsFit
  <2>7. Grows(screen, state')
    BY <1>1, <2>4 DEF Grows
  <2>8. QED
    BY <1>1, <2>2, <2>4, <2>6, <2>7 DEF PaletteInv
<1>9. CASE ServersArrive
  <2>1. state' = [state EXCEPT !.servers = ServerCommands] /\ UNCHANGED <<screen, heard>>
        /\ state.servers = <<>>
    BY <1>9 DEF ServersArrive
  <2>2. /\ state' \in View /\ state'.cursor = state.cursor /\ state'.shown = state.shown
        /\ state'.typed = state.typed
    BY <1>1, <2>1 DEF View
  <2>3. AfterEffects(state', heard, screen).cursor = AfterEffects(state, heard, screen).cursor
    BY <1>1, <2>2, EffectsOnCursor
  <2>4. Grows(screen, state')
    BY <1>1, <2>1, <2>2 DEF Grows
  <2>5. QED
    BY <1>1, <2>1, <2>2, <2>3, <2>4 DEF PaletteInv
<1>10. CASE Commit
  <2>1. heard = screen /\ screen' = state /\ state' = state /\ heard' = screen
    BY <1>10 DEF Commit
  <2>2. AfterEffects(state, screen, screen) = state
    BY <1>1, EffectsSet
  <2>3. Fits(state.cursor, results(screen))
    BY <1>1, <2>1, <2>2
  <2>4. Len(results(state)) \in Nat /\ Len(results(screen)) <= Len(results(state)) /\ state.cursor \in Nat
    BY <1>1, PendingAdds DEF View
  <2>5. Fits(state.cursor, results(state))
    BY <1>2, <2>3, <2>4, FitsMore
  <2>6. Fits(AfterEffects(state, screen, state).cursor, results(state))
    BY <1>1, <2>5, EffectsFit
  <2>7. Grows(screen, state) /\ Grows(state, state)
    BY <1>1 DEF Grows
  <2>8. QED
    BY <1>1, <2>1, <2>6, <2>7 DEF PaletteInv
<1>11. CASE Effects
  <2>1. heard' = screen /\ screen' = screen /\ state' = AfterEffects(state, heard, screen)
    BY <1>11 DEF Effects
  <2>2. /\ state' \in View /\ state'.shown = state.shown /\ state'.servers = state.servers
        /\ state'.typed = state.typed
    BY <1>1, <2>1, EffectsSet
  <2>3. AfterEffects(state', screen, screen) = state'
    BY <1>1, <2>2, EffectsSet
  <2>4. Grows(screen, screen) /\ Grows(screen, state')
    BY <1>1, <2>2 DEF Grows
  <2>5. QED
    BY <1>1, <2>1, <2>2, <2>3, <2>4 DEF PaletteInv
<1>12. CASE UNCHANGED paletteVars
  BY <1>12 DEF paletteVars, PaletteInv
<1>13. QED
  BY <1>5, <1>6, <1>7, <1>8, <1>9, <1>10, <1>11, <1>12 DEF PaletteNext

LEMMA PaletteInitInv ==
  ASSUME NEW C, PageCommands \in Seq(C), ServerCommands \in Seq(C), PaletteInit
  PROVE  PaletteInv
<1>1. state \in View /\ screen = state /\ heard = state /\ state.cursor = 0
  BY DEF PaletteInit, View
<1>2. AfterEffects(state, heard, screen) = state
  BY <1>1, EffectsSet
<1>3. QED
  BY <1>1, <1>2 DEF PaletteInv, Grows, Fits

\* What Enter opens, and what a rendering does to the highlight.
LEMMA PaletteStepOpens ==
  ASSUME NEW C, PageCommands \in Seq(C), ServerCommands \in Seq(C), PaletteInv
  PROVE  /\ Enter => /\ went' \in Elements(results(screen))
                     /\ heard.cursor = screen.cursor /\ heard.typed = screen.typed
                          => went' = Highlighted(screen)
         /\ /\ Commit /\ screen'.typed = screen.typed /\ screen'.cursor = screen.cursor
            /\ screen.cursor < Len(results(screen))
            => Highlighted(screen') = Highlighted(screen)
<1>1. /\ state \in View /\ screen \in View /\ heard \in View
      /\ Grows(heard, screen) /\ Grows(screen, state)
      /\ state.cursor \in Nat /\ screen.cursor \in Nat /\ heard.cursor \in Nat
  BY DEF PaletteInv, View
<1>2. ASSUME NEW u \in View, NEW v \in View, Grows(u, v), NEW c \in Nat, c < Len(results(u))
      PROVE  /\ results(u)[c + 1] \in Elements(results(v))
             /\ c < Len(results(v))
             /\ u.typed = v.typed => results(v)[c + 1] = results(u)[c + 1]
  <2>1. /\ Len(results(u)) \in Nat /\ Len(results(v)) \in Nat /\ Len(results(u)) <= Len(results(v))
        /\ Elements(results(u)) \subseteq Elements(results(v))
        /\ u.typed = v.typed => \A r \in 1 .. Len(results(u)) : results(v)[r] = results(u)[r]
    BY <1>2, PendingAdds
  <2>2. c + 1 \in 1 .. Len(results(u))
    BY <1>2, <2>1
  <2>3. results(u)[c + 1] \in Elements(results(u))
    BY <2>2 DEF Elements
  <2>4. QED
    BY <1>2, <2>1, <2>2, <2>3
<1>3. ASSUME Enter
      PROVE  /\ went' \in Elements(results(screen))
             /\ heard.cursor = screen.cursor /\ heard.typed = screen.typed => went' = Highlighted(screen)
  <2>1. heard.cursor < Len(results(heard)) /\ went' = results(heard)[heard.cursor + 1]
    BY <1>3 DEF Enter
  <2>2. QED
    BY <1>1, <1>2, <2>1 DEF Highlighted
<1>4. ASSUME Commit, screen'.typed = screen.typed, screen'.cursor = screen.cursor,
             screen.cursor < Len(results(screen))
      PROVE  Highlighted(screen') = Highlighted(screen)
  <2>1. screen' = state
    BY <1>4 DEF Commit
  <2>2. /\ screen.cursor < Len(results(state))
        /\ results(state)[screen.cursor + 1] = results(screen)[screen.cursor + 1]
    BY <1>1, <1>2, <1>4, <2>1
  <2>3. Highlighted(state) = Highlighted(screen)
    BY <1>4, <2>1, <2>2 DEF Highlighted
  <2>4. QED
    BY <2>1, <2>3
<1>5. QED
  BY <1>3, <1>4

LEMMA PaletteAtRest ==
  ASSUME NEW C, PageCommands \in Seq(C), ServerCommands \in Seq(C), PaletteInv
  PROVE  NothingPending /\ results(screen) # <<>> => screen.cursor < Len(results(screen))
<1> SUFFICES ASSUME NothingPending, results(screen) # <<>>
             PROVE  screen.cursor < Len(results(screen))
  OBVIOUS
<1>1. /\ screen \in View /\ state = screen /\ heard = screen
      /\ Fits(AfterEffects(state, heard, screen).cursor, results(screen))
  BY DEF PaletteInv, NothingPending
<1>2. AfterEffects(screen, screen, screen) = screen
  BY <1>1, EffectsSet
<1>3. Fits(screen.cursor, results(screen))
  BY <1>1, <1>2
<1>4. results(screen) \in Seq(C)
  <2>1. screen.servers \in Seq(C)
    BY <1>1, ServersType
  <2>2. QED
    BY <2>1, ResultsType DEF results
<1>5. Len(results(screen)) > 0
  BY <1>4
<1>6. QED
  BY <1>3, <1>5 DEF Fits

\* Enter leads to a command that is on the screen, and to the highlighted one
\* unless the highlight was moved or the text cleared an instant before; the
\* arrival of the servers does not move the highlight to another command, and one
\* of the results is highlighted when nothing is pending.
THEOREM EnterIsDisplayed == PaletteSpec => EnterOpensDisplayed
<1>1. PaletteInit => PaletteInv
  BY CommandsAssumption, PaletteInitInv
<1>2. PaletteInv /\ [PaletteNext]_paletteVars => PaletteInv'
  BY CommandsAssumption, PaletteStepInv
<1>3. PaletteInv => (NothingPending /\ results(screen) # <<>> => screen.cursor < Len(results(screen)))
  BY CommandsAssumption, PaletteAtRest
<1>4. PaletteInv /\ [PaletteNext]_paletteVars =>
        [/\ Enter => /\ went' \in Elements(results(screen))
                     /\ heard.cursor = screen.cursor /\ heard.typed = screen.typed
                          => went' = Highlighted(screen)
         /\ /\ Commit /\ screen'.typed = screen.typed /\ screen'.cursor = screen.cursor
            /\ screen.cursor < Len(results(screen))
            => Highlighted(screen') = Highlighted(screen)]_paletteVars
  BY CommandsAssumption, PaletteStepOpens
<1>5. QED
  BY <1>1, <1>2, <1>3, <1>4, PTL DEF PaletteSpec, EnterOpensDisplayed

-----------------------------------------------------------------------------
(***************************************************************************)
(* Lists.                                                                  *)
(***************************************************************************)

LEMMA ListsInitInv == ListInit => ListsInv
BY DEF ListInit, ListsInv, AlertFilter, StatusFilter, Column

LEMMA ListsStepInv == ListsInv /\ [ListNext]_listVars => ListsInv'
BY DEF ListsInv, ListNext, listVars, AlertsLoaded, ServersLoaded, FilterList, ClearFilters, OnSort,
       AlertFilter, StatusFilter

\* The alerts, newest first, are the alerts.
LEMMA NewestArranges ==
  ASSUME NEW I, alerts \in Seq(AlertRecord(I))
  PROVE  \E R : newest = Arranged(alerts, R) /\ Orders(R, 1 .. Len(alerts))
                /\ \A e \in R : alerts[e[1]].time >= alerts[e[2]].time
<1> DEFINE n == Len(alerts)
           K == [k \in 1 .. n |-> 0 - alerts[k].time]
           R == Ahead(alerts, Newer)
<1>1. n \in Nat /\ \A k \in 1 .. n : alerts[k] \in AlertRecord(I)
  OBVIOUS
<1>2. \A k \in 1 .. n : alerts[k].time \in Int
  BY <1>1 DEF AlertRecord
<1>3. K \in [1 .. n -> Int]
  BY <1>2
<1>4. \A j, k \in 1 .. n : K[j] < K[k] <=> Newer(alerts[j], alerts[k])
  BY <1>2 DEF Newer
<1>5. R = ByKey(K, n)
  <2>1. R = {e \in (1 .. n) \X (1 .. n) :
               Newer(alerts[e[1]], alerts[e[2]]) \/ (~ Newer(alerts[e[2]], alerts[e[1]]) /\ e[1] < e[2])}
    BY DEF Ahead
  <2>2. \A e \in (1 .. n) \X (1 .. n) : e[1] \in 1 .. n /\ e[2] \in 1 .. n
    OBVIOUS
  <2> HIDE DEF n, K, R
  <2>3. QED
    BY <1>4, <2>1, <2>2 DEF ByKey
<1>6. newest = Arranged(alerts, R)
  BY DEF newest, Sorted
<1>7. \A e \in R : alerts[e[1]].time >= alerts[e[2]].time
  <2>1. \A e \in R : e[1] \in 1 .. n /\ e[2] \in 1 .. n /\ ~ Newer(alerts[e[2]], alerts[e[1]])
    <3> SUFFICES ASSUME NEW e \in R
                 PROVE  e[1] \in 1 .. n /\ e[2] \in 1 .. n /\ ~ Newer(alerts[e[2]], alerts[e[1]])
      OBVIOUS
    <3>1. /\ e[1] \in 1 .. n /\ e[2] \in 1 .. n
          /\ Newer(alerts[e[1]], alerts[e[2]]) \/ (~ Newer(alerts[e[2]], alerts[e[1]]) /\ e[1] < e[2])
      BY DEF Ahead
    <3> HIDE DEF n, R
    <3>2. QED
      BY <1>2, <3>1 DEF Newer
  <2> HIDE DEF n, R
  <2>2. QED
    BY <1>2, <2>1 DEF Newer
<1> HIDE DEF K, R
<1>8. Orders(R, 1 .. n)
  BY <1>1, <1>3, <1>5, KeysOrder
<1>9. QED
  BY <1>6, <1>7, <1>8

LEMMA NewestType ==
  ASSUME NEW I, alerts \in Seq(AlertRecord(I))
  PROVE  /\ newest \in Seq(AlertRecord(I)) /\ Len(newest) = Len(alerts)
         /\ Elements(newest) = Elements(alerts)
         /\ \A q, r \in 1 .. Len(alerts) : q < r => newest[q].time >= newest[r].time
<1>1. PICK R : newest = Arranged(alerts, R) /\ Orders(R, 1 .. Len(alerts))
               /\ \A e \in R : alerts[e[1]].time >= alerts[e[2]].time
  BY NewestArranges
<1> DEFINE rank == Ranking(1 .. Len(alerts), R)
           t == Arranged(alerts, R)
<1>a. /\ t \in Seq(AlertRecord(I)) /\ Len(t) = Len(alerts)
      /\ \A r \in 1 .. Len(alerts) : rank[r] \in 1 .. Len(alerts) /\ t[r] = alerts[rank[r]]
      /\ \A k \in 1 .. Len(alerts) : \E r \in 1 .. Len(alerts) : rank[r] = k
      /\ \A q, r \in 1 .. Len(alerts) : q < r => <<rank[q], rank[r]>> \in R
  BY <1>1, ArrangedPermutes
<1>b. newest = t
  BY <1>1
<1> HIDE DEF t, rank
<1>2. /\ newest \in Seq(AlertRecord(I)) /\ Len(newest) = Len(alerts)
      /\ \A r \in 1 .. Len(alerts) : rank[r] \in 1 .. Len(alerts) /\ newest[r] = alerts[rank[r]]
      /\ \A k \in 1 .. Len(alerts) : \E r \in 1 .. Len(alerts) : rank[r] = k
      /\ \A q, r \in 1 .. Len(alerts) : q < r => <<rank[q], rank[r]>> \in R
  BY <1>a, <1>b
<1>3. \A q, r \in 1 .. Len(alerts) : q < r => newest[q].time >= newest[r].time
  BY <1>1, <1>2
<1>4. Elements(newest) = Elements(alerts)
  <2>1. ASSUME NEW r \in 1 .. Len(newest)
        PROVE  newest[r] \in Elements(alerts)
    <3>1. rank[r] \in 1 .. Len(alerts) /\ newest[r] = alerts[rank[r]]
      BY <1>2
    <3>2. QED
      BY <3>1 DEF Elements
  <2>2. ASSUME NEW k \in 1 .. Len(alerts)
        PROVE  alerts[k] \in Elements(newest)
    <3>1. PICK r \in 1 .. Len(newest) : newest[r] = alerts[k]
      <4>1. PICK r \in 1 .. Len(alerts) : rank[r] = k
        BY <1>2
      <4>2. newest[r] = alerts[k] /\ r \in 1 .. Len(newest)
        BY <1>2, <4>1
      <4>3. QED
        BY <4>2
    <3>2. QED
      BY <3>1 DEF Elements
  <2>3. QED
    BY <2>1, <2>2 DEF Elements
<1>5. QED
  BY <1>2, <1>3, <1>4

\* Counting before and after sorting.
LEMMA NewestCounts ==
  ASSUME NEW I, alerts \in Seq(AlertRecord(I)),
         NEW A \in SUBSET (1 .. Len(alerts)), NEW B \in SUBSET (1 .. Len(alerts)),
         \A r, k \in 1 .. Len(alerts) : newest[r] = alerts[k] => (r \in A <=> k \in B)
  PROVE  Cardinality(A) = Cardinality(B)
<1>1. PICK R : newest = Arranged(alerts, R) /\ Orders(R, 1 .. Len(alerts))
  BY NewestArranges
<1> DEFINE rank == Ranking(1 .. Len(alerts), R)
           t == Arranged(alerts, R)
<1>2. /\ t \in Seq(AlertRecord(I)) /\ Len(t) = Len(alerts)
      /\ \A r \in 1 .. Len(alerts) : rank[r] \in 1 .. Len(alerts) /\ t[r] = alerts[rank[r]]
      /\ \A k \in 1 .. Len(alerts) : \E r \in 1 .. Len(alerts) : rank[r] = k
      /\ \A q, r \in 1 .. Len(alerts) : q < r => <<rank[q], rank[r]>> \in R
  <2>1. Orders(R, 1 .. Len(alerts))
    BY <1>1
  <2>2. QED
    BY <2>1, ArrangedPermutes
<1>3. \A r \in 1 .. Len(alerts) : r \in A <=> rank[r] \in B
  BY <1>1, <1>2
<1>4. QED
  BY <1>1, <1>3, ArrangedCounts

\* The positions of the alerts that a tab shows.
Matching(f) == {k \in 1 .. Len(alerts) : matchesFilter(alerts[k], f)}

LEMMA TabCounts ==
  ASSUME NEW I, alerts \in Seq(AlertRecord(I)), NEW f \in AlertFilter
  PROVE  /\ counts[f] = Cardinality(Matching(f))
         /\ (LET Matches(a) == matchesFilter(a, f) IN Counting(alerts, Matches)) = Cardinality(Matching(f))
<1> DEFINE Counted(a) == f = "all" \/ (f = "resolved" /\ resolved(a))
                           \/ (f \in Severity /\ a.severity = f /\ ~ resolved(a))
           P == {k \in 1 .. Len(newest) : Counted(newest[k])}
           Q == Matching(f)
<1>1. \A a \in AlertRecord(I) : Counted(a) <=> matchesFilter(a, f)
  BY DEF AlertRecord, AlertFilter, Severity, matchesFilter
<1>2. newest \in Seq(AlertRecord(I)) /\ Len(newest) = Len(alerts)
  BY NewestType
<1>3. counts[f] = Len(Sublist(newest, P))
  BY DEF counts, Counting, Filter
<1>4. (LET Matches(a) == matchesFilter(a, f) IN Counting(alerts, Matches)) = Len(Sublist(alerts, Q))
  BY DEF Counting, Filter, Matching
<1>5. P \in SUBSET (1 .. Len(newest)) /\ Q \in SUBSET (1 .. Len(alerts))
  BY DEF Matching
<1> HIDE DEF Counted
<1>6. ASSUME NEW r \in 1 .. Len(alerts), NEW k \in 1 .. Len(alerts), newest[r] = alerts[k]
      PROVE  r \in P <=> k \in Q
  <2>1. alerts[k] \in AlertRecord(I)
    OBVIOUS
  <2>2. r \in 1 .. Len(newest)
    BY <1>2
  <2>3. QED
    BY <1>1, <1>6, <2>1, <2>2 DEF Matching
<1> HIDE DEF P, Q
<1>7. Cardinality(P) = Cardinality(Q)
  BY <1>2, <1>5, <1>6, NewestCounts
<1>8. Len(Sublist(newest, P)) = Cardinality(P) /\ Len(Sublist(alerts, Q)) = Cardinality(Q)
  BY <1>2, <1>5, SublistType
<1>9. QED
  BY <1>3, <1>4, <1>7, <1>8 DEF Q

\* Every alert is resolved or of one severity.
LEMMA AlertsAreSharedOut ==
  ASSUME NEW I, alerts \in Seq(AlertRecord(I))
  PROVE  /\ counts["all"] = counts["critical"] + counts["warning"] + counts["info"] + counts["resolved"]
         /\ Len(active) = counts["all"] - counts["resolved"]
<1> DEFINE n == Len(alerts)
           N == {k \in 1 .. n : ~ resolved(alerts[k])}
           C == Matching("critical")
           W == Matching("warning")
           F == Matching("info")
           D == Matching("resolved")
           All == Matching("all")
<1>1. n \in Nat /\ \A k \in 1 .. n : alerts[k] \in AlertRecord(I)
  OBVIOUS
<1>2. \A k \in 1 .. n : alerts[k].severity \in {"critical", "warning", "info"}
  BY <1>1 DEF AlertRecord, Severity
<1>3. /\ C \subseteq N /\ W \subseteq N /\ F \subseteq N /\ N = (C \cup W) \cup F
      /\ C \cap W = {} /\ (C \cup W) \cap F = {}
  BY <1>2 DEF Matching, matchesFilter
<1>4. All = N \cup D /\ N \cap D = {}
  BY <1>2 DEF Matching, matchesFilter
<1>5. /\ N \in SUBSET (1 .. n) /\ C \in SUBSET (1 .. n) /\ W \in SUBSET (1 .. n)
      /\ F \in SUBSET (1 .. n) /\ D \in SUBSET (1 .. n) /\ C \cup W \in SUBSET (1 .. n)
  BY DEF Matching
<1>6. active = Sublist(alerts, N)
  BY DEF active, Filter
<1>7. /\ counts["all"] = Cardinality(All) /\ counts["critical"] = Cardinality(C)
      /\ counts["warning"] = Cardinality(W) /\ counts["info"] = Cardinality(F)
      /\ counts["resolved"] = Cardinality(D)
  BY TabCounts DEF AlertFilter, Severity
<1> HIDE DEF N, C, W, F, D, All
<1>8. Len(active) = Cardinality(N)
  BY <1>5, <1>6, SublistType
<1> HIDE DEF n
<1>9. /\ Cardinality(C \cup W) = Cardinality(C) + Cardinality(W)
      /\ Cardinality(C) \in Nat /\ Cardinality(W) \in Nat
  BY <1>1, <1>3, <1>5, CountsAdd
<1>10. Cardinality(N) = Cardinality(C \cup W) + Cardinality(F) /\ Cardinality(F) \in Nat
  BY <1>1, <1>3, <1>5, CountsAdd
<1>11. /\ Cardinality(All) = Cardinality(N) + Cardinality(D)
       /\ Cardinality(D) \in Nat /\ Cardinality(N) \in Nat
  BY <1>1, <1>4, <1>5, CountsAdd
<1>12. QED
  BY <1>7, <1>8, <1>9, <1>10, <1>11

\* What is visible is newest first, and without a filter it is all there is.
LEMMA VisibleType ==
  ASSUME NEW I, alerts \in Seq(AlertRecord(I))
  PROVE  /\ visible \in Seq(AlertRecord(I))
         /\ \A q, r \in 1 .. Len(visible) : q < r => visible[q].time >= visible[r].time
         /\ (\A a \in Elements(alerts) : matchesFilter(a, alertFilter) /\ a.id \in search)
              => Elements(visible) = Elements(alerts)
<1> DEFINE P == {k \in 1 .. Len(newest) : matchesFilter(newest[k], alertFilter) /\ newest[k].id \in search}
<1>1. visible = Sublist(newest, P)
  BY DEF visible, Filter
<1>2. /\ newest \in Seq(AlertRecord(I)) /\ Len(newest) = Len(alerts) /\ Len(newest) \in Nat
      /\ Elements(newest) = Elements(alerts)
      /\ \A q, r \in 1 .. Len(newest) : q < r => newest[q].time >= newest[r].time
  BY NewestType
<1>3. P \in SUBSET (1 .. Len(newest))
  OBVIOUS
<1>4. ASSUME \A a \in Elements(alerts) : matchesFilter(a, alertFilter) /\ a.id \in search
      PROVE  P = 1 .. Len(newest)
  <2>1. \A k \in 1 .. Len(newest) : newest[k] \in Elements(alerts)
    BY <1>2 DEF Elements
  <2>2. QED
    BY <1>4, <2>1
<1> HIDE DEF P
<1>5. /\ visible \in Seq(AlertRecord(I)) /\ Len(visible) = Cardinality(P)
      /\ \A r \in 1 .. Cardinality(P) : visible[r] = newest[Positions(P)[r]]
  BY <1>1, <1>2, <1>3, SublistType
<1>6. /\ \A r \in 1 .. Cardinality(P) : Positions(P)[r] \in 1 .. Len(newest)
      /\ \A q, r \in 1 .. Cardinality(P) : q < r => Positions(P)[q] < Positions(P)[r]
  BY <1>2, <1>3, PositionsAscend
<1>7. \A q, r \in 1 .. Len(visible) : q < r => visible[q].time >= visible[r].time
  <2> SUFFICES ASSUME NEW q \in 1 .. Len(visible), NEW r \in 1 .. Len(visible), q < r
               PROVE  visible[q].time >= visible[r].time
    OBVIOUS
  <2>1. newest[Positions(P)[q]].time >= newest[Positions(P)[r]].time
    BY <1>2, <1>5, <1>6
  <2>2. QED
    BY <1>5, <2>1
<1>8. ASSUME \A a \in Elements(alerts) : matchesFilter(a, alertFilter) /\ a.id \in search
      PROVE  Elements(visible) = Elements(alerts)
  <2>1. visible = Sublist(newest, 1 .. Len(newest))
    BY <1>1, <1>4, <1>8
  <2>2. Sublist(newest, 1 .. Len(newest)) = newest
    BY <1>2, SublistOfAll
  <2>3. QED
    BY <1>2, <2>1, <2>2
<1>9. QED
  BY <1>5, <1>7, <1>8

\* The groups one below the other are what is visible: an alert that is no later
\* than another is in no earlier group.
LEMMA TimelineIsVisible ==
  ASSUME NEW I, alerts \in Seq(AlertRecord(I)), StartOfToday \in Int, Day \in Int
  PROVE  timeline = visible
<1> DEFINE n == Len(visible)
           G(b) == {k \in 1 .. n : bucketFor(visible[k]) = b}
           T == G("Today")
           Y == G("Yesterday")
           E == G("Earlier")
<1>1. /\ visible \in Seq(AlertRecord(I)) /\ n \in Nat
      /\ \A q, r \in 1 .. n : q < r => visible[q].time >= visible[r].time
  BY VisibleType
<1>2. \A k \in 1 .. n : visible[k].time \in Int
  <2>1. \A k \in 1 .. n : visible[k] \in AlertRecord(I)
    BY <1>1
  <2>2. QED
    BY <2>1 DEF AlertRecord
<1>3. \A k \in 1 .. n : bucketFor(visible[k]) \in {"Today", "Yesterday", "Earlier"}
  BY DEF bucketFor
<1>4. T \cup Y \cup E = 1 .. n
  BY <1>3
<1>5. ASSUME NEW p \in T \cup Y, NEW q \in E
      PROVE  p < q
  <2>1. /\ p \in 1 .. n /\ q \in 1 .. n /\ p # q
        /\ visible[p].time >= StartOfToday - Day \/ visible[p].time >= StartOfToday
        /\ ~ visible[q].time >= StartOfToday - Day /\ ~ visible[q].time >= StartOfToday
    BY DEF bucketFor
  <2> HIDE DEF n, T, Y, E
  <2>2. ~ visible[q].time >= visible[p].time
    BY <1>2, <2>1
  <2>3. QED
    BY <1>1, <2>1, <2>2
<1>6. ASSUME NEW p \in T, NEW q \in Y
      PROVE  p < q
  <2>1. /\ p \in 1 .. n /\ q \in 1 .. n /\ p # q
        /\ visible[p].time >= StartOfToday /\ ~ visible[q].time >= StartOfToday
    BY DEF bucketFor
  <2> HIDE DEF n, T, Y
  <2>2. ~ visible[q].time >= visible[p].time
    BY <1>2, <2>1
  <2>3. QED
    BY <1>1, <2>1, <2>2
<1>7. /\ group("Today") = Sublist(visible, T) /\ group("Yesterday") = Sublist(visible, Y)
      /\ group("Earlier") = Sublist(visible, E)
  BY DEF group, Filter
<1>8. /\ T \in SUBSET (1 .. n) /\ Y \in SUBSET (1 .. n) /\ E \in SUBSET (1 .. n)
      /\ T \cup Y \in SUBSET (1 .. n)
  OBVIOUS
<1> HIDE DEF T, Y, E
<1>9. Sublist(visible, T) \o Sublist(visible, Y) = Sublist(visible, T \cup Y)
  BY <1>1, <1>6, <1>8, SublistJoins
<1>10. Sublist(visible, T \cup Y) \o Sublist(visible, E) = Sublist(visible, T \cup Y \cup E)
  BY <1>1, <1>5, <1>8, SublistJoins
<1>11. Sublist(visible, 1 .. n) = visible
  BY <1>1, SublistOfAll
<1>12. QED
  BY <1>4, <1>7, <1>9, <1>10, <1>11 DEF timeline

\* The servers are in the order of the column, and they are those of the filter.
LEMMA RowsArrange ==
  ASSUME NEW I, fleet \in Seq(ServerRecord(I)), column \in Column, downward \in BOOLEAN
  PROVE  /\ \A k, l \in 1 .. Len(serverRows) : k < l =>
              IF downward THEN serverRows[k][column] >= serverRows[l][column]
                          ELSE serverRows[k][column] <= serverRows[l][column]
         /\ (\A x \in Elements(fleet) : (statusFilter = "all" \/ x.status = statusFilter) /\ x.id \in search)
              => Elements(serverRows) = Elements(fleet)
<1> DEFINE Shown(x) == (statusFilter = "all" \/ x.status = statusFilter) /\ x.id \in search
           Earlier(x, y) == IF downward THEN x[column] > y[column] ELSE x[column] < y[column]
           P == {k \in 1 .. Len(fleet) : Shown(fleet[k])}
           f == Filter(fleet, Shown)
           n == Len(f)
           R == Ahead(f, Earlier)
           K == [k \in 1 .. n |-> IF downward THEN 0 - f[k][column] ELSE f[k][column]]
<1>1. serverRows = Arranged(f, R)
  BY DEF serverRows, Sorted
<1>2. f = Sublist(fleet, P) /\ P \in SUBSET (1 .. Len(fleet))
  BY DEF Filter
<1>3. ASSUME \A x \in Elements(fleet) : Shown(x)
      PROVE  P = 1 .. Len(fleet)
  BY <1>3 DEF Elements
<1>4. f \in Seq(ServerRecord(I))
  <2> HIDE DEF P, f
  <2>1. QED
    BY <1>2, SublistType
<1>5. ASSUME \A x \in Elements(fleet) : Shown(x)
      PROVE  f = fleet
  <2>1. P = 1 .. Len(fleet)
    BY <1>3, <1>5
  <2> HIDE DEF P, f
  <2>2. QED
    BY <1>2, <2>1, SublistOfAll
<1>6. R = {e \in (1 .. n) \X (1 .. n) :
            Earlier(f[e[1]], f[e[2]]) \/ (~ Earlier(f[e[2]], f[e[1]]) /\ e[1] < e[2])}
  BY DEF Ahead
<1> HIDE DEF f, R, P, Shown
<1>7. n \in Nat /\ \A k \in 1 .. n : f[k] \in ServerRecord(I)
  BY <1>4
<1>8. \A k \in 1 .. n : f[k][column] \in Int
  <2>1. \A x \in ServerRecord(I) : x["name"] \in Int /\ x["cpu"] \in Int
    BY DEF ServerRecord
  <2>2. QED
    BY <1>7, <2>1 DEF Column
<1> HIDE DEF n
<1>9. K \in [1 .. n -> Int]
  BY <1>8
<1>10. \A j, k \in 1 .. n : K[j] < K[k] <=> Earlier(f[j], f[k])
  BY <1>8
<1> HIDE DEF K, Earlier
<1>11. R = ByKey(K, n)
  BY <1>6, <1>10 DEF ByKey
<1>12. Orders(R, 1 .. Len(f))
  BY <1>7, <1>9, <1>11, KeysOrder DEF n
<1> DEFINE rank == Ranking(1 .. Len(f), R)
           t == Arranged(f, R)
<1>13. /\ t \in Seq(ServerRecord(I)) /\ Len(t) = Len(f)
       /\ \A r \in 1 .. Len(f) : rank[r] \in 1 .. Len(f) /\ t[r] = f[rank[r]]
       /\ \A k \in 1 .. Len(f) : \E r \in 1 .. Len(f) : rank[r] = k
       /\ \A q, r \in 1 .. Len(f) : q < r => <<rank[q], rank[r]>> \in R
  BY <1>4, <1>12, ArrangedPermutes
<1> HIDE DEF rank, t
<1>14. serverRows = t
  BY <1>1 DEF t
<1>15. ASSUME NEW q \in 1 .. Len(f), NEW r \in 1 .. Len(f), q < r
       PROVE  ~ Earlier(t[r], t[q])
  <2>1. <<rank[q], rank[r]>> \in R /\ rank[q] \in 1 .. n /\ rank[r] \in 1 .. n
    BY <1>13, <1>15 DEF n
  <2>2. Earlier(f[rank[q]], f[rank[r]]) \/ ~ Earlier(f[rank[r]], f[rank[q]])
    BY <1>6, <2>1
  <2>3. K[rank[q]] \in Int /\ K[rank[r]] \in Int
    BY <1>9, <2>1
  <2>4. ~ Earlier(f[rank[r]], f[rank[q]])
    <3>1. /\ K[rank[q]] < K[rank[r]] <=> Earlier(f[rank[q]], f[rank[r]])
          /\ K[rank[r]] < K[rank[q]] <=> Earlier(f[rank[r]], f[rank[q]])
      BY <1>10, <2>1
    <3>2. ~ (K[rank[q]] < K[rank[r]] /\ K[rank[r]] < K[rank[q]])
      BY <2>3
    <3>3. QED
      BY <2>2, <3>1, <3>2
  <2>5. QED
    BY <1>13, <2>4
<1>16. \A k \in 1 .. Len(f) : t[k][column] \in Int
  BY <1>8, <1>13 DEF n
<1>17. \A k, l \in 1 .. Len(serverRows) : k < l =>
         IF downward THEN serverRows[k][column] >= serverRows[l][column]
                     ELSE serverRows[k][column] <= serverRows[l][column]
  <2> SUFFICES ASSUME NEW k \in 1 .. Len(f), NEW l \in 1 .. Len(f), k < l
               PROVE  IF downward THEN t[k][column] >= t[l][column] ELSE t[k][column] <= t[l][column]
    BY <1>13, <1>14
  <2>1. ~ Earlier(t[l], t[k])
    BY <1>15
  <2>2. t[k][column] \in Int /\ t[l][column] \in Int
    BY <1>16
  <2>3. CASE downward
    BY <2>1, <2>2, <2>3 DEF Earlier
  <2>4. CASE ~ downward
    BY <2>1, <2>2, <2>4 DEF Earlier
  <2>5. QED
    BY <2>3, <2>4
<1>18. Elements(t) = Elements(f)
  <2>1. ASSUME NEW r \in 1 .. Len(t)
        PROVE  t[r] \in Elements(f)
    <3>1. rank[r] \in 1 .. Len(f) /\ t[r] = f[rank[r]]
      BY <1>13
    <3>2. QED
      BY <3>1 DEF Elements
  <2>2. ASSUME NEW k \in 1 .. Len(f)
        PROVE  f[k] \in Elements(t)
    <3>1. PICK r \in 1 .. Len(f) : rank[r] = k
      BY <1>13
    <3>2. t[r] = f[k] /\ r \in 1 .. Len(t)
      BY <1>13, <3>1
    <3>3. QED
      BY <3>2 DEF Elements
  <2>3. QED
    BY <2>1, <2>2 DEF Elements
<1>19. QED
  BY <1>5, <1>14, <1>17, <1>18 DEF Shown

\* Every server is counted once.
LEMMA OverviewAdds ==
  ASSUME NEW I, fleet \in Seq(ServerRecord(I))
  PROVE  overview.online + overview.offline = overview.servers
<1> DEFINE P == {k \in 1 .. Len(fleet) : fleet[k].status = "online"}
           online == Len(Sublist(fleet, P))
<1>1. overview = [servers |-> Len(fleet), online |-> online, offline |-> Len(fleet) - online]
  BY DEF overview, Counting, Filter
<1>2. P \in SUBSET (1 .. Len(fleet)) /\ Len(fleet) \in Nat
  OBVIOUS
<1>3. Sublist(fleet, P) \in Seq(ServerRecord(I))
  <2> HIDE DEF P
  <2>1. QED
    BY <1>2, SublistType
<1>4. online \in Nat
  BY <1>3
<1> HIDE DEF online
<1>5. QED
  BY <1>1, <1>2, <1>4

LEMMA ListsExact ==
  ASSUME NEW I, AlertList \subseteq Seq(AlertRecord(I)), ServerList \subseteq Seq(ServerRecord(I)),
         StartOfToday \in Int, Day \in Int, ListsInv
  PROVE  ListsAreExact
<1>1. alerts \in AlertList \cup {<<>>} /\ fleet \in ServerList \cup {<<>>}
      /\ column \in Column /\ downward \in BOOLEAN
  BY DEF ListsInv
<1>2. <<>> \in Seq(AlertRecord(I)) /\ <<>> \in Seq(ServerRecord(I))
  OBVIOUS
<1>3. alerts \in Seq(AlertRecord(I)) /\ fleet \in Seq(ServerRecord(I))
  BY <1>1, <1>2
<1>4. \A f \in AlertFilter :
        counts[f] = LET Matches(a) == matchesFilter(a, f) IN Counting(alerts, Matches)
  BY <1>3, TabCounts
<1>5. /\ counts["all"] = counts["critical"] + counts["warning"] + counts["info"] + counts["resolved"]
      /\ Len(active) = counts["all"] - counts["resolved"]
  BY <1>3, AlertsAreSharedOut
<1>6. timeline = visible
  BY <1>3, TimelineIsVisible
<1>7. \A k, l \in 1 .. Len(timeline) : k < l => timeline[k].time >= timeline[l].time
  BY <1>3, <1>6, VisibleType
<1>8. ASSUME search = AnyId, alertFilter = "all"
      PROVE  Elements(timeline) = Elements(alerts)
  <2>1. \A a \in Elements(alerts) : a.id \in AnyId
    <3>1. CASE alerts = <<>>
      BY <3>1 DEF Elements
    <3>2. CASE alerts \in AlertList
      BY <3>2 DEF AnyId
    <3>3. QED
      BY <1>1, <3>1, <3>2
  <2>2. \A a \in Elements(alerts) : matchesFilter(a, alertFilter) /\ a.id \in search
    BY <1>8, <2>1 DEF matchesFilter
  <2>3. QED
    BY <1>3, <1>6, <2>2, VisibleType
<1>9. \A k, l \in 1 .. Len(serverRows) : k < l =>
        IF downward THEN serverRows[k][column] >= serverRows[l][column]
                    ELSE serverRows[k][column] <= serverRows[l][column]
  BY <1>1, <1>3, RowsArrange
<1>10. ASSUME search = AnyId, statusFilter = "all"
       PROVE  Elements(serverRows) = Elements(fleet)
  <2>1. \A x \in Elements(fleet) : x.id \in AnyId
    <3>1. CASE fleet = <<>>
      BY <3>1 DEF Elements
    <3>2. CASE fleet \in ServerList
      BY <3>2 DEF AnyId
    <3>3. QED
      BY <1>1, <3>1, <3>2
  <2>2. \A x \in Elements(fleet) : (statusFilter = "all" \/ x.status = statusFilter) /\ x.id \in search
    BY <1>10, <2>1
  <2>3. QED
    BY <1>1, <1>3, <2>2, RowsArrange
<1>11. overview.online + overview.offline = overview.servers
  BY <1>3, OverviewAdds
<1>12. QED
  BY <1>4, <1>5, <1>6, <1>7, <1>8, <1>9, <1>10, <1>11 DEF ListsAreExact

\* For any alerts and servers, and any midnight: the figures, the groups and the
\* rows of the lists are those of what was loaded, each once and in order.
THEOREM ListsExactly == ListSpec => []ListsAreExact
<1>1. ListsInv => ListsAreExact
  BY ListsAssumption, ListsExact
<1>2. QED
  BY <1>1, ListsInitInv, ListsStepInv, PTL DEF ListSpec

-----------------------------------------------------------------------------
(***************************************************************************)
(* ProcessTable.                                                           *)
(***************************************************************************)

\* A page has no more rows than its size, and the pages divide the rows.
LEMMA ProductStep ==
  ASSUME NEW S \in Nat \ {0}, NEW p \in Int, NEW q \in Int, p < q
  PROVE  p * S + S <= q * S
<1>1. (q - p - 1) * S >= 0
  <2>1. q - p - 1 \in Nat
    OBVIOUS
  <2>2. \A d \in Nat : d * S >= 0
    OBVIOUS
  <2>3. QED
    BY <2>1, <2>2
<1>2. (q - p - 1) * S = q * S - p * S - S
  OBVIOUS
<1>3. p * S \in Int /\ q * S \in Int
  OBVIOUS
<1>4. QED
  BY <1>1, <1>2, <1>3

LEMMA Division ==
  ASSUME NEW S \in Nat \ {0}, NEW m \in Nat
  PROVE  /\ m \div S \in Nat
         /\ (m \div S) * S <= m /\ m < (m \div S) * S + S
OBVIOUS

LEMMA PageBounds ==
  ASSUME NEW S \in Nat \ {0}, NEW N \in Nat, NEW C, C = IF N = 0 THEN 1 ELSE (N + S - 1) \div S
  PROVE  /\ C \in Nat \ {0}
         /\ \A p \in 0 .. C - 1 : p * S \in Nat /\ (p + 1) * S = p * S + S /\ (N > 0 => p * S < N)
         /\ \A p, q \in 0 .. C - 1 : p < q => p * S + S <= q * S
         /\ \A i \in 1 .. N : \E p \in 0 .. C - 1 : p * S < i /\ i <= p * S + S
<1>1. C \in Nat \ {0} /\ (N > 0 => C * S - S < N /\ N <= C * S)
  <2>1. CASE N = 0
    BY <2>1
  <2>2. CASE N # 0
    <3>1. N + S - 1 \in Nat /\ C = (N + S - 1) \div S
      BY <2>2
    <3>2. C \in Nat /\ C * S <= N + S - 1 /\ N + S - 1 < C * S + S
      BY <3>1, Division
    <3>3. C * S \in Int /\ C # 0
      BY <2>2, <3>2
    <3>4. QED
      BY <3>2, <3>3
  <2>3. QED
    BY <2>1, <2>2
<1>2. ASSUME NEW p \in 0 .. C - 1
      PROVE  p * S \in Nat /\ (p + 1) * S = p * S + S /\ (N > 0 => p * S < N)
  <2>1. p * S \in Nat
    BY <1>1
  <2>2. (p + 1) * S = p * S + S
    BY <1>1
  <2>3. p * S + S <= C * S
    BY <1>1, ProductStep
  <2>4. C * S \in Int
    BY <1>1
  <2>5. QED
    BY <1>1, <2>1, <2>2, <2>3, <2>4
<1>3. \A p, q \in 0 .. C - 1 : p < q => p * S + S <= q * S
  BY <1>1, ProductStep
<1>4. ASSUME NEW i \in 1 .. N
      PROVE  \E p \in 0 .. C - 1 : p * S < i /\ i <= p * S + S
  <2> DEFINE p == (i - 1) \div S
  <2>1. i - 1 \in Nat
    OBVIOUS
  <2>2. p \in Nat /\ p * S <= i - 1 /\ i - 1 < p * S + S
    BY <2>1, Division
  <2> HIDE DEF p
  <2>3. p * S \in Nat /\ C * S \in Nat
    BY <1>1, <2>2
  <2>4. p < C
    <3> SUFFICES ASSUME ~ p < C
                 PROVE  FALSE
      OBVIOUS
    <3>1. p = C \/ C < p
      BY <1>1, <2>2
    <3>2. C < p => C * S + S <= p * S
      BY <1>1, <2>2, ProductStep
    <3>3. C * S <= p * S
      BY <2>3, <3>1, <3>2
    <3>4. QED
      BY <1>1, <2>2, <2>3, <3>3
  <2>5. p \in 0 .. C - 1 /\ p * S < i /\ i <= p * S + S
    BY <1>1, <2>2, <2>3, <2>4
  <2>6. QED
    BY <2>5
<1>5. QED
  BY <1>1, <1>2, <1>3, <1>4

\* A part of a sequence.
LEMMA PartOf ==
  ASSUME NEW T, NEW s \in Seq(T), NEW b \in Nat, NEW e \in Nat, b <= e, e <= Len(s)
  PROVE  /\ Len(SubSeq(s, b + 1, e)) = e - b
         /\ \A k \in 1 .. e - b : SubSeq(s, b + 1, e)[k] = s[b + k]
<1>1. Len(s) \in Nat /\ \A k \in b + 1 .. e : s[k] \in T
  OBVIOUS
<1>2. SubSeq(s, b + 1, e) = [k \in 1 .. e - b |-> s[b + k]]
  OBVIOUS
<1>3. QED
  BY <1>1, <1>2

\* The rows before they are cut into pages: those of the filter in the order of
\* the column, equal ones in the agent's order.
LEMMA SortedRows ==
  ASSUME NEW T, processes \in Seq(ProcessRecord(T)), DistinctPids(processes),
         sortKey \in SortKey, descending \in BOOLEAN
  PROVE  /\ sorted \in Seq(ProcessRecord(T)) /\ filtered \in Seq(ProcessRecord(T))
         /\ Len(sorted) = Len(filtered)
         /\ \A r \in 1 .. Len(sorted) : \E k \in 1 .. Len(filtered) : sorted[r] = filtered[k]
         /\ \A k \in 1 .. Len(filtered) : \E r \in 1 .. Len(sorted) : sorted[r] = filtered[k]
         /\ \A q, r \in 1 .. Len(sorted) : q < r =>
              /\ ~ Before(sorted[r], sorted[q]) /\ sorted[q] # sorted[r]
              /\ \E j, k \in 1 .. Len(processes) :
                   /\ sorted[q] = processes[j] /\ sorted[r] = processes[k]
                   /\ ~ Before(sorted[q], sorted[r]) => j < k
<1> DEFINE f == filtered
           P == {k \in 1 .. Len(processes) :
                   (stateFilter = "all" \/ processes[k].state = stateFilter) /\ processes[k].pid \in needle}
           pos == Positions(P)
           n == Len(f)
           R == Ahead(f, Before)
           K == [k \in 1 .. n |-> IF descending THEN 0 - f[k][sortKey] ELSE f[k][sortKey]]
<1>1. sorted = Arranged(f, R)
  BY DEF sorted, Sorted
<1>2. f = Sublist(processes, P) /\ P \in SUBSET (1 .. Len(processes)) /\ Len(processes) \in Nat
  BY DEF filtered, Filter
<1>3. R = {e \in (1 .. n) \X (1 .. n) :
            Before(f[e[1]], f[e[2]]) \/ (~ Before(f[e[2]], f[e[1]]) /\ e[1] < e[2])}
  BY DEF Ahead
<1> HIDE DEF f, R, P
<1>4. /\ f \in Seq(ProcessRecord(T)) /\ n = Cardinality(P)
      /\ \A r \in 1 .. Cardinality(P) : f[r] = processes[pos[r]]
  BY <1>2, SublistType
<1>5. /\ \A r \in 1 .. Cardinality(P) : pos[r] \in P
      /\ \A q, r \in 1 .. Cardinality(P) : q < r => pos[q] < pos[r]
  BY <1>2, PositionsAscend
<1> HIDE DEF pos
<1>6. n \in Nat /\ \A k \in 1 .. n : f[k] \in ProcessRecord(T)
  BY <1>4
<1>7. \A k \in 1 .. n : f[k][sortKey] \in Int
  <2>1. \A x \in ProcessRecord(T) : x["pid"] \in Int /\ x["cpu_percent"] \in Int
    BY DEF ProcessRecord
  <2>2. QED
    BY <1>6, <2>1 DEF SortKey
<1>8. \A r \in 1 .. n : pos[r] \in 1 .. Len(processes) /\ f[r] = processes[pos[r]]
  BY <1>2, <1>4, <1>5
<1>9. \A q, r \in 1 .. n : q < r => pos[q] < pos[r]
  BY <1>4, <1>5
<1> HIDE DEF n
<1>10. K \in [1 .. n -> Int]
  BY <1>7
<1>11. \A j, k \in 1 .. n : K[j] < K[k] <=> Before(f[j], f[k])
  BY <1>7 DEF Before
<1> HIDE DEF K
<1>12. R = ByKey(K, n)
  BY <1>3, <1>11 DEF ByKey
<1>13. Orders(R, 1 .. Len(f))
  BY <1>6, <1>10, <1>12, KeysOrder DEF n
<1> DEFINE rank == Ranking(1 .. Len(f), R)
           t == Arranged(f, R)
<1>14. /\ t \in Seq(ProcessRecord(T)) /\ Len(t) = Len(f)
       /\ \A r \in 1 .. Len(f) : rank[r] \in 1 .. Len(f) /\ t[r] = f[rank[r]]
       /\ \A k \in 1 .. Len(f) : \E r \in 1 .. Len(f) : rank[r] = k
       /\ \A q, r \in 1 .. Len(f) : q < r => <<rank[q], rank[r]>> \in R
  BY <1>4, <1>13, ArrangedPermutes
<1> HIDE DEF rank, t
<1>15. sorted = t
  BY <1>1 DEF t
<1>16. ASSUME NEW j \in 1 .. n, NEW k \in 1 .. n, f[j] = f[k]
       PROVE  j = k
  <2>1. /\ pos[j] \in 1 .. Len(processes) /\ f[j] = processes[pos[j]]
        /\ pos[k] \in 1 .. Len(processes) /\ f[k] = processes[pos[k]]
    BY <1>8
  <2>2. pos[j] = pos[k]
    BY <1>16, <2>1 DEF DistinctPids
  <2>3. pos[j] \in Int /\ (j < k => pos[j] < pos[k]) /\ (k < j => pos[k] < pos[j])
    BY <1>9, <2>1
  <2>4. j \in Int /\ k \in Int
    BY <1>6
  <2>5. QED
    BY <2>2, <2>3, <2>4
<1>17. ASSUME NEW q \in 1 .. Len(f), NEW r \in 1 .. Len(f), q < r
       PROVE  /\ ~ Before(t[r], t[q]) /\ t[q] # t[r]
              /\ \E j, k \in 1 .. Len(processes) :
                   /\ t[q] = processes[j] /\ t[r] = processes[k]
                   /\ ~ Before(t[q], t[r]) => j < k
  <2>1. /\ <<rank[q], rank[r]>> \in R /\ rank[q] \in 1 .. n /\ rank[r] \in 1 .. n
        /\ t[q] = f[rank[q]] /\ t[r] = f[rank[r]]
    BY <1>14, <1>17 DEF n
  <2>2. \/ Before(f[rank[q]], f[rank[r]])
        \/ ~ Before(f[rank[r]], f[rank[q]]) /\ rank[q] < rank[r]
    BY <1>3, <2>1
  <2>3. K[rank[q]] \in Int /\ K[rank[r]] \in Int
    BY <1>10, <2>1
  <2>4. ~ Before(f[rank[r]], f[rank[q]])
    BY <1>11, <2>1, <2>2, <2>3
  <2>5. rank[q] # rank[r]
    <3>1. CASE Before(f[rank[q]], f[rank[r]])
      BY <2>4, <3>1
    <3>2. CASE rank[q] < rank[r]
      BY <1>6, <2>1, <3>2
    <3>3. QED
      BY <2>2, <3>1, <3>2
  <2>6. t[q] # t[r]
    BY <1>16, <2>1, <2>5
  <2>7. ~ Before(f[rank[q]], f[rank[r]]) => pos[rank[q]] < pos[rank[r]]
    BY <1>9, <2>1, <2>2
  <2>8. /\ pos[rank[q]] \in 1 .. Len(processes) /\ t[q] = processes[pos[rank[q]]]
        /\ pos[rank[r]] \in 1 .. Len(processes) /\ t[r] = processes[pos[rank[r]]]
    BY <1>8, <2>1
  <2>9. ~ Before(t[q], t[r]) => pos[rank[q]] < pos[rank[r]]
    BY <2>1, <2>7
  <2>10. ~ Before(t[r], t[q])
    BY <2>1, <2>4
  <2>11. QED
    BY <2>6, <2>8, <2>9, <2>10
<1>18. \A r \in 1 .. Len(t) : \E k \in 1 .. Len(f) : t[r] = f[k]
  BY <1>14
<1>19. \A k \in 1 .. Len(f) : \E r \in 1 .. Len(t) : t[r] = f[k]
  <2> SUFFICES ASSUME NEW k \in 1 .. Len(f)
               PROVE  \E r \in 1 .. Len(t) : t[r] = f[k]
    OBVIOUS
  <2>1. PICK r \in 1 .. Len(f) : rank[r] = k
    BY <1>14
  <2>2. QED
    BY <1>14, <2>1
<1>20. filtered = f
  BY DEF f
<1> HIDE DEF f
<1>21. Len(sorted) = Len(f)
  BY <1>14, <1>15
<1>22. /\ sorted \in Seq(ProcessRecord(T)) /\ filtered \in Seq(ProcessRecord(T))
       /\ Len(sorted) = Len(filtered)
  BY <1>4, <1>14, <1>15, <1>20, <1>21
<1>23. /\ \A r \in 1 .. Len(sorted) : \E k \in 1 .. Len(filtered) : sorted[r] = filtered[k]
       /\ \A k \in 1 .. Len(filtered) : \E r \in 1 .. Len(sorted) : sorted[r] = filtered[k]
  BY <1>15, <1>18, <1>19, <1>20
<1>24. QED
  BY <1>15, <1>17, <1>21, <1>22, <1>23

\* A page that is within the table holds the rows that come next after those of
\* the pages before it.
LEMMA RowsOfPage ==
  ASSUME NEW T, sorted \in Seq(T), PAGE_SIZE \in Nat \ {0}, NEW p \in Nat,
         p * PAGE_SIZE \in Nat, (p + 1) * PAGE_SIZE = p * PAGE_SIZE + PAGE_SIZE,
         p * PAGE_SIZE <= Len(sorted)
  PROVE  /\ Len(RowsOf(p)) \in Nat /\ Len(RowsOf(p)) <= PAGE_SIZE
         /\ p * PAGE_SIZE + Len(RowsOf(p)) <= Len(sorted)
         /\ p * PAGE_SIZE < Len(sorted) => Len(RowsOf(p)) >= 1
         /\ \A i \in 1 .. Len(sorted) :
              p * PAGE_SIZE < i /\ i <= p * PAGE_SIZE + PAGE_SIZE => i - p * PAGE_SIZE \in 1 .. Len(RowsOf(p))
         /\ \A k \in 1 .. Len(RowsOf(p)) : RowsOf(p)[k] = sorted[p * PAGE_SIZE + k]
<1> DEFINE N == Len(sorted)
           S == PAGE_SIZE
           b == p * S
           e == Least((p + 1) * S, N)
<1>1. N \in Nat /\ b \in Nat /\ S \in Nat \ {0} /\ b <= N /\ (p + 1) * S = b + S
  OBVIOUS
<1>2. RowsOf(p) = SubSeq(sorted, b + 1, e)
  BY DEF RowsOf
<1> HIDE DEF N, S, b
<1>3. e \in Nat /\ b <= e /\ e <= N /\ e <= b + S /\ (e = N \/ e = b + S)
  BY <1>1 DEF Least
<1> HIDE DEF e
<1>4. Len(RowsOf(p)) = e - b /\ \A k \in 1 .. e - b : RowsOf(p)[k] = sorted[b + k]
  <2>1. sorted \in Seq(T) /\ b \in Nat /\ e \in Nat /\ b <= e /\ e <= Len(sorted)
    BY <1>1, <1>3 DEF N
  <2>2. /\ Len(SubSeq(sorted, b + 1, e)) = e - b
        /\ \A k \in 1 .. e - b : SubSeq(sorted, b + 1, e)[k] = sorted[b + k]
    BY <2>1, PartOf
  <2>3. QED
    BY <1>2, <2>2
<1> DEFINE m == Len(RowsOf(p))
<1>5. m = e - b /\ \A k \in 1 .. m : RowsOf(p)[k] = sorted[b + k]
  BY <1>4
<1> HIDE DEF m
<1>6. /\ m \in Nat /\ m <= S /\ b + m <= N /\ (b < N => m >= 1)
      /\ \A i \in 1 .. N : b < i /\ i <= b + S => i - b \in 1 .. m
  BY <1>1, <1>3, <1>5
<1>7. QED
  BY <1>5, <1>6 DEF m, b, N, S

LEMMA PagingExact ==
  ASSUME NEW T, ProcessList \subseteq Seq(ProcessRecord(T)), \A s \in ProcessList : DistinctPids(s),
         PAGE_SIZE \in Nat \ {0}, TableInv
  PROVE  PagingIsExact
<1> DEFINE N == Len(sorted)
           S == PAGE_SIZE
           C == pageCount
           Place(x) == CHOOSE k \in 1 .. Len(processes) : processes[k] = x
<1>1. /\ processes \in Seq(ProcessRecord(T)) /\ DistinctPids(processes)
      /\ sortKey \in SortKey /\ descending \in BOOLEAN /\ pageIndex \in Nat
  BY DEF TableInv
<1>2. /\ sorted \in Seq(ProcessRecord(T)) /\ filtered \in Seq(ProcessRecord(T)) /\ Len(sorted) = Len(filtered)
      /\ \A r \in 1 .. Len(sorted) : \E k \in 1 .. Len(filtered) : sorted[r] = filtered[k]
      /\ \A k \in 1 .. Len(filtered) : \E r \in 1 .. Len(sorted) : sorted[r] = filtered[k]
      /\ \A q, r \in 1 .. Len(sorted) : q < r =>
           /\ ~ Before(sorted[r], sorted[q]) /\ sorted[q] # sorted[r]
           /\ \E j, k \in 1 .. Len(processes) :
                /\ sorted[q] = processes[j] /\ sorted[r] = processes[k]
                /\ ~ Before(sorted[q], sorted[r]) => j < k
  BY <1>1, SortedRows
<1>3. N \in Nat /\ S \in Nat \ {0} /\ (filtered = <<>> <=> N = 0)
  BY <1>2
<1>4. C = IF N = 0 THEN 1 ELSE (N + S - 1) \div S
  BY <1>2, <1>3 DEF pageCount
<1>14. \A q, r \in 1 .. N : q < r =>
         /\ ~ Before(sorted[r], sorted[q]) /\ sorted[q] # sorted[r]
         /\ \E j, k \in 1 .. Len(processes) :
              /\ sorted[q] = processes[j] /\ sorted[r] = processes[k]
              /\ ~ Before(sorted[q], sorted[r]) => j < k
  BY <1>2
<1>15. \A r \in 1 .. N : \E k \in 1 .. Len(filtered) : sorted[r] = filtered[k]
  BY <1>2
<1> HIDE DEF N, S, C
<1>5. /\ C \in Nat \ {0}
      /\ \A p \in 0 .. C - 1 : p * S \in Nat /\ (p + 1) * S = p * S + S /\ (N > 0 => p * S < N)
      /\ \A p, q \in 0 .. C - 1 : p < q => p * S + S <= q * S
      /\ \A i \in 1 .. N : \E p \in 0 .. C - 1 : p * S < i /\ i <= p * S + S
  BY <1>3, <1>4, PageBounds
<1>6. \A p \in 0 .. C - 1 : p \in Nat /\ p * S <= N
  <2>1. CASE N > 0
    BY <1>3, <1>5, <2>1
  <2>2. CASE N = 0
    <3>1. C = 1
      BY <1>4, <2>2
    <3>2. 0 * S = 0
      BY <1>3
    <3>3. QED
      BY <2>2, <3>1, <3>2
  <2>3. QED
    BY <1>3, <2>1, <2>2
<1>7. ASSUME NEW p \in 0 .. C - 1
      PROVE  /\ Len(RowsOf(p)) \in Nat /\ Len(RowsOf(p)) <= S
             /\ p * S + Len(RowsOf(p)) <= N
             /\ p * S < N => Len(RowsOf(p)) >= 1
             /\ \A i \in 1 .. N : p * S < i /\ i <= p * S + S => i - p * S \in 1 .. Len(RowsOf(p))
             /\ \A k \in 1 .. Len(RowsOf(p)) : RowsOf(p)[k] = sorted[p * S + k]
  <2>1. p \in Nat /\ p * S \in Nat /\ (p + 1) * S = p * S + S /\ p * S <= N
    BY <1>5, <1>6
  <2>2. QED
    BY <1>2, <2>1, RowsOfPage DEF S, N
<1>8. safePage \in 0 .. C - 1
  BY <1>1, <1>5 DEF safePage, C
<1>9. pageIndex \in Nat /\ Len(rows) <= PAGE_SIZE
  BY <1>1, <1>7, <1>8 DEF rows, S
<1>10. filtered # <<>> => rows # <<>>
  <2>1. N > 0 => Len(rows) >= 1
    BY <1>5, <1>7, <1>8 DEF rows
  <2>2. rows = <<>> => Len(rows) = 0
    OBVIOUS
  <2>3. QED
    BY <1>3, <2>1, <2>2
<1>11. ASSUME NEW p \in 0 .. C - 1, NEW q \in 0 .. C - 1,
              NEW k \in 1 .. Len(RowsOf(p)), NEW l \in 1 .. Len(RowsOf(q)), p < q \/ (p = q /\ k < l)
       PROVE  LET x == RowsOf(p)[k]  y == RowsOf(q)[l]
              IN  ~ Before(y, x) /\ x # y /\ (~ Before(x, y) => Place(x) < Place(y))
  <2> DEFINE i == p * S + k
             j == q * S + l
  <2>1. RowsOf(p)[k] = sorted[i] /\ RowsOf(q)[l] = sorted[j]
    BY <1>7
  <2>2. i \in 1 .. N /\ j \in 1 .. N /\ i < j
    <3> DEFINE m == Len(RowsOf(p))
               n == Len(RowsOf(q))
               P == p * S
               Q == q * S
    <3>1. m \in Nat /\ m <= S /\ P + m <= N /\ P \in Nat
      BY <1>5, <1>7
    <3>2. n \in Nat /\ Q + n <= N /\ Q \in Nat
      BY <1>5, <1>7
    <3>3. (p < q => P + S <= Q) /\ (p = q => P = Q)
      BY <1>5
    <3>4. k \in 1 .. m /\ l \in 1 .. n /\ (p < q \/ (p = q /\ k < l))
      BY <1>11
    <3> HIDE DEF m, n, P, Q
    <3>5. P + k \in 1 .. N /\ Q + l \in 1 .. N /\ P + k < Q + l
      BY <1>3, <3>1, <3>2, <3>3, <3>4
    <3>6. QED
      BY <3>5 DEF P, Q
  <2> HIDE DEF i, j
  <2>3. ~ Before(sorted[j], sorted[i]) /\ sorted[i] # sorted[j]
    BY <1>14, <2>2
  <2>4. PICK a \in 1 .. Len(processes), b \in 1 .. Len(processes) :
             /\ sorted[i] = processes[a] /\ sorted[j] = processes[b]
             /\ ~ Before(sorted[i], sorted[j]) => a < b
    BY <1>14, <2>2
  <2>5. \A c, d \in 1 .. Len(processes) : processes[c] = processes[d] => c = d
    BY <1>1 DEF DistinctPids
  <2>6. Place(processes[a]) = a /\ Place(processes[b]) = b
    BY <2>5
  <2>7. QED
    BY <2>1, <2>3, <2>4, <2>6
<1>12. UNION {{RowsOf(p)[k] : k \in 1 .. Len(RowsOf(p))} : p \in 0 .. C - 1}
         = {filtered[k] : k \in 1 .. Len(filtered)}
  <2>1. ASSUME NEW p \in 0 .. C - 1, NEW k \in 1 .. Len(RowsOf(p))
        PROVE  \E j \in 1 .. Len(filtered) : RowsOf(p)[k] = filtered[j]
    <3>1. p * S \in Nat /\ Len(RowsOf(p)) \in Nat /\ p * S + Len(RowsOf(p)) <= N
      BY <1>5, <1>7
    <3>2. p * S + k \in 1 .. N
      BY <1>3, <3>1
    <3>3. RowsOf(p)[k] = sorted[p * S + k]
      BY <1>7
    <3>4. QED
      BY <1>15, <3>2, <3>3
  <2>2. ASSUME NEW j \in 1 .. Len(filtered)
        PROVE  \E p \in 0 .. C - 1 : \E k \in 1 .. Len(RowsOf(p)) : RowsOf(p)[k] = filtered[j]
    <3>1. PICK r \in 1 .. N : sorted[r] = filtered[j]
      BY <1>2 DEF N
    <3>2. PICK p \in 0 .. C - 1 : p * S < r /\ r <= p * S + S
      BY <1>5
    <3>3. r - p * S \in 1 .. Len(RowsOf(p)) /\ p * S \in Nat
      BY <1>5, <1>7, <3>2
    <3>4. RowsOf(p)[r - p * S] = sorted[p * S + (r - p * S)]
      BY <1>7, <3>3
    <3>5. p * S + (r - p * S) = r
      BY <1>3, <3>3
    <3>6. RowsOf(p)[r - p * S] = filtered[j]
      BY <3>1, <3>4, <3>5
    <3>7. QED
      BY <3>3, <3>6
  <2> DEFINE Row(p) == {RowsOf(p)[k] : k \in 1 .. Len(RowsOf(p))}
             Shown == UNION {Row(p) : p \in 0 .. C - 1}
             Chosen == {filtered[k] : k \in 1 .. Len(filtered)}
  <2>3. \A x : x \in Shown <=> \E p \in 0 .. C - 1 : \E k \in 1 .. Len(RowsOf(p)) : x = RowsOf(p)[k]
    <3>1. \A p : \A x : x \in Row(p) <=> \E k \in 1 .. Len(RowsOf(p)) : x = RowsOf(p)[k]
      BY Zenon
    <3> HIDE DEF Row
    <3>2. \A x : x \in Shown <=> \E p \in 0 .. C - 1 : x \in Row(p)
      OBVIOUS
    <3>3. QED
      BY <3>1, <3>2
  <2>4. \A x : x \in Chosen <=> \E j \in 1 .. Len(filtered) : x = filtered[j]
    BY Zenon
  <2> HIDE DEF Shown, Chosen
  <2>5. \A x : x \in Shown => x \in Chosen
    BY <2>1, <2>3, <2>4
  <2>6. \A x : x \in Chosen => x \in Shown
    BY <2>2, <2>3, <2>4
  <2>7. Shown = Chosen
    BY <2>5, <2>6, Zenon
  <2>8. QED
    BY <2>7 DEF Shown, Chosen
<1>13. QED
  <2>1. \A p, q \in 0 .. pageCount - 1 :
          \A k \in 1 .. Len(RowsOf(p)), l \in 1 .. Len(RowsOf(q)) :
            p < q \/ (p = q /\ k < l) =>
              LET x == RowsOf(p)[k]  y == RowsOf(q)[l]
              IN  ~ Before(y, x) /\ x # y /\ (~ Before(x, y) => Place(x) < Place(y))
    BY <1>11 DEF C
  <2>2. UNION {{RowsOf(p)[k] : k \in 1 .. Len(RowsOf(p))} : p \in 0 .. pageCount - 1}
          = {filtered[k] : k \in 1 .. Len(filtered)}
    BY <1>12 DEF C
  <2>3. QED
    BY <1>9, <1>10, <2>1, <2>2, Zenon DEF PagingIsExact

LEMMA TableInitInv == TableInit => TableInv
BY DEF TableInit, TableInv, StateFilter, SortKey

\* The page is left for another by its number, which stays that of a page: the
\* button for the page before is there only when a later page is shown.
LEMMA TableStepInv ==
  ASSUME PAGE_SIZE \in Nat \ {0}, TableInv, [TableNext]_tableVars,
         NEW T, ProcessList \subseteq Seq(ProcessRecord(T)), \A s \in ProcessList : DistinctPids(s)
  PROVE  TableInv'
<1> USE DEF TableInv
<1>1. CASE UNCHANGED tableVars
  BY <1>1 DEF tableVars
<1>2. CASE Refreshed
  BY <1>2 DEF Refreshed
<1>3. CASE SetFilter
  BY <1>3 DEF SetFilter
<1>4. CASE ToggleSort
  BY <1>4 DEF ToggleSort
<1>5. pageCount \in Nat \ {0}
  <2>1. /\ processes \in Seq(ProcessRecord(T)) /\ DistinctPids(processes)
    OBVIOUS
  <2>2. filtered \in Seq(ProcessRecord(T))
    BY <2>1, SortedRows
  <2> DEFINE n == Len(filtered)
  <2>3. n \in Nat /\ (filtered = <<>> <=> n = 0)
    BY <2>2
  <2>4. pageCount = IF n = 0 THEN 1 ELSE (n + PAGE_SIZE - 1) \div PAGE_SIZE
    BY <2>3 DEF pageCount
  <2> HIDE DEF n
  <2>5. QED
    BY <2>3, <2>4, PageBounds
<1>6. CASE Previous
  <2>1. pageIndex # 0
    BY <1>5, <1>6 DEF Previous, safePage
  <2>2. QED
    BY <1>6, <2>1 DEF Previous
<1>7. CASE NextPage
  BY <1>5, <1>7 DEF NextPage, Least
<1>8. QED
  BY <1>1, <1>2, <1>3, <1>4, <1>6, <1>7 DEF TableNext

\* For any answers in which no two processes have one pid, and pages of any size:
\* the pages of the table hold each process that matches once and in order.
THEOREM PagesExactly == TableSpec => []PagingIsExact
<1>0. /\ ProcessList \subseteq Seq(ProcessRecord(STRING)) /\ \A s \in ProcessList : DistinctPids(s)
      /\ PAGE_SIZE \in Nat \ {0}
  BY TableAssumption
<1>1. TableInv => PagingIsExact
  BY <1>0, PagingExact
<1>2. TableInv /\ [TableNext]_tableVars => TableInv'
  BY <1>0, TableStepInv
<1>3. QED
  BY <1>1, <1>2, TableInitInv, PTL DEF TableSpec
=============================================================================
