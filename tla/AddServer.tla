----------------------------- MODULE AddServer -----------------------------
(***************************************************************************)
(* The "Add server" dialog of the Servers page, the calls it makes, and    *)
(* the list of servers kept in the browser.                                *)
(*                                                                         *)
(* Testing a connection and adding a server are promises. While they are   *)
(* pending the user may type, close the dialog, open it again, or leave    *)
(* the page and come back; what runs after an answer is one step, because  *)
(* only microtasks run in between.                                         *)
(*                                                                         *)
(* Data: an id is what slugging makes of a name, so several names may have *)
(* the same one. A call has a number, and 0 stands for no call.            *)
(***************************************************************************)
EXTENDS Naturals

CONSTANTS
  Name, Agent, Id,
  Slug,       \* name -> id
  MaxCalls,   \* bound: calls made
  MaxVisits   \* bound: times the page is mounted

ASSUME SlugAssumption == Slug \in [Name -> Id]
\* What is in a field that is not filled in.
Blank == ""

ASSUME BlankAssumption == Blank \notin Name \cup Agent
ASSUME BoundsAssumption == MaxCalls \in Nat /\ MaxVisits \in Nat

VARIABLES
  visit,       \* the number of times the page was mounted
  open,        \* the dialog is open
  form,        \* what is typed in
  test,        \* the panel with the result of a test: phase, and the call it is from
  submitting,  \* the button "Add server" is disabled
  calls,       \* call -> what was called, with which form, on which visit
  made,        \* the number of calls
  stored,      \* the servers in localStorage
  listing,     \* the list on the page: asked for, read from storage, shown
  listed,      \* the ids in that list
  announced    \* history: id -> the server last announced as connected

dialog == <<open, form, test, submitting>>
page   == <<visit, listing, listed>>
vars   == <<dialog, page, calls, made, stored, announced>>

Call      == 1 .. MaxCalls
Form      == [name : Name \cup {Blank}, agent : Agent \cup {Blank}]
Empty     == [name |-> Blank, agent |-> Blank]
Idle      == [phase |-> "idle", by |-> 0]
NoCall    == [kind |-> "none", form |-> Empty, visit |-> 0]
Server    == [id : Id, name : Name, agent : Agent]
NoServer  == [id |-> Blank, name |-> Blank, agent |-> Blank]

Init ==
  /\ visit = 1 /\ listing = "asked" /\ listed = {}
  /\ open = FALSE /\ form = Empty /\ test = Idle /\ submitting = FALSE
  /\ calls = [c \in Call |-> NoCall] /\ made = 0
  /\ stored = {}
  /\ announced = [i \in Id |-> NoServer]

-----------------------------------------------------------------------------
\* The page: useServers loads the list when the page is mounted.
ReadStored ==
  /\ listing = "asked" /\ listing' = "read"
  /\ listed' = {s.id : s \in stored}
  /\ UNCHANGED <<visit, dialog, calls, made, stored, announced>>

ShowList ==
  /\ listing = "read" /\ listing' = "shown"
  /\ UNCHANGED <<visit, listed, dialog, calls, made, stored, announced>>

\* Leaving the page and coming back to it; pending calls go on.
Remount ==
  /\ visit < MaxVisits
  /\ visit' = visit + 1 /\ listing' = "asked" /\ listed' = {}
  /\ open' = FALSE /\ form' = Empty /\ test' = Idle /\ submitting' = FALSE
  /\ UNCHANGED <<calls, made, stored, announced>>

-----------------------------------------------------------------------------
\* The dialog.
Open ==
  /\ ~ open
  /\ open' = TRUE /\ form' = Empty /\ test' = Idle /\ submitting' = FALSE
  /\ UNCHANGED <<page, calls, made, stored, announced>>

Close ==
  /\ open
  /\ open' = FALSE
  /\ UNCHANGED <<page, form, test, submitting, calls, made, stored, announced>>

Type ==
  /\ open
  /\ \/ \E n \in Name : form' = [form EXCEPT !.name = n]
     \/ \E a \in Agent : form' = [form EXCEPT !.agent = a]
  /\ form' # form
  /\ test' = Idle
  /\ UNCHANGED <<page, open, submitting, calls, made, stored, announced>>

Start(kind) ==
  /\ made < MaxCalls
  /\ made' = made + 1
  /\ calls' = [calls EXCEPT ![made + 1] = [kind |-> kind, form |-> form, visit |-> visit]]

\* The button is disabled while the panel says "Connecting".
RunTest ==
  /\ open /\ test.phase # "connecting" /\ form.agent # Blank
  /\ Start("test")
  /\ test' = [phase |-> "connecting", by |-> made + 1]
  /\ UNCHANGED <<page, open, form, submitting, stored, announced>>

Submit ==
  /\ open /\ ~ submitting /\ form.name # Blank /\ form.agent # Blank
  /\ Start("add")
  /\ submitting' = TRUE
  /\ UNCHANGED <<page, open, form, test, stored, announced>>

-----------------------------------------------------------------------------
\* The answers.
Done(c) == calls' = [calls EXCEPT ![c] = NoCall]

\* What a component that is still mounted does with its state.
Here(c) == calls[c].visit = visit

AnswerTest(c) ==
  /\ calls[c].kind = "test"
  /\ Done(c)
  /\ IF Here(c)
       THEN \E result \in {"connected", "failed"} : test' = [phase |-> result, by |-> c]
       ELSE UNCHANGED test
  /\ UNCHANGED <<page, open, form, submitting, made, stored, announced>>

\* Faulty variant: the server is added without looking for its id.
StoredTwice(servers, s) == servers \cup {s}

\* addStoredServer: a server of the same id is replaced.
Stored(servers, s) == {t \in servers : t.id # s.id} \cup {s}

New(c) == [id |-> Slug[calls[c].form.name], name |-> calls[c].form.name, agent |-> calls[c].form.agent]

\* Faulty variant: the list is read when the page is loaded and written back.
AddSucceedsStale(c) ==
  /\ calls[c].kind = "add"
  /\ Done(c)
  /\ stored' = Stored({s \in stored : s.id \in listed}, New(c))
  /\ announced' = [announced EXCEPT ![New(c).id] = New(c)]
  /\ IF Here(c) THEN open' = FALSE /\ submitting' = FALSE ELSE UNCHANGED <<open, submitting>>
  /\ UNCHANGED <<page, form, test, made>>

\* The agent answered: store the server, announce it, close the dialog.
AddSucceeds(c) ==
  /\ calls[c].kind = "add"
  /\ Done(c)
  /\ stored' = Stored(stored, New(c))
  /\ announced' = [announced EXCEPT ![New(c).id] = New(c)]
  /\ IF Here(c) THEN open' = FALSE /\ submitting' = FALSE ELSE UNCHANGED <<open, submitting>>
  /\ UNCHANGED <<page, form, test, made>>

\* Faulty variant: the button is enabled again only after a success.
AddFailsSilently(c) ==
  /\ calls[c].kind = "add"
  /\ Done(c)
  /\ UNCHANGED <<page, dialog, made, stored, announced>>

AddFails(c) ==
  /\ calls[c].kind = "add"
  /\ Done(c)
  /\ submitting' = IF Here(c) THEN FALSE ELSE submitting
  /\ UNCHANGED <<page, open, form, test, made, stored, announced>>

Answer(c) == AnswerTest(c) \/ AddSucceeds(c) \/ AddFails(c)

Next ==
  \/ ReadStored \/ ShowList \/ Remount
  \/ Open \/ Close \/ Type \/ RunTest \/ Submit
  \/ \E c \in Call : Answer(c)

\* Every call is answered; requests are aborted after eight seconds.
Fairness ==
  /\ WF_vars(ReadStored) /\ WF_vars(ShowList)
  /\ \A c \in Call : WF_vars(Answer(c))

Spec     == Init /\ [][Next]_vars
FairSpec == Spec /\ Fairness

-----------------------------------------------------------------------------
TypeOK ==
  /\ visit \in 1 .. MaxVisits \/ visit = 1
  /\ open \in BOOLEAN /\ submitting \in BOOLEAN
  /\ form \in Form
  /\ test \in [phase : {"idle", "connecting", "connected", "failed"}, by : 0 .. MaxCalls]
  /\ made \in 0 .. MaxCalls
  /\ \A c \in Call : calls[c] # NoCall => c <= made
  /\ stored \subseteq Server
  /\ listing \in {"asked", "read", "shown"} /\ listed \subseteq Id
  /\ announced \in [Id -> Server \cup {NoServer}]

\* "Avoid duplicates by ID" (agentConfig.ts:125), whatever calls overlap.
UniqueIds == \A s, t \in stored : s.id = t.id => s = t

\* A server announced as connected is stored, and is the only one of its id, until
\* another of its id is announced: calls that overlap lose nothing and leave no
\* duplicate (agentConfig.ts:125), also across visits.
AnnouncedIsStored ==
  \A i \in Id : announced[i] # NoServer => {s \in stored : s.id = i} = {announced[i]}

\* A call that is pending was made, and an addition with a form that is filled in.
CallsInv ==
  /\ calls \in [Call -> [kind : {"none", "test", "add"}, form : Form, visit : Nat]]
  /\ \A c \in Call : calls[c].kind = "add" => calls[c].form.name # Blank /\ calls[c].form.agent # Blank

\* What the dialog waits for is pending: a disabled button has a call to wait
\* for, and so has the panel that says "Connecting", after any reopening.
WaitsForCalls ==
  /\ submitting => \E c \in Call : calls[c].kind = "add" /\ Here(c)
  /\ test.phase = "connecting" => /\ test.by \in Call
                                  /\ calls[test.by].kind = "test" /\ Here(test.by)

\* Together with what is announced under an id, which is inductive.
DialogInv ==
  /\ TypeOK /\ CallsInv
  /\ UniqueIds
  /\ WaitsForCalls
  /\ \A i \in Id : announced[i] # NoServer => announced[i].id = i

\* The button is enabled again, unless the user leaves the page.
SubmitSettles == \A v \in 1 .. MaxVisits : submitting /\ visit = v ~> ~ submitting \/ visit # v

\* "The modal closes automatically, triggering a refresh via useServers"
\* (Servers.tsx:89): a list on the page is not without an announced server once
\* the dialog has closed.
ListCatchesUp ==
  listing = "shown" /\ ~ open => \A i \in Id : announced[i] # NoServer => i \in listed

\* "Verify the connection before registering it" (AddServerModal.tsx:104): a
\* result on display is a result for what is typed in.
TestIsOfForm ==
  [][\A c \in Call : AnswerTest(c) /\ Here(c) /\ open => calls[c].form.agent = form.agent]_vars
=============================================================================
