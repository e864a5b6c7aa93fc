------------------------------- MODULE Fleet -------------------------------
(***************************************************************************)
(* The live data source: what apiService asks the agents, and how it puts  *)
(* their answers together.                                                 *)
(*                                                                         *)
(* There are two ways to reach an agent: with the credentials kept for a   *)
(* stored server, or with those of the configuration, which are read anew  *)
(* for every request. A fetch is one request for the whole snapshot, and   *)
(* possibly a second round of one request per part. A request ends with an *)
(* answer, with an HTTP error, because it could not be sent, or because it *)
(* was aborted after eight seconds. What runs after an answer is one step, *)
(* because only microtasks run in between.                                 *)
(*                                                                         *)
(* Data: an agent stands for its URL and token; a snapshot is known by the *)
(* agent it came from and by the way it was fetched.                       *)
(***************************************************************************)
EXTENDS Arrays

CONSTANTS
  Agent, NoAgent,
  Old,       \* the agents without /api/metrics
  Id,
  HostOf,    \* agent -> the host name it reports, used as an id
  Part,      \* what is fetched one by one: system, cpu, memory, disk, network
  Call,
  Kept,      \* the servers that earlier sessions may have left in localStorage
  MaxSaves   \* bound: changes of the configuration, and removals

ASSUME AgentsAssumption == NoAgent \notin Agent /\ Old \subseteq Agent
ASSUME HostAssumption   == HostOf \in [Agent -> Id]
ASSUME KeptAssumption   ==
  \A s \in Kept : s \in Seq([id : Id, agent : Agent]) /\ \A k, l \in 1 .. Len(s) : s[k].id = s[l].id => k = l
ASSUME PartsAssumption  == Part # {} /\ MaxSaves \in Nat

VARIABLES
  global,   \* the agent of the configuration
  stored,   \* the servers in localStorage, in order
  call,     \* call -> what it does, waits for and has got
  saves     \* the number of changes made

vars == <<global, stored, call, saves>>

Server  == [id : Id, agent : Agent]
Ids(s)  == {s[k].id : k \in 1 .. Len(s)}

Fresh ==
  [op |-> "none", id |-> "none", way |-> "none", at |-> NoAgent, stage |-> "new", pending |-> {},
   label |-> NoAgent, read |-> <<>>, left |-> <<>>, rows |-> <<>>, moved |-> FALSE]

Distinct(s) == \A k, l \in 1 .. Len(s) : s[k].id = s[l].id => k = l

Init ==
  /\ global \in Agent \cup {NoAgent}
  /\ stored \in Kept
  /\ call = [c \in Call |-> Fresh]
  /\ saves = 0

-----------------------------------------------------------------------------
\* Putting an answer together.
Row(r, i, label, online) ==
  [id |-> i, label |-> label, from |-> r.at, way |-> r.way, online |-> online]

Fetch(r, way, a) == [r EXCEPT !.way = way, !.at = a, !.stage = "whole", !.pending = {}]
Ended(r, stage)  == [r EXCEPT !.stage = stage, !.pending = {}, !.way = "none", !.at = NoAgent]

\* The loop of listServers: the next stored server, if there is one.
NextStored(r) ==
  IF r.left = <<>> THEN Ended(r, "done") ELSE Fetch(r, "own", Head(r.left).agent)

ReadStored(r, rows) == NextStored([r EXCEPT !.read = stored, !.left = stored, !.rows = rows])

\* Faulty variant: one handler around the loop; a server that fails ends it.
AfterStoredOnce(r, ok) ==
  IF ok
    THEN NextStored([r EXCEPT !.rows = Append(@, Row(r, Head(r.left).id, Head(r.left).agent, TRUE)),
                              !.left = Tail(@)])
    ELSE Ended(r, "done")

\* A stored server has its row, be it an offline one.
AfterStored(r, ok) ==
  NextStored([r EXCEPT !.rows = Append(@, Row(r, Head(r.left).id, Head(r.left).agent, ok)),
                       !.left = Tail(@)])

AfterGlobal(r, ok) ==
  ReadStored(r, IF ok THEN <<Row(r, HostOf[r.at], r.label, TRUE)>> ELSE <<>>)

\* What runs when a fetch or a restart is over.
After(r, ok) ==
  IF r.op = "list"
    THEN IF r.way = "global" THEN AfterGlobal(r, ok) ELSE AfterStored(r, ok)
    ELSE Ended([r EXCEPT !.rows = IF ok THEN <<Row(r, r.id, r.at, TRUE)>> ELSE <<>>],
               IF ok THEN "done" ELSE "failed")

-----------------------------------------------------------------------------
\* The calls, up to their first request. This data source is only used when
\* the configuration has an URL (getDataSourceMode).

\* listServers; getServer is the same call and a search in its rows.
List(r) == Fetch([r EXCEPT !.label = global], "global", global)

Matching(i) == Filter(stored, LAMBDA s : s.id = i)

\* Faulty variant: the agent of the configuration, whatever the id.
TargetedGlobally(r) == Fetch(r, "global", global)

\* getMetrics and restartAgent: the stored server, else the configured agent.
Targeted(r) ==
  IF Matching(r.id) # <<>>
    THEN Fetch(r, "own", Matching(r.id)[1].agent)
    ELSE Fetch(r, "global", global)

Begin(c, r) == call' = [call EXCEPT ![c] = r]

Ask(c) ==
  /\ call[c].op = "none" /\ global # NoAgent
  /\ \/ Begin(c, List([Fresh EXCEPT !.op = "list"]))
     \/ \E op \in {"metrics", "restart"}, i \in Id :
          Begin(c, Targeted([Fresh EXCEPT !.op = op, !.id = i, !.read = stored]))
     \/ \E i \in Id, a \in Agent : Begin(c, Fetch([Fresh EXCEPT !.op = "add", !.id = i], "own", a))
  /\ UNCHANGED <<global, stored, saves>>

-----------------------------------------------------------------------------
\* The requests.
Asking(c) == call[c].stage \in {"whole", "parts"}

Stored(i, a) == Append(Filter(stored, LAMBDA s : s.id # i), [id |-> i, agent |-> a])

\* The fetch of call c is over; one that was added is stored now.
Finish(c, ok) ==
  LET r    == call[c]
  IN  /\ call' = [call EXCEPT ![c] = After(r, ok)]
      /\ stored' = IF r.op = "add" /\ ok THEN Stored(r.id, r.at) ELSE stored

\* Faulty variant: the fallback takes the configured agent, whatever the way.
RetryGlobally(r) ==
  IF global = NoAgent THEN Ended(r, "failed")
  ELSE [r EXCEPT !.stage = "parts", !.at = global, !.pending = Part]

\* The second round: one request per part, with the configuration read again.
Retry(r) == [r EXCEPT !.stage = "parts", !.at = IF r.way = "own" THEN @ ELSE global, !.pending = Part]

\* The request for the whole snapshot, or for a restart, was answered.
Answered(c) ==
  /\ call[c].stage = "whole"
  /\ call[c].op = "restart" \/ call[c].at \notin Old
  /\ Finish(c, TRUE)
  /\ UNCHANGED <<global, saves>>

\* It was answered with an error that is not 404: the fetch fails.
Refused(c) ==
  /\ call[c].stage = "whole" /\ Finish(c, FALSE)
  /\ UNCHANGED <<global, saves>>

\* Faulty variant: a request with a server's own credentials has no timer.
UnansweredForGood(c) ==
  /\ call[c].way = "global"
  /\ call[c].stage = "whole"
  /\ IF call[c].op = "restart" \/ (call[c].way = "global" /\ global = NoAgent)
       THEN Finish(c, FALSE)
       ELSE call' = [call EXCEPT ![c] = Retry(call[c])] /\ UNCHANGED stored
  /\ UNCHANGED <<global, saves>>

\* It was answered with 404, could not be sent, or was aborted by its timer.
Unanswered(c) ==
  /\ call[c].stage = "whole"
  /\ IF call[c].op = "restart" \/ (call[c].way = "global" /\ global = NoAgent)
       THEN Finish(c, FALSE)
       ELSE call' = [call EXCEPT ![c] = Retry(call[c])] /\ UNCHANGED stored
  /\ UNCHANGED <<global, saves>>

\* Promise.all: the fetch ends with its last part.
PartAnswered(c) ==
  /\ call[c].stage = "parts"
  /\ \E p \in call[c].pending :
       IF call[c].pending = {p}
         THEN Finish(c, TRUE)
         ELSE call' = [call EXCEPT ![c].pending = @ \ {p}] /\ UNCHANGED stored
  /\ UNCHANGED <<global, saves>>

\* Promise.all: one part that fails, or is aborted, fails the fetch.
PartFailed(c) ==
  /\ call[c].stage = "parts" /\ Finish(c, FALSE)
  /\ UNCHANGED <<global, saves>>

Respond(c) == Answered(c) \/ Refused(c) \/ Unanswered(c) \/ PartAnswered(c) \/ PartFailed(c)

\* What the timer of a request does: setTimeout(() => controller.abort()).
Abort(c) == Unanswered(c) \/ PartFailed(c)

-----------------------------------------------------------------------------
\* Settings are saved: setAgentCredentials. Lists under way remember it.
Save ==
  /\ saves < MaxSaves /\ saves' = saves + 1
  /\ global' \in (Agent \cup {NoAgent}) \ {global}
  /\ call' = [c \in Call |-> [call[c] EXCEPT !.moved = @ \/ (Asking(c) /\ call[c].op = "list")]]
  /\ UNCHANGED stored

\* removeServer.
RemoveServer ==
  /\ saves < MaxSaves /\ saves' = saves + 1
  /\ \E i \in Ids(stored) : stored' = Filter(stored, LAMBDA s : s.id # i)
  /\ UNCHANGED <<global, call>>

Next == Save \/ RemoveServer \/ \E c \in Call : Ask(c) \/ Respond(c)

\* A request has a timer from the start, so it ends.
Fairness == \A c \in Call : WF_vars(Abort(c)) /\ WF_vars(PartAnswered(c))

Spec     == Init /\ [][Next]_vars
FairSpec == Spec /\ Fairness

-----------------------------------------------------------------------------
RowRecord ==
  [id : Id, label : Agent, from : Agent, way : {"own", "global"}, online : BOOLEAN]

CallRecord ==
  [op : {"none", "list", "metrics", "restart", "add"}, id : Id \cup {"none"},
   way : {"none", "own", "global"}, at : Agent \cup {NoAgent},
   stage : {"new", "whole", "parts", "done", "failed"}, pending : SUBSET Part,
   label : Agent \cup {NoAgent}, read : Seq(Server), left : Seq(Server),
   rows : Seq(RowRecord), moved : BOOLEAN]

TypeOK ==
  /\ global \in Agent \cup {NoAgent} /\ saves \in Nat
  /\ stored \in Seq(Server) /\ Distinct(stored)
  /\ call \in [Call -> CallRecord]

\* "Try to find the server in stored servers first" (apiService.ts:271): a row
\* of a stored server, its metrics and its restart come from the agent stored
\* for it, also through the second round; those of the configured agent bear
\* its URL unless another was saved while the call was under way.
RowsAreTheirAgents ==
  /\ TypeOK
  /\ \A c \in Call : \A k \in 1 .. Len(call[c].rows) :
      LET r == call[c]  row == r.rows[k] IN
        /\ row.way = "own" => row.from = row.label
        /\ row.way = "own" /\ r.op # "add" =>
             \E l \in 1 .. Len(r.read) : r.read[l] = [id |-> row.id, agent |-> row.from]
        /\ row.way = "global" /\ row.from # row.label => r.moved

\* "Server unreachable - include with offline status" (apiService.ts:239): a
\* list that is ready has a row for every stored server it read, in their
\* order and each once, after at most one row for the configured agent.
ListIsComplete ==
  \A c \in Call : call[c].op = "list" /\ call[c].stage = "done" =>
    LET r == call[c]  extra == Len(r.rows) - Len(r.read) IN
      /\ extra \in {0, 1}
      /\ extra = 1 => r.label # NoAgent /\ r.rows[1].online
      /\ \A k \in 1 .. Len(r.read) :
           r.rows[k + extra].id = r.read[k].id /\ r.rows[k + extra].label = r.read[k].agent

\* getServer: the first row of the id.
GetServer(r, i) == Filter(r.rows, LAMBDA row : row.id = i)

\* The head of the details page (getServer), its panels (getMetrics) and its
\* restart button speak of one agent, when nothing was saved meanwhile and the
\* configured agent does not report the id of a stored server as its host name.
OneServerPerId ==
  \A c, d \in Call :
    LET g == call[c]  m == call[d] IN
      ( /\ g.op = "list" /\ g.stage = "done" /\ GetServer(g, m.id) # <<>>
        /\ m.op \in {"metrics", "restart"} /\ m.stage = "done"
        /\ saves = 0 /\ \A e \in Call : call[e].op # "add"
        /\ ~ (global # NoAgent /\ HostOf[global] \in Ids(stored)) )
      => m.rows[1].from = GetServer(g, m.id)[1].from

-----------------------------------------------------------------------------
\* The inductive invariant. A call that waits knows whom it asks and how.
WaitsFor(r) ==
  /\ r.way # "none" <=> r.stage \in {"whole", "parts"}
  /\ r.way # "none" => r.at \in Agent
  /\ r.pending # {} <=> r.stage = "parts"

\* A list past its first request has a row for each stored server it went
\* through, after at most one for the configured agent, and has the rest left.
Progress(read, left, rows, moved) ==
  LET visited == Len(read) - Len(left)
      extra   == Len(rows) - visited
  IN  /\ visited >= 0 /\ extra \in {0, 1}
      /\ \A k \in 1 .. Len(left) : left[k] = read[k + visited]
      /\ \A k \in 1 .. visited :
           /\ rows[k + extra].id = read[k].id /\ rows[k + extra].way = "own"
           /\ rows[k + extra].label = read[k].agent /\ rows[k + extra].from = read[k].agent
      /\ extra = 1 =>
           /\ rows[1].way = "global" /\ rows[1].online /\ rows[1].id = HostOf[rows[1].from]
           /\ rows[1].from # rows[1].label => moved

ListInv(r) ==
  /\ r.label # NoAgent /\ r.stage \in {"whole", "parts", "done"}
  /\ r.way = "global" => r.rows = <<>> /\ (r.at # r.label => r.moved)
  /\ r.way # "global" => Progress(r.read, r.left, r.rows, r.moved)
  /\ r.way = "own" => r.left # <<>> /\ r.at = r.left[1].agent
  /\ r.stage = "done" => r.left = <<>>

\* The agent that another call asks, or has its row from, is that of its id.
IsTarget(r, way, agent) ==
  /\ way = "own" /\ r.op # "add" => \E l \in 1 .. Len(r.read) : r.read[l] = [id |-> r.id, agent |-> agent]
  /\ way = "global" => r.op # "add" /\ r.id \notin Ids(r.read)

OtherInv(r) ==
  /\ r.id \in Id /\ r.stage # "new"
  /\ r.way # "none" => IsTarget(r, r.way, r.at)
  /\ r.stage # "done" => r.rows = <<>>
  /\ r.stage = "done" =>
       /\ Len(r.rows) = 1 /\ r.rows[1].id = r.id /\ r.rows[1].from = r.rows[1].label
       /\ IsTarget(r, r.rows[1].way, r.rows[1].from)

CallInv(r) ==
  /\ r \in CallRecord /\ WaitsFor(r)
  /\ r.op = "none" => r = Fresh
  /\ r.op = "list" => ListInv(r)
  /\ r.op \in {"metrics", "restart", "add"} => OtherInv(r)

\* A list that asks the configured agent knows which one that is, or was told.
Labelled(r) == r.op = "list" /\ r.way = "global" /\ ~ r.moved => r.label = global

\* While nothing is saved or added, what calls have read is what is stored, and
\* the configured agent is the one it was.
UpToDate(r) ==
  /\ r.way = "global" => r.at = global
  /\ r.op \in {"metrics", "restart"} \/ (r.op = "list" /\ r.way # "global") => r.read = stored
  /\ \A k \in 1 .. Len(r.rows) : r.rows[k].way = "global" => r.rows[k].from = global

Quiet == saves = 0 /\ \A e \in Call : call[e].op # "add"

FleetInv ==
  /\ TypeOK
  /\ \A c \in Call : CallInv(call[c]) /\ Labelled(call[c])
  /\ Quiet => \A c \in Call : UpToDate(call[c])

-----------------------------------------------------------------------------
\* Every request has a timer of eight seconds (REQUEST_TIMEOUT_MS), so every
\* call ends, however many servers it goes through.
CallsEnd == \A c \in Call : Asking(c) ~> ~ Asking(c)
=============================================================================
