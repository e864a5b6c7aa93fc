------------------------------ MODULE Console ------------------------------
(***************************************************************************)
(* The routed pages that show servers: the overview, the details of a      *)
(* server, and the two redirects to the details of the first one that is   *)
(* online. Each page loads what it shows with hooks (module UseAsync: a    *)
(* hook keeps its data until the answer to its last question comes). The   *)
(* content of the layout is keyed on the path, so a page is mounted anew   *)
(* when the path changes, and not when the panel does, which is in the     *)
(* query.                                                                  *)
(*                                                                         *)
(* Data: a server is its id and whether it is online; a snapshot is the    *)
(* server it is of and its shape, the fields that are present.             *)
(***************************************************************************)
EXTENDS Arrays

CONSTANTS
  ServerId,
  Shape,     \* the shapes of snapshots the data source answers with
  MaxWorld   \* bound: servers of the data source

VARIABLES
  world,      \* the servers of the data source, in order
  route,      \* the page, the id in the path, the panel in the query
  list,       \* useServers of the page
  extra,      \* the overview: the servers added from it
  server,     \* useServer
  metrics,    \* useMetrics; useSeries has the same server and is left out
  restarting, \* the server this page waits for a restart of, or NoId
  crashed     \* an error was thrown while rendering; the page is empty from then on

pageState == <<route, list, extra, server, metrics, restarting>>
pagesVars == <<world, pageState, crashed>>

NoId  == ""
Page  == {"overview", "details", "monitoring", "processes"}
Panel == {"overview", "processes", "storage", "network", "system"}

Ids(s)     == {s[k].id : k \in 1 .. Len(s)}
Entry(s, i) == Filter(s, LAMBDA x : x.id = i)

-----------------------------------------------------------------------------
\* What the panels read of a snapshot without looking whether it is there.
MemoryFields      == {"memory.memory", "memory.swap"}
TemperatureFields == {"temperature.sensors"}
CpuFields         == {"cpu"}
DiskFields        == {"disk.filesystems", "disk.io"}
NetworkFields     == {"network.interfaces"}
GpuFields         == {"gpu", "gpu.power"}
SystemFields      == {"system"}
ProcessFields     == {"processes"}
HeadlineFields    == {"memory.memory"} \cup CpuFields \cup ProcessFields
OverviewFields    == {"memory.memory"} \cup ProcessFields

PanelFields(panel) ==
  CASE panel = "overview"  -> CpuFields \cup MemoryFields \cup TemperatureFields \cup GpuFields
    [] panel = "processes" -> ProcessFields
    [] panel = "storage"   -> DiskFields
    [] panel = "network"   -> NetworkFields
    [] panel = "system"    -> SystemFields \cup TemperatureFields \cup GpuFields

\* What there is: the sample data has every field, and so has the answer composed
\* of parts once the agent has measured a file system; /api/metrics has "memory"
\* and "swap" side by side and "temperature" by kind of sensor, and may have no
\* power of a GPU and no "disk.io".
SampleFields == OverviewFields \cup HeadlineFields \cup UNION {PanelFields(p) : p \in Panel}

Fields(shape) ==
  IF shape = "live"
    THEN SampleFields \ {"memory.memory", "memory.swap", "temperature.sensors", "disk.io", "gpu.power"}
    ELSE SampleFields

-----------------------------------------------------------------------------
\* Hooks: the key of the last question, whether it is open, and the last answer.
\* Another question drops the one that is open, whose answer will not count; ask
\* flips with it, which tells a question from the next. A hook of a page that is
\* mounted is a new one, in the place of h.
Unused        == [key |-> NoId, busy |-> FALSE, data |-> <<>>, ask |-> FALSE]
Loading(h, k) == [key |-> k, busy |-> TRUE, data |-> <<>>, ask |-> ~ h.ask]
Got(h, d)     == [h EXCEPT !.busy = FALSE, !.data = d]
Failed(h)     == [h EXCEPT !.busy = FALSE]
Again(h)      == [h EXCEPT !.busy = TRUE, !.ask = ~ @]
Rekey(h, k)   == IF h.key = k THEN h ELSE [h EXCEPT !.key = k, !.busy = TRUE, !.ask = ~ @]

\* The overview: its cards, and the server whose figures it shows.
Shown == list.data \o extra
Primary(s) ==
  LET online == Filter(s, LAMBDA x : x.online)
  IN  IF online # <<>> THEN online[1].id ELSE IF s # <<>> THEN s[1].id ELSE NoId

\* A page that is mounted: its state is new, and its hooks begin to load.
Mount(p, i, panel) ==
  /\ route' = [page |-> p, id |-> i, panel |-> panel]
  /\ extra' = <<>> /\ restarting' = NoId
  /\ list'    = IF p = "details" THEN Unused ELSE Loading(list, NoId)
  /\ server'  = IF p = "details" THEN Loading(server, i) ELSE Unused
  /\ metrics' = IF p \in {"details", "overview"} THEN Loading(metrics, i) ELSE Unused

PagesInit ==
  /\ world \in {<<>>} \cup [1 .. 1 -> [id : ServerId, online : BOOLEAN]]
  /\ route = [page |-> "overview", id |-> NoId, panel |-> "overview"]
  /\ list = Loading(Unused, NoId) /\ extra = <<>>
  /\ server = Unused /\ metrics = Loading(Unused, NoId)
  /\ restarting = NoId /\ crashed = FALSE

-----------------------------------------------------------------------------
\* Rendering what the hooks hold; an error leaves an empty page, as nothing
\* catches it. Without a server the details show that there is none.
Read ==
  CASE route.page = "overview" -> OverviewFields
    [] route.page = "details"  ->
         HeadlineFields \cup (IF server.busy \/ server.data # <<>> THEN PanelFields(route.panel) ELSE {})
    [] OTHER -> {}

Renders == \A k \in 1 .. Len(metrics.data) : Read \subseteq Fields(metrics.data[k].shape)
Render  == crashed' = ~ Renders'

\* Faulty variant: the content is not keyed, so the state of the page stays.
NavigateUnkeyed ==
  /\ \E i \in ServerId, panel \in {"overview", "processes"} :
       IF route.page = "details" /\ route.id # i
         THEN /\ route' = [route EXCEPT !.id = i, !.panel = panel]
              /\ server' = Rekey(server, i) /\ metrics' = Rekey(metrics, i)
              /\ UNCHANGED <<list, extra, restarting>>
         ELSE Mount("details", i, panel)
  /\ UNCHANGED world /\ Render

\* A link, an entry of the palette, or an address.
Navigate ==
  /\ \/ \E p \in Page \ {"details"} : p # route.page /\ Mount(p, NoId, "overview")
     \/ \E i \in ServerId, panel \in {"overview", "processes"} :
          <<"details", i>> # <<route.page, route.id>> /\ Mount("details", i, panel)
  /\ UNCHANGED world /\ Render

\* Another panel of the same path.
SetPanel ==
  /\ route.page = "details"
  /\ \E panel \in Panel \ {route.panel} : route' = [route EXCEPT !.panel = panel]
  /\ UNCHANGED <<world, list, extra, server, metrics, restarting>> /\ Render

\* The button "Refresh" of the overview, "Force refresh" of the details.
RefreshPage ==
  /\ \/ route.page = "overview" /\ list' = Again(list) /\ UNCHANGED metrics
     \/ route.page = "details" /\ metrics' = Again(metrics) /\ UNCHANGED list
  /\ UNCHANGED <<world, route, extra, server, restarting>> /\ Render

\* Faulty variant: the server is chosen once, when the first one is there.
FollowPrimaryOnce(s) ==
  metrics' = IF route.page = "overview" /\ metrics.key = NoId THEN Rekey(metrics, Primary(s)) ELSE metrics

\* What the overview loads is that of its first server that is online.
FollowPrimary(s) ==
  metrics' = IF route.page = "overview" THEN Rekey(metrics, Primary(s)) ELSE metrics

-----------------------------------------------------------------------------
\* The answers.
AnswerList ==
  /\ list.busy
  /\ \/ list' = Got(list, world) /\ FollowPrimary(world \o extra)
     \/ list' = Failed(list) /\ UNCHANGED metrics
  /\ UNCHANGED <<world, route, extra, server, restarting>> /\ Render

\* getServer; that there is no such server is an answer too.
AnswerServer ==
  /\ server.busy
  /\ \/ server' = Got(server, Entry(world, server.key))
     \/ server' = Failed(server)
  /\ UNCHANGED <<world, route, list, extra, metrics, restarting>> /\ Render

\* Without an id the promise is rejected.
AnswerMetrics ==
  /\ metrics.busy
  /\ \/ /\ metrics.key # NoId
        /\ \E s \in Shape : metrics' = Got(metrics, <<[id |-> metrics.key, shape |-> s]>>)
     \/ metrics' = Failed(metrics)
  /\ UNCHANGED <<world, route, list, extra, server, restarting>> /\ Render

\* Monitoring and Processes, once their list is there.
Redirect ==
  /\ route.page \in {"monitoring", "processes"} /\ ~ list.busy /\ list.data # <<>>
  /\ Mount("details", Primary(list.data), IF route.page = "processes" THEN "processes" ELSE "overview")
  /\ UNCHANGED world /\ Render

-----------------------------------------------------------------------------
\* The dialog of the overview has stored a server and announces it (onAdded).
Add ==
  /\ route.page = "overview" /\ Len(world) < MaxWorld
  /\ \E i \in ServerId \ Ids(world) :
       LET new == [id |-> i, online |-> TRUE] IN
         /\ world' = Append(world, new) /\ extra' = Append(extra, new)
         /\ FollowPrimary(list.data \o extra')
  /\ UNCHANGED <<route, list, server, restarting>> /\ Render

\* An agent starts or stops answering.
Flip ==
  /\ \E k \in 1 .. Len(world) : world' = [world EXCEPT ![k].online = ~ @]
  /\ UNCHANGED <<pageState, crashed>>

\* "Restart agent", "Reconnect"; the buttons are disabled while one is pending.
Restart ==
  /\ route.page = "details" /\ restarting = NoId
  /\ restarting' = route.id
  /\ UNCHANGED <<world, route, list, extra, server, metrics>> /\ Render

\* A success refreshes the panels; either way the button is given back. The
\* answer to a page that was left changes no page.
RestartAnswered ==
  /\ restarting # NoId
  /\ metrics' = Again(metrics) \/ UNCHANGED metrics
  /\ restarting' = NoId
  /\ UNCHANGED <<world, route, list, extra, server>> /\ Render

PagesNext ==
  /\ ~ crashed
  /\ \/ Navigate \/ SetPanel \/ RefreshPage \/ Redirect
     \/ AnswerList \/ AnswerServer \/ AnswerMetrics \/ RestartAnswered
     \/ Add \/ Flip \/ Restart

\* A request ends, so a question that stays is answered; nothing is owed to one
\* that was dropped for another. A redirect is an effect of its page.
PagesFairness ==
  /\ \A q \in BOOLEAN :
       /\ WF_pagesVars(~ crashed /\ list.ask = q /\ AnswerList)
       /\ WF_pagesVars(~ crashed /\ server.ask = q /\ AnswerServer)
       /\ WF_pagesVars(~ crashed /\ metrics.ask = q /\ AnswerMetrics)
  /\ WF_pagesVars(~ crashed /\ RestartAnswered) /\ WF_pagesVars(~ crashed /\ Redirect)

PagesSpec     == PagesInit /\ [][PagesNext]_pagesVars
PagesFairSpec == PagesSpec /\ PagesFairness

-----------------------------------------------------------------------------
\* The page of a server never shows, refreshes or restarts another one: not
\* the one it showed before, although hooks keep their data when their key
\* changes (AppLayout.tsx:97).
DetailsAreOfRoute ==
  route.page = "details" =>
    /\ server.key = route.id /\ Ids(server.data) \subseteq {route.id}
    /\ metrics.key = route.id /\ Ids(metrics.data) \subseteq {route.id}
    /\ restarting \in {NoId, route.id}

\* The hooks of a page are DataHooks, as those of useAsync are (module UseAsync):
\* what they show changes only by an answer to their last question, and a page
\* that is mounted begins with hooks of its own.
ServerHook == INSTANCE DataHook WITH
  Key <- ServerId \cup {NoId}, there <- route.page = "details",
  key <- server.key, busy <- server.busy, data <- Ids(server.data)

MetricsHook == INSTANCE DataHook WITH
  Key <- ServerId \cup {NoId}, there <- route.page \in {"details", "overview"},
  key <- metrics.key, busy <- metrics.busy, data <- Ids(metrics.data)

HooksAreDataHooks == ServerHook!PlaceSpec /\ MetricsHook!PlaceSpec

\* On the overview, what is loaded follows the first server that is online,
\* whatever answers, additions and refreshes come in which order.
OverviewFollows == route.page = "overview" => metrics.key = Primary(Shown)

\* "returns the same types mockService returns, so no UI component needs to
\* change when the switch is flipped" (apiService.ts:7): no page fails to
\* render a snapshot.
PagesRender == ~ crashed

\* A hook stops loading, unless the user goes on asking anew: by a refresh, which
\* is never disabled, by another page, or by what changes the first server online.
\* A redirect arrives or says that there is no host, and the restart button is
\* given back, whatever the agents do.
PagesSettle ==
  /\ \A q \in BOOLEAN :
       /\ list.busy /\ list.ask = q ~> ~ list.busy \/ list.ask # q
       /\ server.busy /\ server.ask = q ~> ~ server.busy \/ server.ask # q
       /\ metrics.busy /\ metrics.ask = q ~> ~ metrics.busy \/ metrics.ask # q
  /\ restarting # NoId ~> restarting = NoId
  /\ \A p \in {"monitoring", "processes"} :
       route.page = p ~> route.page # p \/ (~ list.busy /\ list.data = <<>>)

-----------------------------------------------------------------------------
(***************************************************************************)
(* The inductive invariant: the two properties of the pages and the types  *)
(* of what they hold are kept by every step.                               *)
(***************************************************************************)
Machine         == [id : ServerId, online : BOOLEAN]
MetricsSnapshot == [id : ServerId, shape : Shape]
HookOf(T)       == [key : ServerId \cup {NoId}, busy : BOOLEAN, data : Seq(T), ask : BOOLEAN]

PagesTypes ==
  /\ world \in Seq(Machine) /\ extra \in Seq(Machine)
  /\ route \in [page : Page, id : ServerId \cup {NoId}, panel : Panel]
  /\ list \in HookOf(Machine) /\ server \in HookOf(Machine) /\ metrics \in HookOf(MetricsSnapshot)
  /\ restarting \in ServerId \cup {NoId} /\ crashed \in BOOLEAN

PagesInv == PagesTypes /\ DetailsAreOfRoute /\ OverviewFollows

\* A page waits only for what it shows.
WaitsForOwn ==
  /\ route.page # "details" => ~ server.busy /\ restarting = NoId
  /\ route.page \notin {"details", "overview"} => ~ metrics.busy
=============================================================================
