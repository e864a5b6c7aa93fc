# Ares Cloud Control: TLA+ models and proofs

Ares Cloud Control is a monitoring agent written in Rust (`agent/`), a browser
dashboard written in TypeScript and React (`dashboard-panel/`), and the shell
scripts that install the agent and expose it through a tunnel (`deploy/`). This
directory holds TLA+ modules that model the parts with concurrency, failure or
long histories, the TLC configurations that check them, and TLAPS proofs about
all of them. `PROJECT.json` maps every definition to the lines it models.

    tlc -config pipeline.cfg MCMetricsPipeline   # section 4 names the module of each .cfg
    tlapm MetricsPipelineProofs.tla

## 1. The system

    operating system, Docker, NVML                        browser
          | counters                                         |
    collectors --> collect_all --> MetricsState <-- REST handlers <-- apiService <-- useAsync <-- pages
    (metrics/*.rs)  (one task)     (snapshot, flags)  WebSocket sessions    |         AddServerModal, Settings
          ^                                                  ^              +--> localStorage <-- mockService
    systemd unit, config.toml, token <-- preinstall.sh       cloudflared <-- start-server.sh

| Component | State it keeps | Operations | What makes it correct | Module |
|---|---|---|---|---|
| Metrics pipeline: `metrics/mod.rs`, `state.rs`, handlers of `api.rs` | latest snapshot, `last_update`, collector flags, three locks | a cycle per tick: collect, fall back, write the sections, stamp, report flags; requests that clone the snapshot | a response is from one publication; flags fit the data; nobody starves | `MetricsPipeline`, `AtomicMetrics` |
| WebSocket session: `websocket.rs` | a channel of ten messages, the loop, the writer task | push once a second, answer pings and the close, end | order, no lost pong, newest snapshot arrives, no task is left behind | `WsSession`, `MetricsFeed` |
| Collectors that compute rates: `metrics/network.rs`, `disk.rs`, `docker.rs` | previous counters per interface, device, container; `first_run`; `available` | `collect` | a figure never exceeds what was counted in the time it is of | `NetworkRates`, `DiskRates`, `DockerCollector`, `Counters` |
| Page data: `hooks/useAsync.ts` | `data`, `error`, `loading`, a flag per load | effect, cleanup, reactions of a promise, `refresh` | what is shown is the outcome of the last question | `UseAsync`, `DataHook` |
| Live data source: `apiService.ts` | requests on their way, credentials, stored servers | list, get, metrics, restart, add; fallback to five requests; abort after eight seconds | rows, metrics and restarts are of the agent stored for them; a list is complete; calls end | `Fleet`, `DataSources` |
| Sample data source: `mockService.ts`, `mockData.ts` | servers and alerts of a tab, added servers in storage | the same calls after a delay; generators of snapshots and charts | what was added is kept, cards agree with panels | `SampleData`, `DataSources` |
| Add-server dialog: `AddServerModal.tsx`, `agentConfig.ts`, `Servers.tsx` | form, test panel, button, stored servers, the list on the page | type, test, submit, close, reopen, leave | nothing announced is lost, one server per id, the button comes back | `AddServer` |
| Overview, details, redirects: `Dashboard.tsx`, `ServerDetails.tsx`, `Redirects.tsx` | a route, three hooks, added cards, a pending restart | navigate, refresh, answers, add, restart | a page shows and restarts its own server; figures follow the first server online; every question is answered unless it is asked anew | `Console` |
| Process table: `ProcessTable.tsx` | filter, order, page | filter, sort, turn pages while processes are refreshed | pages partition what matches, in order | `ProcessTable`, `Arrays` |
| Alerts and server list: `Alerts.tsx`, `AlertTimeline.tsx`, `Servers.tsx`, `ServerOverview.tsx` | filters, order | filter, sort, group by day | each row once, counts agree with rows | `Lists`, `Arrays` |
| Command palette: `CommandPalette.tsx` | text, cursor, what is rendered, the listener set by the last effect | type, arrows, hover, Enter, arrival of the servers, rendering, effects | Enter opens a row that is on the screen, and the highlighted one unless the highlight was moved or the text cleared since | `CommandPalette` |
| Dialogs, menus, layout: `Modal.tsx`, `Dropdown.tsx`, `IconMenu.tsx`, `AppLayout.tsx`, ... | what is open, the lock of the scrolling | open, close, Escape, a press outside, a link | nothing is left behind by a page that is left | `Overlays` |
| Toasts, splash screen, counters, tooltips | timers and frames | push, dismiss, expire, animate | no more than three toasts, each timed; a counter ends at its value | `Timers` |
| Settings and connection: `SettingsProvider.tsx`, `Settings.tsx`, `ConnectionPill.tsx` | a record per tab, one in storage, the document's classes, the form | change, reset, open a tab, the system's colours; save, clear, test | the document looks as the tab's settings say | `Preferences` |
| Installation: `deploy/preinstall.sh` | user, binary, configuration, token, unit, on disk | sixteen steps under `set -e`, run again after any stop | a finished run leaves an agent that starts; tokens and edits survive | `Preinstall` |
| Start and tunnel: `deploy/start-server.sh` | the agent, tunnel processes, a log shared by all runs | restart, end old tunnels, launch, wait twice, test | one tunnel, its own URL, every run ends | `StartServer` |
| Router, start-up, the collectors without rates, presentation | see section 8 | | | none |

How they interact: the collectors are called in turn by one task, which
publishes into `MetricsState`; requests and sessions only read it. The dashboard
polls the REST endpoints through promises that are aborted after eight seconds;
pages, dialogs and `localStorage` share one event loop per tab, and tabs share
`localStorage`. The scripts run one at a time on the agent's host and meet it
through files, systemd and a log.

The hard behaviours are: a snapshot written in nine assignments while requests
come in; flags under another lock than the data they describe; a bounded channel
that drops one kind of message and must not drop another; answers that arrive in
another order than the questions, after the page is another one, or after the
configuration was changed; a fallback that asks again with other credentials; a
listener that belongs to an earlier rendering; timers of things that are gone;
a rendering whose effects are a later task; scripts that stop between creating a file and writing it; a log that several
processes write one after the other; counters that start again at zero, and
requests of a cycle that fail one by one. `PROJECT.json` lists each as a hazard
at its line, with the properties that would catch it.

## 2. Plan and what is left

The modules were written in this order: `MetricsPipeline` with its abstract
specification and proofs (the heart of the agent), `WsSession` likewise,
`UseAsync`, `Preinstall`, `StartServer`, `AddServer`, `NetworkRates`; then the
data sources (`Fleet`, `SampleData`), the console (`Console` to `Preferences`), and
the two other collectors with counters.

The proofs followed in the same order; those of the sample fixtures, of the loop of the disk
collector and of the refinement of `DataHook` came last (section 6). Every safety property
that a run checks and finds to hold is now a theorem. Left for proofs: nothing but liveness, which the prover
cannot do.
Left for models: the shared `localStorage` in which two
tabs add servers at once with the live source (`AddServer` has one tab, and each
of its writes is one step as in the code), and the layered configuration of the agent.

## 3. Modules

Conventions: one action per operation or per step that another actor can observe; bounds are
constants named `Max...`, used in guards only. In each module a definition with
the comment "Faulty variant" is a plausible bug of the definition after it; it
takes no part in any specification and exists to see that the properties notice.

**MetricsPipeline.** A section is represented by the cycle it was collected in,
0 for the initial snapshot, so that origin and age can be compared. `pc` walks
through `collect_all` (`mod.rs:62-210`): `StartCycle`, nine times `CollectOk` or
`CollectErr`, `AskWrite`, `AcquireWrite`, nine times `WriteSection`,
`StampAndRelease`, `UpdateStatus`. The lock of tokio is fair: `queue` is served
first come first served, readers at the head enter together as long as no writer
holds it. A tick that falls into a running cycle is kept (`MissedTickBehavior`
is not changed from its default). `Fallible` is the set of collectors that have
a path to `Err`; today this is the GPU collector alone, the code handles all.
The read of the shared state inside `CollectErr` is part of that step, because
only the collector task ever takes the write lock.

**AtomicMetrics** is what `MetricsState` promises to readers: sections, timestamp
and flags are published by steps of their own kind, and a request sees one
published snapshot as a whole. `ImplementsAtomicMetrics` maps the pipeline to it.

**WsSession.** `loop` is `handle_socket`, `writer` the spawned task, `queue` the
channel between them. `try_send` fails both when the channel is full and when
the writer is gone, and its three callers differ: a snapshot is dropped, a pong
that finds no room ends the loop, a close is best effort. When the loop ends it
drops its sender and waits for the writer. The environment publishes, sends frames (at most
`MaxInbox` unread) and may lose the connection at any time. A pending `send` may
succeed into a connection that is already lost.

**MetricsFeed** is the promise of a session to its client: newer snapshots only,
pongs in the order of the pings, a close only as an answer, after which nothing follows.

**UseAsync.** A load is a promise with three reactions, each a microtask of its
own. `RunEffect` is the cleanup of the previous effect and the new effect
together, as React runs them; under StrictMode the first effect runs twice,
which is the choice `n \in {1, 2}`. The flag `cancelled` of a load is
represented by `live`, the one load for which it is false.

**DataHook** is the promise of a hook to its page: one question, open or not, and what is shown
changes only by its answer. `ImplementsDataHook` maps `UseAsync`, where many loads are
open, to it: the question is the one the effect last asked, and it is open until the first reaction
of the last load. `Console` uses hooks of that kind, and `HooksAreDataHooks` says that it uses them
rightly: a page that is mounted begins with new ones, and only the page that has a hook asks.

**AddServer.** What follows an `await` is one step. Calls are numbered; one made
on an earlier visit of the page still changes `localStorage` but not the state of
the component that is gone. `Slug` is a constant function, so that TLC can make
two names share an id. `localStorage` is assumed to work: when it does not, the
code ignores the failure (`agentConfig.ts:112`).

**Preinstall.** A command that creates a file and fills it has a step in
between. `Stop` is any failing step under `set -e`, or an interruption, at any
point. `AgentStarts` states what the agent needs (`main.rs:31-39`, TOML rejects a
table that is defined twice). `cut` is a history variable: a run stopped
between creating and writing the token.

**StartServer.** A tunnel has the number of the run that forked it. The script,
the forked child (which first opens, and thereby empties, the log), the tunnels
and the agent take steps on their own. The two-second sleeps of the script are
modelled by what they are long enough for: `FindOld` and `TestMetrics` wait
until no child is still between fork and exec. No such sleep separates the launch
from the first look into the log; `ChildFirst` says whether the child is
assumed to be first.

**NetworkRates**, **DiskRates**, **DockerCollector.** A rate is represented by the number
of bytes it is computed from, a share of the processors by the two differences
it is the quotient of. `moved`, `since`, `used`, `passed` and `steady` are histories:
what was really counted since the last cycle or the last sample, and which
interfaces existed throughout. The disk collector visits a device once per
mount, so `Loop` applies `Visit` along the mounts in their order; which names are found may
differ from one cycle to the next, and `missed` remembers which were not. The
Docker collector asks for the list (`ListContainers`) and then for the figures of each container
that the list has as running (`todo`, `StatsAnswered`, `StatsFailed`), and containers stop and start
in between. One that stopped is answered without the host's counter, which
`docker.rs:178,197` take for zero (`Answers`). `CollectNothing` sets `available` to FALSE for good.

**Fleet.** A call is a record that says what it does, which request it waits for,
with which credentials, and what it has gathered. `Answered`, `Refused`,
`Unanswered`, `PartAnswered`, `PartFailed` are the ends of a request; what runs after it,
up to the next request of the call, is the same step. The configuration is
read anew by every request that uses it, as `request` does, so `Save` can come
between the first round of a fetch and its fallback. An agent stands for its
URL and token. `moved` is a history: the configuration was saved while a list
was on its way.

**SampleData.** The fixtures are operators in integers over generators of random numbers. `Draw` is the set of
generators there can be, so what is said of the fixtures is said for any numbers; the run has three.
The tabs, their calls and storage are a state
machine. `FixturesAgree` compares the generators with each other
before the first call only, as they do not depend on the state.

**DataSources** is `dataSource()`: a visit uses one of the two sources, by `mode`.

**Console.** A hook is its key, whether a question is open, the last answer, and `ask`, which
flips with every new question, since a refresh or another key drops the one that is open;
that answers of earlier questions are dropped is proved of `UseAsync` and used here,
with `DataHook` between the two.
`Navigate` mounts a new page, because the content is keyed on the path
(`AppLayout.tsx:97`). A snapshot is known by its server and by its shape, and
`...Fields` name what each panel reads without asking whether it is there.

**Arrays** is what the console does with arrays: `filter` and `sort`, whose order is stable.
Both are defined by the rank of a position in an order, not by recursion, so that
they can be reasoned about.

**ProcessTable, Lists, CommandPalette, Overlays, Timers, Preferences.** One action per
event handler, effect or timer. A text typed in is the set of rows it matches.
`CommandPalette` has three views: `state` is what was set, `screen` what is rendered, and `heard`
the rendering whose effects ran last, which the listener belongs to. React renders a click or a key at once and
runs its effects too (`AtOnce`). A movement of the pointer, the arrival of the servers, and whatever an
effect sets (the cleared text on opening, the cursor brought back among the results)
wait for a rendering (`Commit`) and then for its effects (`Effects`), each a task of its own with
keys possibly before it.
In `Timers` every timeout and frame is a step of its own, also of a toast that was pushed out.
`Preferences` has two tabs with one stored record each reads only when it is opened.

**Composition.** Components that interact are in one module, or related by
refinement. `MCDeploy`, `MCCollectors`, `DataSources` and `MCInterface` put together
modules that share nothing (two scripts; three collectors; the two sources of
which a visit uses one; the parts of the console). They extend the modules
themselves, so that a run checks the very definitions the theorems are about.
`program`, `part` or `mode` says which of them moves
and is chosen at the start, so TLC explores the sum of the parts, not their product.
A property of a part is unchanged by that, since the others stutter, and its
fairness is stated for the part that moves.

## 4. Runs

| Run | Module | Instance | What it shows |
|---|---|---|---|
| `pipeline` | `MCMetricsPipeline` | 2 clients, 3 cycles, the GPU collector can fail | `ReplyCoherent`, `MonotoneReads`, `ToldThenSeen`; the pipeline implements `AtomicMetrics`; `EveryTickPublishes`, `RequestsAnswered` |
| `ws` | `MCWsSession` | channel of 3, 2 snapshots, 2 pings, 2 unread frames | `InOrder`, `PongsKept`; the session implements `MetricsFeed`; `LatestArrives`, `SessionEnds` |
| `async` | `MCUseAsync` | 2 keys, 1 refresh, 4 loads | `ShowsLastOutcome`, `NeverOlder`; the hook implements `DataHook`, so that nothing is written after the page was left; `QuestionAnswered` |
| `deploy` | `MCDeploy` | 3 tokens and any number of runs of `preinstall.sh`; 3 runs of `start-server.sh`, the child first | `DoneMeansReady`, `CredentialsKept`; `OneTunnel`, `OnlineIsOwn`, `RunEnds` |
| `rates` | `MCCollectors` | 3 interfaces (symmetric), counters up to 2; a host's counter up to 3; 3 devices, 3 mounts, one device that is never found and two that are in some cycles; 2 containers | `NeverOverstated`, `ExactWhenSteady`; `TotalIsExact` of disks; `SharesAreNotOverstated` of containers |
| `data` | `MCDataSource` | 2 agents, one old; 3 ids; 2 overlapping calls, 2 parts, 1 save or removal; 2 tabs, 2 names of which one gives the id of a fixture, 3 sample calls, 3 generators | `RowsAreTheirAgents`, `ListIsComplete`, `OneServerPerId`, `CallsEnd`; `SampleKept`, `SampleAgrees` |
| `interface` | `MCInterface` | section 3, Composition; 3 names on 2 ids, 2 calls, 2 visits; 2 servers; 5 processes in pages of 2; 5 alerts; 4 toasts; 2 tabs | `AnnouncedIsStored`, `DetailsAreOfRoute`, `OverviewFollows`, `PagingIsExact`, `ListsAreExact`, `ScrollLockIsDialogs`, `TimersInv`, `DocumentFollows`, `EnterOpensDisplayed`, `InterfaceSettles` |
| `start_stale_url`, `add_list`, `add_test`, `pages_live`, `pill` | `StartServer`, `MCAddServer`, `MCAddServer`, `Console`, `Preferences` | smallest instance | a statement of the repository that the code does not keep (section 7) |

A run with a liveness property uses the fair specification for all its
properties; fairness excludes no finite behaviour, so safety is not affected.
`interface` has pages over the sample shape of a snapshot, which has every field a page reads;
the other shape is `pages_live`.

Why the bounds are enough. Pipeline: three cycles give a leftover section of a
leftover and a fresh one after it; two clients give a reader that joins
another, and one that waits behind a writer that waits behind a reader.
Session: with room for three, the channel can hold a snapshot, a pong and
another snapshot, and can be full when a snapshot, a pong or a close arrives.
Hook: four loads are two under StrictMode and two more by a change of key and a
refresh, in all orders of their answers. Dialog: two calls are one forgotten by
a reopening or a remount and the one of the new dialog, with the same id or
another. Tunnels: the third run meets what two stopped runs left behind.
Interfaces: one that is the first, one that stays, one that goes and comes
back. Devices: one mounted twice around another, one whose name is never found, and names found in one cycle and not in the next. Containers: one that
stops between the list and its request and is started again, while the request of the other fails. Data source: a list that
falls back while the configuration is saved and another call removes or adds a
server. Pages: three, two and no pages of processes, so that the page kept is gone. Toasts:
the fourth pushes out the first. The theorems of section 6 hold for constants of any size, the bounds
included.

Where a run says `CHECK_DEADLOCK FALSE` the system really can come to rest:
a session that is over, a page that has loaded or was left, calls that were all
answered, a script that ended after its last run. In the pipeline and the
collectors there is always something to do, and TLC checks that.

## 5. Fairness

* `MetricsPipeline`: weak fairness of the collector task and of each request
  that has asked for the lock: tokio polls every task that is ready. Ticks and
  requests themselves are not fair. That no reader starves the writer is not
  assumed, it follows from the queue of the lock.
* `WsSession`: `select!` polls its branches in random order, so a branch that
  becomes ready again and again is taken: strong fairness of the timer and of
  reading. That a pending send ends, by success or by failure, is an
  assumption on the connection, stated in the module; without it
  `send_task.await` could wait for ever.
* `UseAsync`, `AddServer`: microtasks and effects run, and every call is
  answered, because `apiService` aborts it after eight seconds.
* `Fleet`: a request has a timer from its start, so it ends: weak fairness of the
  timer and of parts that were answered. That an agent answers is not assumed.
* `Console`, `Timers`, `Preferences`: calls end (above), and effects, timeouts and
  the last frame of an animation come. What the user and the agents do is not fair.
  In `Console` the fairness is that of one question at a time (`ask`): a question that is dropped
  for another is owed no answer, since `useAsync.ts:43` cancels its load. The refresh button
  is never disabled (`Dashboard.tsx:86`), so a user who keeps pressing it may never see the
  end of loading, and `PagesSettle` says so: a hook stops loading or is asked anew.
* `StartServer`: the script goes on and a forked child is scheduled. Tunnels,
  their URLs and the agent are not fair: `RunEnds` rests on the timeouts.

`Preinstall` and the collectors have no liveness property: each step of the
script may fail, and a cycle waits for nothing that is modelled.

## 6. Proofs

Proved with TLAPS for all values of the constants that satisfy the ASSUMEs of
the module: any set of clients, any capacity, any number of keys, loads, calls and
runs, any finite set of interfaces, any agents, names, ids and servers, any answer
and any size of a page. The bounds of the actions (`Max...`) are constants too.

An invariant that a run checks is seldom inductive. What makes it so is defined in the
component's module (`...Inv`), was run through TLC as an invariant of the
instance of section 4, and is then proved: it holds at first, each action keeps it, and it
implies the property. Action properties and refinements are proved of the steps that start
in it.

| Module | About | Theorems |
|---|---|---|
| `MetricsPipelineProofs` | `MetricsPipeline` | `PipelineInvariant`, `TypeCorrect`, `Coherence`, `StatusAgreement`, `Monotonicity`, `FlagsAfterData`, `Refinement` |
| `WsSessionProofs` | `WsSession` | `SessionInvariant`, `TypeCorrect`, `Ordering`, `NoPongLost`, `CloseAnswers`, `Refinement` |
| `DataSourceProofs` | `Fleet`, `SampleData`, `DataSources` | `FleetInvariant`, `TypeCorrect`, `RowsOfTheirAgents`, `ListsAreComplete`, `OneServer`; `SampleInvariant`, `AddedIsKept`, `FixturesStay`; `FixturesAlwaysAgree`, `SourcesCompose`, `SourcesAgree` |
| `PageProofs` | `UseAsync`, `Console` | `HookInvariant`, `LastOutcome`, `Freshness`, `QuietOnceLeft`, `HookRefinement`; `PagesInvariant`, `DetailsOfTheRoute`, `OverviewFollowsPrimary`, `PageHooks`, `PagesRenderSamples` |
| `InterfaceProofs` | `AddServer` and the parts of the console | `DialogInvariant`, `TypeCorrect`, `NoDuplicates`, `NothingLost`; `PagesExactly`, `ListsExactly`, `EnterIsDisplayed`, `ScrollLock`, `TimersKeep`, `DocumentsFollow` |
| `CollectorProofs` | `NetworkRates`, `DiskRates`, `DockerCollector` | `RatesInvariant`, `NotOverstated`, `ExactRates`; `DiskInvariant`, `ExactTotal`; `SampleInvariant`, `NoShareOverstated` |
| `DeployProofs` | `Preinstall`, `StartServer` | `PreinstallInvariant`, `ReadyWhenDone`, `NothingOverwritten`; `StartInvariant`, `TypeCorrect`, `OneAtATime`, `OwnWhenOnline` |
| `ArraysProofs` | `Arrays` | only lemmas, on ranks, sorting and filtering, for the proofs of tables, lists and the palette |

The arguments:

* **Pipeline.** `ReplyCoherent` says nothing about a write in progress, so it is not
  inductive. `PipelineInv` adds where the cycle stands (`CycleOrder`), that what
  was fetched is fresh or the section in place (`CollectProgress`), that no
  reader is inside while the writer is and that the written prefix is the staged
  one (`WriteProgress`), and what the snapshot, flags and replies are between
  the phases. Each part is a lemma over `[Next]_vars`.
* **Session.** `SessionInv` says that unread pings are numbered without a gap after the
  last one answered (`PingsWait`) and that every message on its way is news to the
  client (`AllNews`). What sending and receiving do to the channel is stated once in
  lemmas (`SendEffect`, `RecvEffect`, ...).
* **Live data source.** `RowsAreTheirAgents` speaks of the rows of calls, which are
  made of what a call read when it began and of the request it waits for.
  `FleetInv` says for each kind of call what these have to do with one another
  (`CallInv`): a list has one row for each stored server it has passed, in their order
  and of their agents, after at most one for the configured agent, and waits for the next
  (`Progress`); any other call asks, or was answered by, the agent its id had when it was
  read (`IsTarget`). What a list holds at its end is then a fact about where it stands. A row of the
  configured agent may have another's label only if the configuration was saved meanwhile
  (`moved`). `UpToDate` is what calls have in common while nothing is saved;
  `OneServerPerId` follows from it.
* **Sample data source.** `SampleInv` is `SampleKept`, `CardsAgree` and the ids and names
  there can be. It is taken apart tab by tab (`TabInv`, `ByTab`), since every call works on
  one tab and on storage. A tab that is loaded has the three fixtures first (`LoadedTab`), so every
  alert is about a server it lists, also when a name gives the id of a fixture.
  `FixturesAlwaysAgree` holds for any random numbers: a card takes the root and the first interface
  where the live source would find them by looking (`RootFirst`, `UplinkFirst`), pids are 137 apart
  and the random part of one is below 90, and what is drawn for a chart is clamped (`AroundBounds`).
  `SourcesCompose` carries what is proved of each source over to a visit, which chooses one.
* **Hook and pages.** While mounted, the one load that is not cancelled is the last,
  and what is shown of it is what its reactions did (`UseAsync`). `PagesInv` needs only
  the types beside the two properties, because a hook of `Console` has its key: what
  `UseAsync` promises is in it. That promise is `DataHook`: `HookRefinement` proves it of `UseAsync`, where
  the reaction that stores an outcome closes the question and the one that clears the indicator is a
  stutter, and `PageHooks` proves that the hooks of `Console` behave so, with `WaitsForOwn`: no hook of
  a page that does not have it is waited for. `PagesRenderSamples` assumes that every
  snapshot has the shape of the sample data, which is what
  demo mode gives; without that hypothesis `pages_live` is the counterexample.
* **Dialog.** That a disabled button has a call to wait for needs that a call has a
  number of its own (`StartEffect`) and that the end of one leaves the others
  (`DoneEffect`); that nothing is lost needs that the answer to an addition
  replaces the servers of its id, and no other, at the time it is stored.
* **Tables and lists.** `PagingIsExact` and `ListsAreExact` are about what is rendered
  in one state; the invariants `TableInv` and `ListsInv` are types. What has to be
  shown is arithmetic of pages (`Division`, `RowsOfPage`) and what sorting and filtering do:
  a permutation in order, each group a sublist of the whole (`ArraysProofs`). It
  rests on `TableAssumption`, that no two processes of one answer have one pid: the
  agent takes them from a map with the pid as its key.
* **Palette, layers, timers, settings.** `PaletteInv`: from the listener to the screen, and
  from the screen to what was set, a view differs only by what may be pending (`Grows`): the servers,
  the cleared text, another cursor. Each of the first two adds results and takes none away (`PendingAdds`), so what the
  listener knows is on the screen. Once the effects have run the cursor is among the results (`Fits`).
  `OverlayInv`: an open dialog will restore what a body without a dialog has.
  `ToastsInv`: no toast is pushed twice, and those with a timer were pushed. `DocumentInv` adds types.
* **Collectors.** Of an interface that stayed, the difference of its counter and its
  stored value is what moved; one that came back has counted at most what moved. The
  counter of a container that runs is at most its sample and what was used since, the host's is exactly its
  sample and what passed since unless the sample is without it, and nothing uses more than passes. A disk adds to the total at its
  first mount of a cycle only, since the later ones are compared with the value just recorded: by
  induction along the loop (`LoopIs`), what the loop has after n mounts is decided by the set of the first n.
  The induction is over a set of numbers, by a least counterexample (`Induction`).
* **Scripts.** `PreinstallInv` says for each step what those before it have left, theirs or of an
  earlier run, and that a token file is empty only between two steps or because
  a run was stopped there. `OneTunnel` rests on where the processes alive are
  accounted for: on the list, in hand, or the run's own (`OneInv`); `OnlineIsOwn` on
  the log holding lines of the run only, once its child has opened it (`LogInv`). The
  second is under `ChildFirst`; without it `start_stale_url` is the counterexample.

The assumptions on constants are named in the module that declares them, and
TLC evaluates them on the runs. Beside types and bounds they say: a blank field and a missing
key or agent is none of the others (`BlankAssumption`, `KeyAssumption`, `AgentsAssumption`,
`ReadingAssumption`), the lists that come from outside are sequences of records
(`CommandsAssumption`, `ListsAssumption`), and what is said of pids above.

Only model-checked: every liveness property (`EveryTickPublishes`, `RequestsAnswered`, `LatestArrives`,
`SessionEnds`, `QuestionAnswered`, `RunEnds`, `CallsEnd`, `InterfaceSettles`), since fairness and ENABLED are beyond the
prover. Conversely `WaitsForCalls` of the dialog and the refinement `PageHooks` are proved and have no run of their own:
`InterfaceSettles` would find a button that stays disabled, `DetailsAreOfRoute` a hook of another page.

## 7. Where the code and its texts differ

Shown by a run that TLC finds violated:

* `start_stale_url`: the background child empties the log, not the script. When
  it is scheduled late, the script takes the URL of the previous run's tunnel.
* `add_list`: `Servers.tsx:89` says that closing the dialog refreshes the list.
  Nothing does; the new server appears when the page is mounted again.
* `add_test`: the result of a connection test is shown for whatever is typed in
  when the answer arrives, although editing otherwise resets the panel.
* `pages_live`: `apiService.ts:6` promises the types of `mockService`; `/api/metrics` has
  another shape, and the pages that read `snapshot.memory.memory` fail to render it: the
  server page (the trace) and the overview.
* `pill`: `ConnectionPill.tsx:13` reports "what the dashboard is actually reading
  from"; after Save it shows the source of before until something else renders it.

Modelled as the code does it, and named by a property as an exception or kept by
an action, since no text says otherwise:

* `preinstall.sh`: a run stopped while it writes the token leaves an empty file; later runs
  preserve it and print `Token: PASS` (269), and the agent refuses an empty token
  (`DoneMeansReady`, second alternative). An indented `[cors]` header is not seen
  and is appended a second time (third alternative).
* Dashboard: a server that was added and is then loaded has two cards (`Shown`).
* Fallback: it is taken after a timeout or a lost request too, not only for an agent without
  `/api/metrics` (`apiService.ts:192`, `Unanswered`), so an agent that is down costs two timeouts.
* An agent whose host name is the id of a stored server makes two rows of one id
  (`OneServerPerId` excludes it).
* "Previous page" does nothing that can be seen after a refresh has left fewer pages than
  the one that was chosen (`ProcessTable.tsx:199`, `Previous`): it counts down from the page that is gone.
* Save with the live source and a blank URL goes on using the sample data (`Settings.tsx:70`).
* A server that is degraded counts as offline in the overview's order (`Primary`).
* Tabs: the last tab that writes its settings wins (`Preferences`).
* Docker: a container that stopped between the list and its request leaves a sample without the host's
  counter; its next share is divided by all the host counted since it was started, so it is far too small
  (`SharesAreNotOverstated`, last line).
* Palette: an Enter that comes before the effects of a rendering follows the highlight of the rendering
  before; one that comes before the cursor is brought back among the results does nothing (`Enter`).
* Start script: a second `kill` that fails ends the run with no tunnel (`start-server.sh:42`); the next run starts one.
* Dialog: a submit of an earlier opening that completes late closes the new dialog; a name
  that gives the id of a stored server replaces that server (`apiService.ts:331`).
* Docker: one failed ping or list ends the collector until the agent is restarted (`CollectNothing`).
* Disks: `/proc/diskstats` has bare names, and a device listed by its path is not
  found and counts as zero (`Listed`); one that is found again makes the total count all it ever
  moved (`Due`); what a device moved while it was not
  mounted is counted in the first cycle after it is mounted again (`since`).

Two more were met while reading and need no model: `docs/API.md:351` lists a 500
for a collection failure, while a failed collector is logged and its previous
section is served with code 200 (section 3, `CollectErr`); and `docs/API.md:316`
speaks of the monitoring interval for WebSocket pushes, while `websocket.rs:25`
pushes once a second.

## 8. Not modelled

* Authentication and CORS (`api.rs`), start-up and configuration (`main.rs`,
  `config.rs`): fixed before the first request, no state afterwards. What
  start-up refuses is used in `Preinstall`.
* CPU, memory, system, temperature, process and GPU collectors: values copied
  from libraries. In the pipeline they are the nine entries of `Pipeline`. The
  process collector averages each usage with the one before and sorts: floating point only.
* The division of counters by the elapsed time, and floating point generally.
* Landing page, charts, formatting, icons, focus and the keyboard of tabs: presentation.
* Settings that are independent of each other, and columns of a table, beyond one of each kind.
* The exit animation of the palette, during which its rows can still be clicked.
* A panic of the collector task, and a `localStorage` that refuses writes: the
  code has no handling for either.
* Whether the five answers of a fallback are of one publication: an answer carries no
  number, so there is nothing to compare.
