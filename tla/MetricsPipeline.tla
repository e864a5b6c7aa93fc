-------------------------- MODULE MetricsPipeline --------------------------
(***************************************************************************)
(* The collection loop of the agent (agent/src/metrics/mod.rs), the shared *)
(* state it publishes into (agent/src/state.rs) and the REST handlers that *)
(* read it (agent/src/api.rs).                                             *)
(*                                                                         *)
(* One task runs collect_all once per interval tick: it asks each          *)
(* collector in turn, keeps the section of the previous snapshot when a    *)
(* collector fails, writes all sections under the write lock of the        *)
(* snapshot, and only then, under another lock, the collector flags.       *)
(* HTTP requests run concurrently and clone the snapshot under the read    *)
(* lock.                                                                   *)
(*                                                                         *)
(* Data: a section is represented by the cycle in which it was collected   *)
(* (0 is create_initial_snapshot), so that age and origin can be compared. *)
(* Memory and swap come from one collector and travel together.            *)
(***************************************************************************)
EXTENDS Naturals, Sequences

CONSTANTS
  Client,     \* HTTP clients that run concurrently, one request at a time each
  Fallible,   \* collectors whose collect() has an Err path (today: gpu.rs:49,53)
  MaxTicks    \* bound: interval ticks considered

\* The order in which collect_all calls the collectors.
Pipeline == << "cpu", "memory", "disk", "network", "processes",
               "gpu", "docker", "system", "temperature" >>
Stage     == 1 .. 9
Collector == { "cpu", "memory", "disk", "network", "processes",
               "gpu", "docker", "system", "temperature" }
\* CollectorStatus has no field for the system collector.
Flagged   == Collector \ {"system"}

\* The collector task, as it stands in the queue of the snapshot lock.
Writer == "writer"

ASSUME FallibleAssumption == Fallible \subseteq Collector
ASSUME ClientAssumption   == Writer \notin Client
ASSUME MaxTicksAssumption == MaxTicks \in Nat

VARIABLES
  ticks,     \* interval ticks that have elapsed
  cycle,     \* cycles of collect_all that have started
  pc,        \* where the collector task is
  next,      \* the next entry of Pipeline to collect, or to write
  staged,    \* the locals cpu, memory, ... of collect_all
  ok,        \* the collectors that returned Ok in this cycle
  snapshot,  \* MetricsState.snapshot, its sections
  stamp,     \* its timestamp (and last_update): the cycle that published it
  status,    \* MetricsState.collector_status: the flags that are true
  readers,   \* requests that hold the read lock of snapshot
  queue,     \* tasks that wait for the lock of snapshot, first come first served
  reply,     \* the last /api/metrics response of each client
  told       \* the last /api/status response of each client

collectorVars == <<cycle, pc, next, staged, ok, snapshot, stamp, status>>
requestVars   == <<readers, queue, reply, told>>
vars == <<ticks, collectorVars, requestVars>>

\* create_initial_snapshot: no section has been collected.
Initial == [s \in Collector |-> 0]

\* The bodies of the two responses.
MetricsResponse(at, sections) == [stamp |-> at, sections |-> sections]
StatusResponse(flags) == [healthy |-> {"cpu", "memory"} \subseteq flags, flags |-> flags]

Init ==
  /\ ticks = 0
  /\ cycle = 0
  /\ pc = "tick"
  /\ next = 1
  /\ staged = Initial
  /\ ok = {}
  /\ snapshot = Initial
  /\ stamp = 0
  /\ status = {}
  /\ readers = {}
  /\ queue = << >>
  /\ reply = [c \in Client |-> MetricsResponse(0, Initial)]
  /\ told = [c \in Client |-> StatusResponse({})]

-----------------------------------------------------------------------------
(***************************************************************************)
(* The collector task.                                                     *)
(***************************************************************************)

\* The timer. A tick that falls into a running cycle is not lost: the interval
\* keeps tokio's default behaviour for missed ticks, which fires them at once.
Tick ==
  /\ ticks < MaxTicks
  /\ ticks' = ticks + 1
  /\ UNCHANGED <<collectorVars, requestVars>>

StartCycle ==
  /\ pc = "tick"
  /\ cycle < ticks
  /\ cycle' = cycle + 1
  /\ pc' = "collect"
  /\ next' = 1
  /\ ok' = {}
  /\ UNCHANGED <<ticks, staged, snapshot, stamp, status, requestVars>>

\* The next stage of a pass over Pipeline, or what follows the pass.
Advance(done) ==
  IF next = 9 THEN next' = 1 /\ pc' = done
              ELSE next' = next + 1 /\ pc' = pc

\* Faulty variant: a flag is reported as soon as its collector returns.
CollectOkReportsAtOnce ==
  /\ pc = "collect"
  /\ staged' = [staged EXCEPT ![Pipeline[next]] = cycle]
  /\ ok' = ok \cup {Pipeline[next]}
  /\ status' = status \cup ({Pipeline[next]} \cap Flagged)
  /\ Advance("publish")
  /\ UNCHANGED <<ticks, cycle, snapshot, stamp, requestVars>>

CollectOk ==
  /\ pc = "collect"
  /\ staged' = [staged EXCEPT ![Pipeline[next]] = cycle]
  /\ ok' = ok \cup {Pipeline[next]}
  /\ Advance("publish")
  /\ UNCHANGED <<ticks, cycle, snapshot, stamp, status, requestVars>>

\* Faulty variant: a failed collector falls back to the empty default.
CollectErrToDefault ==
  /\ pc = "collect"
  /\ Pipeline[next] \in Fallible
  /\ staged' = [staged EXCEPT ![Pipeline[next]] = 0]
  /\ Advance("publish")
  /\ UNCHANGED <<ticks, cycle, ok, snapshot, stamp, status, requestVars>>

\* A failed collector leaves its flag false and its section as it was: the
\* value is read back from the shared state. That read never waits, because
\* the only task that takes the write lock is this one.
CollectErr ==
  /\ pc = "collect"
  /\ Pipeline[next] \in Fallible
  /\ staged' = [staged EXCEPT ![Pipeline[next]] = snapshot[Pipeline[next]]]
  /\ Advance("publish")
  /\ UNCHANGED <<ticks, cycle, ok, snapshot, stamp, status, requestVars>>

AskWrite ==
  /\ pc = "publish"
  /\ queue' = Append(queue, Writer)
  /\ pc' = "lock"
  /\ UNCHANGED <<ticks, cycle, next, staged, ok, snapshot, stamp, status, readers, reply, told>>

\* Faulty variant: the write lock does not exclude the readers in place.
AcquireWriteShared ==
  /\ pc = "lock"
  /\ queue # << >> /\ Head(queue) = Writer
  /\ queue' = Tail(queue)
  /\ pc' = "write"
  /\ UNCHANGED <<ticks, cycle, next, staged, ok, snapshot, stamp, status, readers, reply, told>>

AcquireWrite ==
  /\ pc = "lock"
  /\ queue # << >> /\ Head(queue) = Writer
  /\ readers = {}
  /\ queue' = Tail(queue)
  /\ pc' = "write"
  /\ UNCHANGED <<ticks, cycle, next, staged, ok, snapshot, stamp, status, readers, reply, told>>

\* The updater closure assigns one section after the other.
WriteSection ==
  /\ pc = "write"
  /\ snapshot' = [snapshot EXCEPT ![Pipeline[next]] = staged[Pipeline[next]]]
  /\ Advance("stamp")
  /\ UNCHANGED <<ticks, cycle, staged, ok, stamp, status, requestVars>>

\* Faulty variant: last_update is also read by the handlers, before they ask
\* for the snapshot, so that its write lock waits for requests that wait.
StampBehindReaders ==
  /\ pc = "stamp"
  /\ queue = << >>
  /\ stamp' = cycle
  /\ pc' = "status"
  /\ UNCHANGED <<ticks, cycle, next, staged, ok, snapshot, status, requestVars>>

\* timestamp, then last_update under its own lock (which nothing else takes),
\* then the write lock is released.
StampAndRelease ==
  /\ pc = "stamp"
  /\ stamp' = cycle
  /\ pc' = "status"
  /\ UNCHANGED <<ticks, cycle, next, staged, ok, snapshot, status, requestVars>>

UpdateStatus ==
  /\ pc = "status"
  /\ status' = ok \cap Flagged
  /\ pc' = "tick"
  /\ UNCHANGED <<ticks, cycle, next, staged, ok, snapshot, stamp, requestVars>>

-----------------------------------------------------------------------------
(***************************************************************************)
(* A REST request: /api/metrics and its sections clone the snapshot under  *)
(* the read lock; /api/status reads the flags, whose lock is never held    *)
(* across a wait.                                                          *)
(***************************************************************************)
WriterHolds == pc \in {"write", "stamp"}
Waiting(c)  == \E i \in DOMAIN queue : queue[i] = c
Idle(c)     == c \notin readers /\ ~ Waiting(c)

AskRead(c) ==
  /\ Idle(c)
  /\ queue' = Append(queue, c)
  /\ UNCHANGED <<ticks, collectorVars, readers, reply, told>>

\* Faulty variant: a read does not wait for the writer to finish.
AcquireReadDirty(c) ==
  /\ queue # << >> /\ Head(queue) = c
  /\ queue' = Tail(queue)
  /\ readers' = readers \cup {c}
  /\ UNCHANGED <<ticks, collectorVars, reply, told>>

\* Faulty variant: a lock that prefers readers to a writer that waits.
AcquireReadBarging(c) ==
  /\ Waiting(c)
  /\ ~ WriterHolds
  /\ queue' = SelectSeq(queue, LAMBDA t : t # c)
  /\ readers' = readers \cup {c}
  /\ UNCHANGED <<ticks, collectorVars, reply, told>>

AcquireRead(c) ==
  /\ queue # << >> /\ Head(queue) = c
  /\ ~ WriterHolds
  /\ queue' = Tail(queue)
  /\ readers' = readers \cup {c}
  /\ UNCHANGED <<ticks, collectorVars, reply, told>>

Respond(c) ==
  /\ c \in readers
  /\ reply' = [reply EXCEPT ![c] = MetricsResponse(stamp, snapshot)]
  /\ readers' = readers \ {c}
  /\ UNCHANGED <<ticks, collectorVars, queue, told>>

GetStatus(c) ==
  /\ Idle(c)
  /\ told' = [told EXCEPT ![c] = StatusResponse(status)]
  /\ UNCHANGED <<ticks, collectorVars, readers, queue, reply>>

-----------------------------------------------------------------------------
CollectorStep ==
  \/ StartCycle
  \/ CollectOk
  \/ CollectErr
  \/ AskWrite
  \/ AcquireWrite
  \/ WriteSection
  \/ StampAndRelease
  \/ UpdateStatus

ReaderStep(c) == AcquireRead(c) \/ Respond(c)

Next ==
  \/ Tick
  \/ CollectorStep
  \/ \E c \in Client : AskRead(c) \/ ReaderStep(c) \/ GetStatus(c)

\* The runtime polls every task that is ready; ticks and requests may stop.
Fairness ==
  /\ WF_vars(CollectorStep)
  /\ \A c \in Client : WF_vars(ReaderStep(c))

Spec     == Init /\ [][Next]_vars
FairSpec == Spec /\ Fairness

-----------------------------------------------------------------------------
TypeOK ==
  /\ ticks \in 0 .. MaxTicks
  /\ cycle \in 0 .. MaxTicks
  /\ pc \in {"tick", "collect", "publish", "lock", "write", "stamp", "status"}
  /\ next \in Stage
  /\ staged \in [Collector -> Nat]
  /\ ok \in SUBSET Collector
  /\ snapshot \in [Collector -> Nat]
  /\ stamp \in Nat
  /\ status \in SUBSET Flagged
  /\ readers \in SUBSET Client
  /\ queue \in Seq(Client \cup {Writer})
  /\ reply \in [Client -> [stamp : Nat, sections : [Collector -> Nat]]]
  /\ told \in [Client -> [healthy : BOOLEAN, flags : SUBSET Flagged]]

\* No response mixes two publications: apart from the sections of collectors
\* that can fail, every section of a response was collected in the cycle its
\* timestamp belongs to, although the sections are written one by one.
ReplyCoherent ==
  \A c \in Client :
    LET r == reply[c] IN
    /\ \A s \in Collector \ Fallible : r.sections[s] = r.stamp
    /\ \A s \in Collector : r.sections[s] <= r.stamp

\* /api/status describes the snapshot that /api/metrics serves: once the cycle
\* has reported, a flag is true exactly when its section was collected in the
\* cycle of the timestamp, and false when the section is a leftover.
StatusAgrees ==
  pc \in {"tick", "collect", "publish", "lock"} =>
    \A s \in Flagged : s \in status <=> stamp > 0 /\ snapshot[s] = stamp

\* A client that was told a collector works and asks for the metrics afterwards
\* is given a section that was really collected, never the placeholder of the
\* initial snapshot: flags become visible after the data they speak of.
ToldThenSeen ==
  [][\A c \in Client : \A s \in told[c].flags :
       reply'[c] # reply[c] => reply'[c].sections[s] > 0]_reply

\* A client that polls never sees a section, or the timestamp, go back.
MonotoneReads ==
  [][\A c \in Client :
       /\ reply'[c].stamp >= reply[c].stamp
       /\ \A s \in Collector : reply'[c].sections[s] >= reply[c].sections[s]]_reply

\* Every tick is answered by a cycle of its own that publishes, however long
\* the cycles before it took and however many requests hold the read lock.
EveryTickPublishes ==
  \A k \in 1 .. MaxTicks : ticks >= k ~> stamp >= k

\* A request that waits for the lock is answered, although cycles keep coming.
RequestsAnswered ==
  \A c \in Client : Waiting(c) ~> Idle(c)

-----------------------------------------------------------------------------
(***************************************************************************)
(* The inductive invariant behind the safety properties.                   *)
(***************************************************************************)

\* The cycle in progress is the one after the last that published.
CycleOrder ==
  /\ cycle <= ticks
  /\ pc \in {"tick", "status"} => stamp = cycle
  /\ pc \notin {"tick", "status"} => cycle = stamp + 1
  /\ pc = "status" => cycle > 0
  /\ pc \notin {"collect", "write"} => next = 1

\* What collect_all holds in a local: a fresh section, or the one in place.
Fetched(s) == staged[s] = IF s \in ok THEN cycle ELSE snapshot[s]

\* The pass over the collectors has handled the stages before next.
CollectProgress ==
  /\ pc = "collect" =>
       \A i \in Stage :
         /\ i < next => /\ Fetched(Pipeline[i])
                        /\ Pipeline[i] \notin ok => Pipeline[i] \in Fallible
         /\ i >= next => Pipeline[i] \notin ok
  /\ pc \in {"publish", "lock"} =>
       \A s \in Collector : Fetched(s) /\ (s \notin ok => s \in Fallible)

\* While the write lock is held no request reads, and the sections before next
\* are the staged ones; the others are not newer than the staged ones.
WriteProgress ==
  /\ WriterHolds => readers = {}
  /\ pc = "write" =>
       \A i \in Stage : i < next => snapshot[Pipeline[i]] = staged[Pipeline[i]]
  /\ pc = "stamp" => snapshot = staged
  /\ WriterHolds =>
       \A s \in Collector : snapshot[s] <= staged[s] /\ staged[s] <= cycle
  /\ WriterHolds =>
       \A s \in Collector : /\ staged[s] = cycle <=> s \in ok
                            /\ s \notin ok => s \in Fallible
  /\ pc = "status" =>
       \A s \in Collector : snapshot[s] = stamp <=> s \in ok

\* A section at rest is as old as the timestamp, or older if it can fail.
SectionAges ==
  ~ WriterHolds =>
    \A s \in Collector : /\ snapshot[s] <= stamp
                         /\ s \notin Fallible => snapshot[s] = stamp

\* Nobody has been shown more than there is.
ReadersBehind ==
  /\ \A s \in status : snapshot[s] > 0
  /\ \A c \in Client :
       /\ reply[c].stamp <= stamp
       /\ \A s \in Collector : reply[c].sections[s] <= snapshot[s]
       /\ \A s \in told[c].flags : snapshot[s] > 0

\* Every reachable state: a publication in progress is invisible, and what has
\* been handed out is never ahead of what is in place.
PipelineInv ==
  /\ TypeOK
  /\ CycleOrder
  /\ CollectProgress
  /\ WriteProgress
  /\ SectionAges
  /\ StatusAgrees
  /\ ReadersBehind
  /\ ReplyCoherent

-----------------------------------------------------------------------------
(***************************************************************************)
(* The pipeline implements AtomicMetrics. A publication takes effect when  *)
(* the collector obtains the write lock: from then until the release the   *)
(* readers, who cannot look, are as good as shown the staged sections.     *)
(***************************************************************************)
Atomic == INSTANCE AtomicMetrics WITH
            Required <- {"cpu", "memory"},
            snapshot <- IF WriterHolds THEN staged ELSE snapshot,
            stamp    <- IF WriterHolds THEN cycle ELSE stamp

\* To its readers the agent is a snapshot that is replaced as a whole.
ImplementsAtomicMetrics == Atomic!Spec
=============================================================================
