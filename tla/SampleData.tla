----------------------------- MODULE SampleData -----------------------------
(***************************************************************************)
(* The sample data source: mockService, whose servers and alerts are kept  *)
(* in the memory of each tab, and the fixtures it answers with.            *)
(*                                                                         *)
(* Every call waits a random time and then runs in one step, so calls of a *)
(* tab overlap and end in any order. Added servers are also written to     *)
(* localStorage, which a tab reads when it is loaded.                      *)
(*                                                                         *)
(* Data: an id is a slug and a number, 0 when the id has none. Figures are *)
(* in permille (load, memory), half GiB (disks) or bytes (rates); random   *)
(* numbers are any, and the same again when they are seeded the same.      *)
(***************************************************************************)
EXTENDS Arrays, SequencesExt

CONSTANTS
  Tab, Name, Slug, MaxAsked,
  Draw    \* the generators of random numbers: seed -> its numbers

\* The seeds of the fixtures, how often they draw, and a number in permille.
Seed     == 0 .. 2500
Turn     == 1 .. 150
Permille == 0 .. 999

ASSUME DrawAssumption == Draw \subseteq [Seed -> [Turn -> Permille]]

Asked == 1 .. MaxAsked

-----------------------------------------------------------------------------
\* The fixtures.
Plain(slug) == <<slug, 0>>

Profiles == <<
  [id |-> Plain("cxr-junior"), online |-> TRUE, alpine |-> FALSE, gpu |-> TRUE, cores |-> 12, threads |-> 24,
   swap |-> 8, disk |-> 1024, diskUsed |-> 130, cpuBias |-> 112, memBias |-> 158, seed |-> 424],
  [id |-> Plain("atlas-edge"), online |-> TRUE, alpine |-> FALSE, gpu |-> FALSE, cores |-> 8, threads |-> 16,
   swap |-> 4, disk |-> 512, diskUsed |-> 287, cpuBias |-> 384, memBias |-> 612, seed |-> 781],
  [id |-> Plain("nyx-relay"), online |-> FALSE, alpine |-> TRUE, gpu |-> FALSE, cores |-> 4, threads |-> 4,
   swap |-> 2, disk |-> 256, diskUsed |-> 31, cpuBias |-> 0, memBias |-> 0, seed |-> 337] >>

Known(i) == \E k \in 1 .. Len(Profiles) : Profiles[k].id = i

\* profileById(id) ?? PROFILES[0]
ProfileOf(i) ==
  IF Known(i) THEN Profiles[CHOOSE k \in 1 .. Len(Profiles) : Profiles[k].id = i] ELSE Profiles[1]

\* seededRandom: a number of the sequence that a seed gives; each figure that is
\* drawn from one sequence has a number of its own.
Rand(d, seed, k) == d[seed][k]

Clamp(v, low, high) == IF v < low THEN low ELSE IF v > high THEN high ELSE v
Percent(part, all)  == (100 * part) \div all

\* base + (rand - share) * amplitude, and no less than low.
Around(base, r, share, amplitude, low, high) ==
  IF r * amplitude + base * 1000 < share * amplitude THEN low
  ELSE Clamp((base * 1000 + r * amplitude - share * amplitude) \div 1000, low, high)

Wave(d, seed, count, base, amplitude, low, high) ==
  [k \in 1 .. count |-> Around(base, Rand(d, seed, k), 500, 2 * amplitude, low, high)]

Zeros(n) == [k \in 1 .. n |-> 0]
SumOf(s) == FoldSeq(LAMBDA x, y : x + y, 0, s)

BuildCpu(d, p) ==
  LET usage == [k \in 1 .. p.threads |-> Around(p.cpuBias, Rand(d, p.seed + 11, k), 350, (19 * p.cpuBias) \div 10, 2, 1000)]
      cores == IF p.online THEN usage ELSE <<>>
      total == IF p.online THEN SumOf(usage) \div p.threads ELSE 0
  IN  [total |-> total, cores |-> cores, load1 |-> (total * p.cores * 152) \div 1000, coreCount |-> p.cores]

BuildMemory(p) ==
  LET used   == IF p.online THEN p.memBias ELSE 0
      cached == IF p.online THEN 586 ELSE 0
  IN  [used |-> used, cached |-> cached, available |-> 1000 - used,
       free |-> IF used + cached > 1000 THEN 0 ELSE 1000 - used - cached,
       swapUsed |-> IF p.memBias > 550 THEN (p.swap * 140) \div 1000 ELSE 0]

Filesystem(mount, total, used) == [mount |-> mount, total |-> total, used |-> used, percent |-> Percent(used, total)]

BuildDisk(p) ==
  << Filesystem("/", 2 * p.disk - 5, 2 * p.diskUsed), Filesystem("/boot", 4, 1), Filesystem("/boot/efi", 1, 0) >>
    \o (IF p.gpu THEN << Filesystem("/var/lib/docker", 512, 176) >> ELSE <<>>)

Iface(name, up, loopback, rx) == [name |-> name, up |-> up, loopback |-> loopback, rx |-> IF up THEN rx ELSE 0]

\* The loopback interface of a server that is offline is up, with a rate of 0.
BuildNetwork(p) ==
  << Iface(IF p.alpine THEN "eth0" ELSE "eno1", p.online, FALSE, (13209 * (p.cpuBias + 44)) \div 110),
     Iface("lo", TRUE, TRUE, IF p.online THEN 2048 ELSE 0) >>
    \o (IF p.gpu THEN << Iface("docker0", p.online, FALSE, 3277), Iface("br-8f2a17c4d0e1", p.online, FALSE, 1126) >> ELSE <<>>)

\* GPU, containers, sensors.
BuildGpu(p)         == p.gpu /\ p.online
BuildDocker(p)      == p.gpu /\ p.online
BuildTemperature(p) == IF ~ p.online THEN 0 ELSE IF p.gpu THEN 6 ELSE 5

\* The processor weights of the thirty processes.
Weights == << 2, 0, 11, 26, 9, 4, 38, 74, 17, 12, 21, 1, 126, 342, 3, 9, 43, 1, 89, 5, 0, 28, 56, 0, 6, 2, 7, 0, 1, 62 >>

ProcessOf(d, p, k) ==
  [pid |-> 300 + (k - 1) * 137 + ((Rand(d, p.seed + 401, 4 * k) * 90) \div 1000),
   cpu |-> (Weights[k] * p.cpuBias * (700 + ((Rand(d, p.seed + 401, 4 * k + 1) * 6) \div 10))) \div 112000]

BuildProcesses(d, p) ==
  LET Busier(x, y) == x.cpu > y.cpu
  IN  IF p.online THEN Sorted([k \in 1 .. Len(Weights) |-> ProcessOf(d, p, k)], Busier) ELSE <<>>

BuildSnapshot(d, i) ==
  LET p == ProfileOf(i)
  IN  [host |-> p.id, cpu |-> BuildCpu(d, p), memory |-> BuildMemory(p), disk |-> BuildDisk(p),
       network |-> BuildNetwork(p), gpu |-> BuildGpu(p), sensors |-> BuildTemperature(p),
       processes |-> BuildProcesses(d, p), docker |-> BuildDocker(p)]

\* What a card shows of a server.
Figures(cpu, cores, memory, root, rx, gpu) ==
  [cpu |-> cpu, cores |-> cores, memory |-> memory, disk |-> root.percent, rx |-> rx, gpu |-> gpu]

\* Faulty variant: the card has the rate of the last interface.
BuildServerByLast(d, p) ==
  Figures(BuildCpu(d, p).total, p.cores, BuildMemory(p).used, BuildDisk(p)[1], Last(BuildNetwork(p)).rx, p.gpu)

BuildServer(d, p) ==
  Figures(BuildCpu(d, p).total, p.cores, BuildMemory(p).used, BuildDisk(p)[1], BuildNetwork(p)[1].rx, p.gpu)

\* snapshotToServer of the live data source: it looks for the root, and for
\* the first interface that is up and not the loopback.
FirstOr(s, Test(_)) == LET hits == Filter(s, Test) IN IF hits = <<>> THEN s[1] ELSE hits[1]

SnapshotToServer(s) ==
  Figures(s.cpu.total, s.cpu.coreCount, s.memory.used, FirstOr(s.disk, LAMBDA f : f.mount = "/"),
          FirstOr(s.network, LAMBDA n : n.up /\ ~ n.loopback).rx, s.gpu)

TimeRanges == << [minutes |-> 5, points |-> 40], [minutes |-> 15, points |-> 50], [minutes |-> 60, points |-> 60],
                 [minutes |-> 360, points |-> 72], [minutes |-> 1440, points |-> 96] >>

\* The chart: milliseconds before now, oldest first, and one of its curves.
BuildSeries(d, i, range) ==
  LET p == ProfileOf(i)
      n == range.points
  IN  [ago |-> [k \in 1 .. n |-> (n - k) * ((range.minutes * 60000) \div n)],
       cpu |-> IF p.online THEN Wave(d, p.seed + range.minutes, n, p.cpuBias, p.cpuBias \div 2, 4, 1000) ELSE Zeros(n)]

MockAlerts == << <<"nyx-relay", "critical", "active">>, <<"atlas-edge", "warning", "active">>,
  <<"atlas-edge", "warning", "acknowledged">>, <<"cxr-junior", "info", "active">>, <<"cxr-junior", "critical", "resolved">>,
  <<"atlas-edge", "warning", "resolved">>, <<"cxr-junior", "info", "resolved">>, <<"nyx-relay", "critical", "resolved">> >>

-----------------------------------------------------------------------------
VARIABLES
  memory,  \* tab -> its servers: id, name, and the profile its figures are of
  alerts,  \* tab -> the servers its alerts are about
  kept,    \* localStorage: the servers that were added
  asked,   \* the calls under way, and those that are over
  added    \* history: the ids that were announced as added, with their names

sample == <<memory, alerts, kept, asked, added>>

SampleServer(i, n, p) == [id |-> i, name |-> n, figures |-> p]
HasId(s, i)     == \E k \in 1 .. Len(s) : s[k].id = i
Without(s, i)   == Filter(s, LAMBDA x : x.id # i)

MockServers == [k \in 1 .. Len(Profiles) |-> SampleServer(Profiles[k].id, Profiles[k].id[1], k)]

AlertServers == {MockAlerts[k][1] : k \in 1 .. Len(MockAlerts)}

\* loadPersistedServers: the stored servers whose id is not there yet.
Loaded ==
  LET new == Filter(kept, LAMBDA s : ~ HasId(MockServers, s.id))
  IN  MockServers \o [k \in 1 .. Len(new) |-> SampleServer(new[k].id, new[k].name, 2)]

NoCall == [op |-> "none", tab |-> "none", name |-> "none", id |-> <<>>]

SampleInit ==
  /\ memory = [t \in Tab |-> MockServers]
  /\ alerts = [t \in Tab |-> AlertServers]
  /\ kept = <<>> /\ added = {}
  /\ asked = [c \in Asked |-> NoCall]

\* A call begins its wait.
AskSample(c) ==
  /\ asked[c].op = "none" /\ (c > 1 => asked[c - 1].op # "none")
  /\ \E t \in Tab :
       \/ \E n \in Name : asked' = [asked EXCEPT ![c] = [op |-> "add", tab |-> t, name |-> n, id |-> <<>>]]
       \/ \E k \in 1 .. Len(memory[t]) :
            asked' = [asked EXCEPT ![c] = [op |-> "remove", tab |-> t, name |-> "none", id |-> memory[t][k].id]]
  /\ UNCHANGED <<memory, alerts, kept, added>>

IdOf(servers, n) ==
  IF HasId(servers, Plain(Slug[n])) THEN <<Slug[n], Len(servers) + 1>> ELSE Plain(Slug[n])

AddSample(c) ==
  LET t == asked[c].tab
      i == IdOf(memory[t], asked[c].name)
  IN  /\ asked[c].op = "add"
      /\ memory' = [memory EXCEPT ![t] = Append(@, SampleServer(i, asked[c].name, 2))]
      /\ kept' = Append(Without(kept, i), [id |-> i, name |-> asked[c].name])
      /\ added' = {a \in added : a.id # i} \cup {[id |-> i, name |-> asked[c].name]}
      /\ asked' = [asked EXCEPT ![c].op = "over"]
      /\ UNCHANGED alerts

\* Faulty variant: the alerts of the server stay.
RemoveServerOnly(c) ==
  LET t == asked[c].tab  i == asked[c].id
  IN  /\ asked[c].op = "remove"
      /\ memory' = [memory EXCEPT ![t] = Without(@, i)]
      /\ kept' = Without(kept, i) /\ added' = {a \in added : a.id # i}
      /\ asked' = [asked EXCEPT ![c].op = "over"]
      /\ UNCHANGED alerts

RemoveSample(c) ==
  LET t == asked[c].tab  i == asked[c].id
  IN  /\ asked[c].op = "remove"
      /\ memory' = [memory EXCEPT ![t] = Without(@, i)]
      /\ alerts' = [alerts EXCEPT ![t] = {a \in @ : Plain(a) # i}]
      /\ kept' = Without(kept, i) /\ added' = {a \in added : a.id # i}
      /\ asked' = [asked EXCEPT ![c].op = "over"]

\* A tab is loaded again; the calls it waited for are gone.
Reload(t) ==
  /\ memory' = [memory EXCEPT ![t] = Loaded]
  /\ alerts' = [alerts EXCEPT ![t] = AlertServers]
  /\ asked' = [c \in Asked |-> IF asked[c].tab = t THEN [asked[c] EXCEPT !.op = "over"] ELSE asked[c]]
  /\ UNCHANGED <<kept, added>>

SampleNext ==
  \/ \E c \in Asked : AskSample(c) \/ AddSample(c) \/ RemoveSample(c)
  \/ \E t \in Tab : Reload(t)

SampleSpec == SampleInit /\ [][SampleNext]_sample

-----------------------------------------------------------------------------
\* Between tabs, overlapping calls and reloads, what was announced as added is
\* in localStorage under its id ("Avoid duplicates by ID", agentConfig.ts:125),
\* so that a tab that is loaded now lists it, and no alert is about a server
\* that its tab does not list (mockService.ts:161).
SampleKept ==
  /\ \A k, l \in 1 .. Len(kept) : kept[k].id = kept[l].id => k = l
  /\ added = Elements(kept)
  /\ \A t \in Tab : \A a \in alerts[t] : HasId(memory[t], Plain(a))

\* The types, with the ids there can be: of a fixture, of a name, or of a name
\* with a number.
SampleIds   == ({Profiles[k].id[1] : k \in 1 .. Len(Profiles)} \cup {Slug[n] : n \in Name}) \X Nat
SampleNames == {Profiles[k].id[1] : k \in 1 .. Len(Profiles)} \cup Name
Listed      == [id : SampleIds, name : SampleNames, figures : 1 .. Len(Profiles)]
Keeping     == [id : SampleIds, name : Name]
SampleCall  ==
  [op : {"none", "add", "remove", "over"}, tab : Tab \cup {"none"}, name : Name \cup {"none"},
   id : SampleIds \cup {<<>>}]

CallTypes ==
  /\ asked \in [Asked -> SampleCall]
  /\ \A c \in Asked :
       /\ asked[c].op \in {"add", "remove"} => asked[c].tab \in Tab
       /\ asked[c].op = "add" => asked[c].name \in Name

SampleTypes ==
  /\ memory \in [Tab -> Seq(Listed)] /\ kept \in Seq(Keeping)
  /\ alerts \in [Tab -> SUBSET AlertServers]
  /\ CallTypes

\* What holds of the fixtures, whatever the random numbers.
InOrder(list) ==
  \A i, j \in 1 .. Len(list) : i < j => list[i].pid # list[j].pid /\ list[i].cpu >= list[j].cpu

EndsNow(chart, online) ==
  /\ chart.ago[Len(chart.ago)] = 0 /\ \A i \in 1 .. Len(chart.ago) - 1 : chart.ago[i] > chart.ago[i + 1]
  /\ \A i \in 1 .. Len(chart.cpu) : IF online THEN chart.cpu[i] \in 4 .. 1000 ELSE chart.cpu[i] = 0

FixturesAgree ==
  \A d \in Draw : \A k \in 1 .. Len(Profiles) :
    LET p == Profiles[k]  s == BuildSnapshot(d, p.id) IN
      /\ SnapshotToServer(s) = BuildServer(d, p)
      /\ InOrder(s.processes)
      /\ \A r \in 1 .. Len(TimeRanges) : EndsNow(BuildSeries(d, p.id, TimeRanges[r]), p.online)

\* The figures of a fixture are those of its profile in every tab, whatever was
\* added and removed: an added server may have the id of one that was removed.
CardsAgree ==
  \A t \in Tab : \A k \in 1 .. Len(memory[t]) :
    LET s == memory[t][k] IN Known(s.id) /\ s.name \notin Name => Profiles[s.figures] = ProfileOf(s.id)

\* The inductive invariant.
SampleInv == SampleTypes /\ SampleKept /\ CardsAgree
=============================================================================
