-------------------------- MODULE DockerCollector --------------------------
(***************************************************************************)
(* The Docker collector (agent/src/metrics/docker.rs): a ping or a list    *)
(* that fails ends it, and the share of the processors of a container is   *)
(* the quotient of two differences to its last sample. The list and the    *)
(* figures of each container are requests of their own, so a container may *)
(* stop or start in between: one that stopped is answered without the      *)
(* counter of the host, which is then taken for zero. A container that is  *)
(* started again begins to count at zero.                                  *)
(*                                                                         *)
(* Memory and traffic are handed on and left out.                          *)
(***************************************************************************)
EXTENDS Counters

CONSTANTS
  Container,
  MaxSystem   \* bound: the counter of the host, of all its processors

VARIABLES
  available,
  running,    \* the containers that run
  todo,       \* the containers listed as running whose figures are not asked for yet
  cpu,        \* container -> its counter
  host,       \* system_cpu_usage
  sample,     \* prev_stats: container -> its last sample, NoSample for none
  percent,    \* container -> the two differences of the last cycle, or NoFigure
  used,       \* history: container -> what it used since its last sample
  passed      \* history: container -> what the host counted since its last sample

dockerVars == <<available, running, todo, cpu, host, sample, percent, used, passed>>

NoSample == [cpu |-> 0, host |-> 0, is |-> FALSE]
NoFigure == [cpu |-> 0, host |-> 0, is |-> FALSE]
Zero     == [c \in Container |-> 0]

\* A client that could not be made leaves available FALSE.
DockerInit ==
  /\ available \in BOOLEAN /\ running = {} /\ todo = {}
  /\ cpu = Zero /\ host = 0
  /\ sample = [c \in Container |-> NoSample] /\ percent = [c \in Container |-> NoFigure]
  /\ used = Zero /\ passed = Zero

-----------------------------------------------------------------------------
\* A processor spends time, on a container or not; the host counts it.
Spend ==
  /\ host < MaxSystem /\ host' = host + 1
  /\ passed' = [c \in Container |-> passed[c] + 1]
  /\ \/ \E c \in running : /\ cpu' = [cpu EXCEPT ![c] = @ + 1]
                           /\ used' = [used EXCEPT ![c] = @ + 1]
     \/ UNCHANGED <<cpu, used>>
  /\ UNCHANGED <<available, running, todo, sample, percent>>

StartOrStop ==
  /\ \/ \E c \in running : running' = running \ {c} /\ UNCHANGED cpu
     \/ \E c \in Container \ running :
          running' = running \cup {c} /\ cpu' = [cpu EXCEPT ![c] = 0]
  /\ UNCHANGED <<available, todo, host, sample, percent, used, passed>>

\* The daemon does not answer the ping, or the list; or it did not before.
CollectNothing ==
  /\ todo = {} /\ available' = FALSE
  /\ percent' = [c \in Container |-> NoFigure]
  /\ UNCHANGED <<running, todo, cpu, host, sample, used, passed>>

\* The state of a container is that of the list.
ListContainers ==
  /\ available /\ todo = {} /\ todo' = running
  /\ percent' = [c \in Container |-> NoFigure]
  /\ UNCHANGED <<available, running, cpu, host, sample, used, passed>>

\* One that stopped meanwhile is answered without the counter of the host
\* (unwrap_or(0)), with its last counter or none.
Answers(c) ==
  IF c \in running THEN {[cpu |-> cpu[c], host |-> host]}
                   ELSE {[cpu |-> n, host |-> 0] : n \in {0, cpu[c]}}

Quotient(now, prev) ==
  LET cpu_delta == Monus(now.cpu, prev.cpu)  system_delta == Monus(now.host, prev.host)
  IN  IF prev.is /\ cpu_delta > 0 /\ system_delta > 0
        THEN [cpu |-> cpu_delta, host |-> system_delta, is |-> TRUE] ELSE NoFigure

\* Faulty variant: a sample without a figure is not recorded.
SampledIfFigure(now, prev) ==
  IF prev.is /\ ~ Quotient(now, prev).is THEN prev ELSE [cpu |-> now.cpu, host |-> now.host, is |-> TRUE]

\* The sample is recorded with and without a figure.
Sampled(now, prev) == [cpu |-> now.cpu, host |-> now.host, is |-> TRUE]

StatsAnswered(c) ==
  /\ c \in todo /\ todo' = todo \ {c}
  /\ \E now \in Answers(c) :
       /\ percent' = [percent EXCEPT ![c] = Quotient(now, sample[c])]
       /\ sample' = [sample EXCEPT ![c] = Sampled(now, @)]
  /\ used' = [used EXCEPT ![c] = 0] /\ passed' = [passed EXCEPT ![c] = 0]
  /\ UNCHANGED <<available, running, cpu, host>>

StatsFailed(c) ==
  /\ c \in todo /\ todo' = todo \ {c}
  /\ UNCHANGED <<available, running, cpu, host, sample, percent, used, passed>>

DockerNext ==
  \/ Spend \/ StartOrStop \/ CollectNothing \/ ListContainers
  \/ \E c \in Container : StatsAnswered(c) \/ StatsFailed(c)

DockerSpec == DockerInit /\ [][DockerNext]_dockerVars

-----------------------------------------------------------------------------
\* The counter of a container that runs differs from its sample by what was used
\* since, or by less when it was started again; the host's by what passed, unless
\* the sample is without it.
SampleInv ==
  /\ host \in Nat /\ running \subseteq Container /\ todo \subseteq Container
  /\ cpu \in [Container -> Nat] /\ used \in [Container -> Nat] /\ passed \in [Container -> Nat]
  /\ sample \in [Container -> [cpu : Nat, host : Nat, is : BOOLEAN]]
  /\ percent \in [Container -> [cpu : Nat, host : Nat, is : BOOLEAN]]
  /\ \A c \in Container :
       /\ used[c] <= passed[c] /\ passed[c] <= host
       /\ sample[c].is /\ c \in running => cpu[c] <= sample[c].cpu + used[c]
       /\ sample[c].host > 0 => host = sample[c].host + passed[c]

\* A share is never overstated: it counts no more than what the container used
\* since its last sample, of no less than what the host counted since then,
\* whatever failed, stopped or was started again in between. It is exactly of
\* that stretch of time, unless the container had stopped between the list and
\* the request of the last sample: then it is of all the host counted since boot.
SharesAreNotOverstated ==
  [][\A c \in Container : StatsAnswered(c) /\ percent'[c].is =>
       /\ percent'[c].cpu <= used[c] /\ used[c] <= percent'[c].host
       /\ percent'[c].host = (IF sample[c].host > 0 THEN passed[c] ELSE host)]_dockerVars
=============================================================================
