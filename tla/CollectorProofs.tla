--------------------------- MODULE CollectorProofs ---------------------------
(***************************************************************************)
(* Proofs about the collectors: the rates of the network interfaces, for any*)
(* finite set of them, the samples of Docker, for any set of containers, and*)
(* the total of the disks, for any devices and any list of mounts.          *)
(***************************************************************************)
EXTENDS NetworkRates, DiskRates, DockerCollector,
        FiniteSetTheorems, SequenceTheorems, WellFoundedInduction, TLAPS

-----------------------------------------------------------------------------
(***************************************************************************)
(* NetworkRates.                                                           *)
(***************************************************************************)

LEMMA InitRates == Init => RatesInv
  BY BoundsAssumption DEF Init, RatesInv, TypeOK

\* After a cycle the stored value of every interface that exists is its counter.
LEMMA CycleRates ==
  ASSUME RatesInv, Record \/ (up = {} /\ UNCHANGED <<known, prev>>), NextCycle,
         first_run' \in BOOLEAN
  PROVE  RatesInv'
<1>1. up' = up /\ steady' = up /\ count' = count /\ moved' = [i \in Iface |-> 0]
  BY DEF NextCycle
<1>2. known' \in SUBSET Iface /\ up \subseteq known'
  BY DEF RatesInv, TypeOK, Record
<1>3. prev' \in [Iface -> 0 .. MaxCount] /\ \A i \in up : prev'[i] = count[i]
  BY DEF RatesInv, TypeOK, Record
<1>4. moved' \in [Iface -> 0 .. MaxMoved]
  BY <1>1, BoundsAssumption
<1>5. TypeOK'
  BY <1>1, <1>2, <1>3, <1>4 DEF RatesInv, TypeOK
<1>6. \A i \in up : count[i] = prev'[i] + moved'[i]
  BY <1>1, <1>3, BoundsAssumption DEF RatesInv, TypeOK
<1>7. QED
  BY <1>1, <1>2, <1>5, <1>6 DEF RatesInv

LEMMA NextRates == RatesInv /\ [Next]_vars => RatesInv'
<1> SUFFICES ASSUME RatesInv, [Next]_vars
             PROVE  RatesInv'
  OBVIOUS
<1>1. ASSUME NEW i \in Iface, Traffic(i)
      PROVE  RatesInv'
  BY <1>1, BoundsAssumption DEF Traffic, RatesInv, TypeOK, collector
<1>2. ASSUME NEW i \in Iface, Unplug(i)
      PROVE  RatesInv'
  BY <1>2 DEF Unplug, RatesInv, TypeOK, collector
<1>3. ASSUME NEW i \in Iface, Plug(i)
      PROVE  RatesInv'
  BY <1>3, BoundsAssumption DEF Plug, RatesInv, TypeOK, collector
<1>4. CASE Cycle
  BY <1>4, CycleRates DEF Cycle, Collect, CollectNone, RatesInv, TypeOK
<1>5. CASE UNCHANGED vars
  BY <1>5 DEF vars, kernel, collector, RatesInv, TypeOK
<1>6. QED
  BY <1>1, <1>2, <1>3, <1>4, <1>5 DEF Next

\* Stored values and counters agree in every reachable state: for interfaces
\* that stayed the difference is what moved, for those that came back the whole
\* counter is at most what moved.
THEOREM RatesInvariant == Spec => []RatesInv
<1>1. Init => RatesInv
  BY InitRates
<1>2. RatesInv /\ [Next]_vars => RatesInv'
  BY NextRates
<1>3. QED
  BY <1>1, <1>2, PTL DEF Spec

\* What one rate is computed from.
LEMMA SinceBound ==
  ASSUME RatesInv, NEW i \in up
  PROVE  /\ Since(i) \in Nat /\ Since(i) <= moved[i]
         /\ i \in steady => Since(i) = moved[i]
<1>1. count[i] \in Nat /\ prev[i] \in Nat /\ moved[i] \in Nat
  BY BoundsAssumption DEF RatesInv, TypeOK
<1>2. CASE i \in steady
  BY <1>1, <1>2 DEF RatesInv, Since
<1>3. CASE i \notin steady
  BY <1>1, <1>3 DEF RatesInv, Since
<1>4. QED
  BY <1>2, <1>3

\* A rate never counts more than moved in its cycle (network.rs:74, the
\* saturating difference), however interfaces come and go.
THEOREM NotOverstated == Spec => NeverOverstated
<1>1. RatesInv /\ Cycle => \A i \in DOMAIN rates' : rates'[i] <= moved[i]
  <2> SUFFICES ASSUME RatesInv, Cycle, NEW i \in DOMAIN rates'
               PROVE  rates'[i] <= moved[i]
    OBVIOUS
  <2>1. i \in up /\ (rates'[i] = 0 \/ rates'[i] = Since(i))
    BY DEF Cycle, Collect, CollectNone
  <2>2. moved[i] \in Nat
    BY <2>1, BoundsAssumption DEF RatesInv, TypeOK
  <2>3. QED
    BY <2>1, <2>2, SinceBound
<1>2. QED
  BY <1>1, RatesInvariant, PTL DEF NeverOverstated

\* In the first cycle that finds interfaces at most one goes without a rate
\* (network.rs:71-80), and from then on none that stays does.
THEOREM ExactRates == Spec => ExactWhenSteady
<1> DEFINE Wrong == {i \in steady : rates'[i] # moved[i]}
<1>1. RatesInv /\ Cycle => Cardinality(Wrong) <= (IF first_run THEN 1 ELSE 0)
  <2> SUFFICES ASSUME RatesInv, Cycle
               PROVE  Cardinality(Wrong) <= (IF first_run THEN 1 ELSE 0)
    OBVIOUS
  <2>1. CASE CollectNone
    <3>1. Wrong = {}
      BY <2>1 DEF CollectNone, RatesInv
    <3>2. QED
      BY <3>1, FS_EmptySet
  <2>2. CASE Collect
    <3>1. PICK first \in up :
            rates' = [i \in up |-> IF first_run /\ i = first THEN 0 ELSE Since(i)]
      BY <2>2 DEF Collect
    <3>2. Wrong \subseteq {first} /\ (~ first_run => Wrong = {})
      BY <3>1, SinceBound DEF RatesInv
    <3>3. IsFiniteSet({first}) /\ Cardinality({first}) = 1
      BY FS_Singleton
    <3>4. IsFiniteSet(Wrong) /\ Cardinality(Wrong) <= 1
      BY <3>2, <3>3, FS_Subset
    <3>5. Cardinality({}) = 0
      BY FS_EmptySet
    <3>6. QED
      BY <3>2, <3>4, <3>5
  <2>3. QED
    BY <2>1, <2>2 DEF Cycle
<1>2. QED
  BY <1>1, RatesInvariant, PTL DEF ExactWhenSteady

-----------------------------------------------------------------------------
(***************************************************************************)
(* DockerCollector.                                                        *)
(***************************************************************************)

LEMMA InitSamples == DockerInit => SampleInv
  BY DEF DockerInit, SampleInv, Zero, NoSample, NoFigure

LEMMA NextSamples == SampleInv /\ [DockerNext]_dockerVars => SampleInv'
<1> SUFFICES ASSUME SampleInv, [DockerNext]_dockerVars
             PROVE  SampleInv'
  OBVIOUS
<1>1. CASE Spend
  <2>1. /\ host' = host + 1 /\ UNCHANGED <<running, todo, sample, percent>>
        /\ \A c \in Container : passed'[c] = passed[c] + 1
    BY <1>1 DEF Spend
  <2>2. /\ cpu' \in [Container -> Nat] /\ used' \in [Container -> Nat]
        /\ \A c \in Container : \/ cpu'[c] = cpu[c] /\ used'[c] = used[c]
                                \/ cpu'[c] = cpu[c] + 1 /\ used'[c] = used[c] + 1
    <3>1. /\ cpu \in [Container -> Nat] /\ used \in [Container -> Nat]
          /\ running \subseteq Container
      BY DEF SampleInv
    <3>2. CASE UNCHANGED <<cpu, used>>
      BY <3>1, <3>2
    <3>3. ASSUME NEW d \in running,
                 cpu' = [cpu EXCEPT ![d] = @ + 1], used' = [used EXCEPT ![d] = @ + 1]
          PROVE  /\ cpu' \in [Container -> Nat] /\ used' \in [Container -> Nat]
                 /\ \A c \in Container : \/ cpu'[c] = cpu[c] /\ used'[c] = used[c]
                                         \/ cpu'[c] = cpu[c] + 1 /\ used'[c] = used[c] + 1
      BY <3>1, <3>3
    <3>4. QED
      BY <1>1, <3>2, <3>3 DEF Spend
  <2>3. passed' \in [Container -> Nat]
    BY <1>1 DEF Spend, SampleInv
  <2>4. ASSUME NEW c \in Container
        PROVE  /\ used'[c] <= passed'[c] /\ passed'[c] <= host'
               /\ sample'[c].is /\ c \in running' => cpu'[c] <= sample'[c].cpu + used'[c]
               /\ sample'[c].host > 0 => host' = sample'[c].host + passed'[c]
    <3>1. /\ host \in Nat /\ cpu[c] \in Nat /\ used[c] \in Nat /\ passed[c] \in Nat
          /\ sample[c].cpu \in Nat /\ sample[c].host \in Nat
          /\ used[c] <= passed[c] /\ passed[c] <= host
          /\ sample[c].is /\ c \in running => cpu[c] <= sample[c].cpu + used[c]
          /\ sample[c].host > 0 => host = sample[c].host + passed[c]
      BY DEF SampleInv
    <3>2. QED
      BY <2>1, <2>2, <3>1
  <2>5. QED
    BY <2>1, <2>2, <2>3, <2>4 DEF SampleInv
<1>2. CASE StartOrStop
  <2>1. UNCHANGED <<todo, host, sample, percent, used, passed>>
    BY <1>2 DEF StartOrStop
  <2>2. \/ running' \subseteq running /\ cpu' = cpu
        \/ \E c \in Container : running' = running \cup {c} /\ cpu' = [cpu EXCEPT ![c] = 0]
    BY <1>2 DEF StartOrStop
  <2>3. /\ cpu' \in [Container -> Nat]
        /\ \A c \in Container : \/ cpu'[c] = 0
                                \/ cpu'[c] = cpu[c] /\ (c \in running' => c \in running)
    <3>1. cpu \in [Container -> Nat]
      BY DEF SampleInv
    <3>2. ASSUME NEW d \in Container, running' = running \cup {d}, cpu' = [cpu EXCEPT ![d] = 0]
          PROVE  /\ cpu' \in [Container -> Nat]
                 /\ \A c \in Container : \/ cpu'[c] = 0
                                         \/ cpu'[c] = cpu[c] /\ (c \in running' => c \in running)
      BY <3>1, <3>2
    <3>3. QED
      BY <2>2, <3>1, <3>2
  <2>4. running' \subseteq Container
    BY <2>2 DEF SampleInv
  <2>5. ASSUME NEW c \in Container, sample'[c].is, c \in running'
        PROVE  cpu'[c] <= sample'[c].cpu + used'[c]
    <3>1. sample[c].cpu \in Nat /\ used[c] \in Nat
      BY DEF SampleInv
    <3>2. CASE cpu'[c] = 0
      BY <2>1, <3>1, <3>2
    <3>3. CASE cpu'[c] = cpu[c] /\ c \in running
      BY <2>1, <2>5, <3>3 DEF SampleInv
    <3>4. QED
      BY <2>3, <2>5, <3>2, <3>3
  <2>6. QED
    BY <2>1, <2>3, <2>4, <2>5 DEF SampleInv
<1>3. CASE ListContainers \/ CollectNothing
  <2>1. /\ UNCHANGED <<running, cpu, host, sample, used, passed>>
        /\ todo' = running \/ todo' = todo
        /\ percent' = [c \in Container |-> NoFigure]
    BY <1>3 DEF ListContainers, CollectNothing
  <2>2. QED
    BY <2>1 DEF SampleInv, NoFigure
<1>4. ASSUME NEW c \in Container, StatsAnswered(c)
      PROVE  SampleInv'
  <2>1. UNCHANGED <<running, cpu, host>> /\ todo' \subseteq todo
    BY <1>4 DEF StatsAnswered
  <2>2. PICK now \in Answers(c) : /\ sample' = [sample EXCEPT ![c] = Sampled(now, @)]
                                  /\ percent' = [percent EXCEPT ![c] = Quotient(now, sample[c])]
    BY <1>4 DEF StatsAnswered
  <2>3. used' = [used EXCEPT ![c] = 0] /\ passed' = [passed EXCEPT ![c] = 0]
    BY <1>4 DEF StatsAnswered
  <2>4. /\ now.cpu \in Nat /\ now.host \in {0, host}
        /\ c \in running => now.cpu = cpu[c]
    BY DEF Answers, SampleInv
  <2>5. /\ sample' \in [Container -> [cpu : Nat, host : Nat, is : BOOLEAN]]
        /\ sample'[c].cpu = now.cpu /\ sample'[c].host = now.host
        /\ \A d \in Container \ {c} : sample'[d] = sample[d]
    BY <2>2, <2>4 DEF SampleInv, Sampled
  <2>6. /\ used' \in [Container -> Nat] /\ passed' \in [Container -> Nat]
        /\ used'[c] = 0 /\ passed'[c] = 0
        /\ \A d \in Container \ {c} : used'[d] = used[d] /\ passed'[d] = passed[d]
    BY <2>3 DEF SampleInv
  <2>7. percent' \in [Container -> [cpu : Nat, host : Nat, is : BOOLEAN]]
    <3>1. Quotient(now, sample[c]) \in [cpu : Nat, host : Nat, is : BOOLEAN]
      <4>1. /\ Monus(now.cpu, sample[c].cpu) \in Nat
            /\ Monus(now.host, sample[c].host) \in Nat
        BY <2>4 DEF Monus, SampleInv
      <4>2. QED
        BY <4>1 DEF Quotient, NoFigure
    <3>2. QED
      BY <2>2, <3>1 DEF SampleInv
  <2>8. QED
    BY <2>1, <2>4, <2>5, <2>6, <2>7 DEF SampleInv
<1>5. ASSUME NEW c \in Container, StatsFailed(c)
      PROVE  SampleInv'
  BY <1>5 DEF StatsFailed, SampleInv
<1>6. CASE UNCHANGED dockerVars
  BY <1>6 DEF dockerVars, SampleInv
<1>7. QED
  BY <1>1, <1>2, <1>3, <1>4, <1>5, <1>6 DEF DockerNext

\* Whatever requests failed and whatever stopped or was started again, a sample
\* and the counters agree with what passed since it was taken.
THEOREM SampleInvariant == DockerSpec => []SampleInv
<1>1. DockerInit => SampleInv
  BY InitSamples
<1>2. SampleInv /\ [DockerNext]_dockerVars => SampleInv'
  BY NextSamples
<1>3. QED
  BY <1>1, <1>2, PTL DEF DockerSpec

\* A share of a container never counts more than it used since its last sample,
\* of no less than the host counted since then.
THEOREM NoShareOverstated == DockerSpec => SharesAreNotOverstated
<1> DEFINE Right(c) ==
      /\ percent'[c].cpu <= used[c] /\ used[c] <= percent'[c].host
      /\ percent'[c].host = (IF sample[c].host > 0 THEN passed[c] ELSE host)
<1>1. ASSUME SampleInv, NEW c \in Container, StatsAnswered(c), percent'[c].is
      PROVE  Right(c)
  <2>1. PICK now \in Answers(c) : percent' = [percent EXCEPT ![c] = Quotient(now, sample[c])]
    BY <1>1 DEF StatsAnswered
  <2>2. percent'[c] = Quotient(now, sample[c])
    BY <2>1, <1>1 DEF SampleInv
  <2>3. /\ sample[c].is /\ Monus(now.host, sample[c].host) > 0
        /\ percent'[c].cpu = Monus(now.cpu, sample[c].cpu)
        /\ percent'[c].host = Monus(now.host, sample[c].host)
    BY <1>1, <2>2 DEF Quotient, NoFigure
  <2>4. /\ host \in Nat /\ cpu[c] \in Nat /\ used[c] \in Nat /\ passed[c] \in Nat
        /\ sample[c].cpu \in Nat /\ sample[c].host \in Nat
        /\ used[c] <= passed[c] /\ passed[c] <= host
        /\ c \in running => cpu[c] <= sample[c].cpu + used[c]
        /\ sample[c].host > 0 => host = sample[c].host + passed[c]
    BY <1>1, <2>3 DEF SampleInv
  <2>5. c \in running /\ now.cpu = cpu[c] /\ now.host = host
    BY <2>3, <2>4 DEF Answers, Monus
  <2>6. QED
    BY <2>3, <2>4, <2>5 DEF Monus
<1>2. SampleInv /\ [DockerNext]_dockerVars =>
        [\A c \in Container : StatsAnswered(c) /\ percent'[c].is => Right(c)]_dockerVars
  BY <1>1
<1>3. QED
  BY <1>2, SampleInvariant, PTL DEF DockerSpec, SharesAreNotOverstated

-----------------------------------------------------------------------------
(***************************************************************************)
(* DiskRates. The loop over the mounts is a recursive function; what it has*)
(* after n mounts is proved by induction over n, with the property as a set*)
(* of numbers.                                                             *)
(***************************************************************************)

\* A set of natural numbers has a least element.
LEMMA LeastNumber ==
  ASSUME NEW T \in SUBSET Nat, T # {}
  PROVE  \E m \in T : \A k \in T : ~ (k < m)
<1> DEFINE R == OpToRel(<, Nat)
<1>1. \E x \in T : \A y \in T : ~ (<<y, x>> \in R)
  BY NatLessThanWellFounded, WFMin
<1>2. R = {e \in Nat \X Nat : e[1] < e[2]}
  BY DEF OpToRel
<1> HIDE DEF R
<1>3. \A x, y \in T : y < x => <<y, x>> \in R
  BY <1>2
<1>4. QED
  BY <1>1, <1>3

\* A set that has 0, and with each number below N the next one, has them all:
\* the least number it does not have would have a predecessor that it has.
LEMMA Induction ==
  ASSUME NEW N \in Nat, NEW S, 0 \in S, \A n \in 0 .. N : n # N /\ n \in S => n + 1 \in S
  PROVE  0 .. N \subseteq S
<1> DEFINE T == (0 .. N) \ S
<1>1. SUFFICES ASSUME T # {}
               PROVE  FALSE
  OBVIOUS
<1>2. T \in SUBSET Nat
  OBVIOUS
<1> HIDE DEF T
<1>3. PICK m \in T : \A k \in T : ~ (k < m)
  BY <1>1, <1>2, LeastNumber
<1> USE DEF T
<1>4. m \in 0 .. N /\ m # 0
  BY <1>3
<1>5. m - 1 \in 0 .. N /\ m - 1 # N /\ (m - 1) + 1 = m /\ m - 1 < m
  BY <1>4
<1>6. m - 1 \in S
  BY <1>3, <1>5
<1>7. m \in S
  BY <1>5, <1>6
<1>8. QED
  BY <1>3, <1>7

\* The loop is a function that satisfies its recursion: the values of the first
\* mounts can be extended by one.
LEMMA LoopDef ==
  ASSUME DiskInv, NEW found
  PROVE  /\ DOMAIN Loop(found) = 0 .. Len(mounts)
         /\ Loop(found)[0] = [total |-> 0, seen |-> recorded, prev |-> prev_io]
         /\ \A n \in 1 .. Len(mounts) :
              Loop(found)[n] = Visit(Loop(found)[n - 1], mounts[n], Now(found, mounts[n]))
<1> DEFINE zero       == [total |-> 0, seen |-> recorded, prev |-> prev_io]
           step(f, k) == Visit(f[k - 1], mounts[k], Now(found, mounts[k]))
           Is(f, n)   == f = [k \in 0 .. n |-> IF k = 0 THEN zero ELSE step(f, k)]
           Defined    == {n \in 0 .. Len(mounts) : \E f : Is(f, n)}
<1>1. Len(mounts) \in Nat
  BY DEF DiskInv
<1>2. 0 \in Defined
  <2>1. Is([k \in 0 .. 0 |-> zero], 0)
    OBVIOUS
  <2>2. \E f : Is(f, 0)
    BY <2>1
  <2>3. QED
    BY <1>1, <2>2
<1>3. ASSUME NEW m \in 0 .. Len(mounts), m # Len(mounts), m \in Defined
      PROVE  m + 1 \in Defined
  <2> DEFINE n == m + 1
  <2>1. m \in Nat /\ n \in Nat /\ n # 0 /\ n - 1 = m /\ n \in 0 .. Len(mounts)
    BY <1>1, <1>3
  <2>2. PICK f : Is(f, m)
    BY <1>3
  <2> HIDE DEF n
  <2> DEFINE g == [k \in 0 .. n |-> IF k < n THEN f[k] ELSE step(f, n)]
  <2>3. \A k \in 0 .. m : g[k] = f[k] /\ f[k] = IF k = 0 THEN zero ELSE step(f, k)
    BY <2>1, <2>2
  <2>4. \A k \in 1 .. n : step(g, k) = step(f, k)
    <3> SUFFICES ASSUME NEW k \in 1 .. n
                 PROVE  g[k - 1] = f[k - 1]
      OBVIOUS
    <3>1. k - 1 \in 0 .. m
      BY <2>1
    <3>2. QED
      BY <2>3, <3>1
  <2> HIDE DEF step
  <2>5. \A k \in 0 .. n : g[k] = IF k = 0 THEN zero ELSE step(g, k)
    <3>1. g[n] = step(f, n) /\ step(f, n) = step(g, n)
      BY <2>1, <2>4
    <3> HIDE DEF g
    <3>2. \A k \in 1 .. m : g[k] = step(g, k)
      BY <2>1, <2>3, <2>4
    <3>3. g[0] = zero
      BY <2>1, <2>3
    <3>4. QED
      BY <2>1, <3>1, <3>2, <3>3
  <2> DEFINE h == [k \in 0 .. n |-> IF k = 0 THEN zero ELSE step(g, k)]
  <2>6. g = h
    BY <2>5
  <2>7. \E e : Is(e, n)
    BY <2>6
  <2>8. QED
    BY <2>1, <2>7 DEF n
<1>4. Len(mounts) \in Defined
  <2> HIDE DEF Defined
  <2>1. 0 .. Len(mounts) \subseteq Defined
    BY <1>1, <1>2, <1>3, Induction
  <2>2. QED
    BY <1>1, <2>1
<1>5. Is(Loop(found), Len(mounts))
  BY <1>4 DEF Loop
<1>6. QED
  BY <1>1, <1>5

\* The numbers that Due(d) counts.
LEMMA DueSize ==
  ASSUME DiskInv, NEW d \in Device
  PROVE  /\ IsFiniteSet(Due(d))
         /\ Cardinality(Due(d)) = IF d \in missed THEN counter[d] ELSE since[d]
<1> DEFINE size == IF d \in missed THEN counter[d] ELSE since[d]
<1>1. size \in Nat
  BY DEF DiskInv
<1>2. IsFiniteSet({d}) /\ Cardinality({d}) = 1
  BY FS_Singleton
<1>3. Due(d) = {d} \X (1 .. size)
  BY DEF Due
<1> HIDE DEF size
<1>4. IsFiniteSet(1 .. size) /\ Cardinality(1 .. size) = IF 1 > size THEN 0 ELSE size - 1 + 1
  BY <1>1, FS_Interval
<1>5. Cardinality(1 .. size) = size
  BY <1>1, <1>4
<1>6. IsFiniteSet(Due(d)) /\ Cardinality(Due(d)) = Cardinality({d}) * Cardinality(1 .. size)
  BY <1>2, <1>3, <1>4, FS_Product
<1>7. Cardinality(Due(d)) = size
  BY <1>1, <1>2, <1>5, <1>6
<1>8. QED
  BY <1>6, <1>7 DEF size

\* What a device that is recorded and found differs by from its value: what Due counts.
LEMMA DiskDifference ==
  ASSUME DiskInv, NEW d \in recorded
  PROVE  /\ Monus(counter[d], prev_io[d]) = IF d \in missed THEN counter[d] ELSE since[d]
         /\ Monus(0, prev_io[d]) = 0
  BY DEF DiskInv, Monus

\* What the loop has after n mounts.
LEMMA LoopIs ==
  ASSUME DiskInv, NEW found, NEW n \in 0 .. Len(mounts)
  PROVE  LET due == UNION {Due(d) : d \in First(n) \cap recorded \cap found}
         IN  /\ IsFiniteSet(due)
             /\ Loop(found)[n] =
                  [total |-> Cardinality(due), seen |-> recorded \cup First(n),
                   prev  |-> [d \in Device |-> IF d \in First(n) THEN Now(found, d) ELSE prev_io[d]]]
<1> DEFINE due(k) == UNION {Due(d) : d \in First(k) \cap recorded \cap found}
           val(k) == [total |-> Cardinality(due(k)), seen |-> recorded \cup First(k),
                      prev  |-> [d \in Device |-> IF d \in First(k) THEN Now(found, d) ELSE prev_io[d]]]
           Right  == {k \in 0 .. Len(mounts) : IsFiniteSet(due(k)) /\ Loop(found)[k] = val(k)}
<1>1. Len(mounts) \in Nat /\ \A k \in 1 .. Len(mounts) : mounts[k] \in Device
  BY DEF DiskInv
<1>2. 0 \in Right
  <2>1. First(0) = {}
    BY DEF First
  <2>2. due(0) = {}
    BY <2>1
  <2>3. prev_io = [d \in Device |-> prev_io[d]]
    BY DEF DiskInv
  <2>4. val(0) = [total |-> 0, seen |-> recorded, prev |-> prev_io]
    BY <2>1, <2>2, <2>3, FS_EmptySet
  <2>5. QED
    <3>1. Loop(found)[0] = val(0)
      BY <2>4, LoopDef
    <3>2. 0 \in 0 .. Len(mounts) /\ IsFiniteSet(due(0))
      BY <1>1, <2>2, FS_EmptySet
    <3>3. QED
      BY <3>1, <3>2
<1>3. ASSUME NEW m \in 0 .. Len(mounts), m # Len(mounts), m \in Right
      PROVE  m + 1 \in Right
  <2> DEFINE k == m + 1
             d == mounts[k]
             now == Now(found, d)
             acc == Loop(found)[m]
             add == IF d \in acc.seen THEN Monus(now, acc.prev[d]) ELSE 0
  <2>1. m \in Nat /\ k \in 1 .. Len(mounts) /\ k - 1 = m
    BY <1>1, <1>3
  <2>2. d \in Device
    BY <1>1, <2>1
  <2>3. First(k) = First(m) \cup {d}
    BY <2>1 DEF First
  <2>4. acc = val(m) /\ IsFiniteSet(due(m))
    BY <1>3
  <2>5. Loop(found)[k] = Visit(acc, d, now)
    BY <2>1, LoopDef
  <2>6. now \in Nat
    BY <2>2 DEF Now, DiskInv
  <2>7. /\ acc.seen = recorded \cup First(m) /\ acc.total = Cardinality(due(m))
        /\ acc.prev = [e \in Device |-> IF e \in First(m) THEN Now(found, e) ELSE prev_io[e]]
    BY <2>4
  <2> HIDE DEF k, d, now, acc
  <2>8. Visit(acc, d, now) = [total |-> acc.total + add, seen |-> acc.seen \cup {d},
                              prev |-> [acc.prev EXCEPT ![d] = now]]
    BY DEF Visit
  <2>9. [acc.prev EXCEPT ![d] = now]
          = [e \in Device |-> IF e \in First(k) THEN Now(found, e) ELSE prev_io[e]]
    BY <2>2, <2>3, <2>7 DEF now
  <2>10. IsFiniteSet(due(k)) /\ Cardinality(due(k)) = acc.total + add
    <3> DEFINE new == d \in recorded /\ d \in found /\ d \notin First(m)
    <3>0. acc.total \in Nat
      BY <2>4, <2>7, FS_CardinalityType
    <3>1. CASE new
      <4>1. due(k) = due(m) \cup Due(d)
        BY <2>3, <3>1
      <4>2. due(m) \cap Due(d) = {}
        BY <3>1 DEF Due
      <4>3. add = Cardinality(Due(d)) /\ IsFiniteSet(Due(d)) /\ add \in Nat
        <5>1. add = Monus(counter[d], prev_io[d])
          BY <2>2, <2>7, <3>1 DEF Now, now
        <5>2. QED
          BY <2>2, <3>1, <5>1, DiskDifference, DueSize, FS_CardinalityType
      <4>4. IsFiniteSet(due(m)) /\ acc.total = Cardinality(due(m))
        BY <2>4, <2>7
      <4> HIDE DEF due, add
      <4>5. Cardinality(due(m) \cap Due(d)) = 0
        BY <4>2, FS_EmptySet
      <4>6. /\ IsFiniteSet(due(m) \cup Due(d))
            /\ Cardinality(due(m) \cup Due(d))
                 = Cardinality(due(m)) + Cardinality(Due(d)) - Cardinality(due(m) \cap Due(d))
        BY <4>3, <4>4, FS_Union
      <4>7. Cardinality(due(m) \cup Due(d)) = acc.total + add
        BY <3>0, <4>3, <4>4, <4>5, <4>6
      <4>8. QED
        BY <4>1, <4>6, <4>7
    <3>2. CASE ~ new
      <4>1. due(k) = due(m)
        BY <2>3, <3>2
      <4>2. add = 0
        <5>1. CASE d \in First(m)
          BY <2>2, <2>6, <2>7, <5>1 DEF now, Monus
        <5>2. CASE d \notin First(m) /\ d \notin recorded
          BY <2>7, <5>2
        <5>3. CASE d \notin First(m) /\ d \in recorded /\ d \notin found
          <6>1. add = Monus(0, prev_io[d])
            BY <2>2, <2>7, <5>3 DEF now, Now
          <6>2. QED
            BY <5>3, <6>1, DiskDifference
        <5>4. QED
          BY <3>2, <5>1, <5>2, <5>3
      <4>3. QED
        <5>1. IsFiniteSet(due(m)) /\ acc.total = Cardinality(due(m))
          BY <2>4, <2>7
        <5> HIDE DEF due, add
        <5>2. acc.total + add = acc.total
          BY <3>0, <4>2
        <5>3. QED
          BY <4>1, <5>1, <5>2
    <3>3. QED
      BY <3>1, <3>2
  <2>11. Loop(found)[k] = val(k)
    BY <2>3, <2>5, <2>7, <2>8, <2>9, <2>10
  <2>12. QED
    BY <2>1, <2>10, <2>11 DEF k
<1>4. n \in Right
  <2> HIDE DEF Right
  <2>1. 0 .. Len(mounts) \subseteq Right
    BY <1>1, <1>2, <1>3, Induction
  <2>2. QED
    BY <2>1
<1>5. QED
  BY <1>4

LEMMA InitDisks == DiskInit => DiskInv
  BY DEF DiskInit, DiskInv

LEMMA NextDisks == DiskInv /\ [DiskNext]_diskVars => DiskInv'
<1> SUFFICES ASSUME DiskInv, [DiskNext]_diskVars
             PROVE  DiskInv'
  OBVIOUS
<1>1. CASE Transfer
  <2>1. PICK d \in Device : /\ counter' = [counter EXCEPT ![d] = @ + 1]
                            /\ since' = [since EXCEPT ![d] = @ + 1]
    BY <1>1 DEF Transfer
  <2>2. UNCHANGED <<mounts, recorded, prev_io, missed>>
    BY <1>1 DEF Transfer
  <2>3. counter' \in [Device -> Nat] /\ since' \in [Device -> Nat]
    BY <2>1 DEF DiskInv
  <2>4. ASSUME NEW e \in recorded
        PROVE  IF e \in missed THEN prev_io[e] = 0 ELSE counter'[e] = prev_io[e] + since'[e]
    <3>1. CASE e = d
      BY <2>1, <3>1 DEF DiskInv
    <3>2. CASE e # d
      BY <2>1, <3>2 DEF DiskInv
    <3>3. QED
      BY <3>1, <3>2
  <2>5. QED
    BY <2>2, <2>3, <2>4 DEF DiskInv
<1>2. CASE MountOrUnmount
  <2>1. mounts' \in Seq(Device)
    <3>1. CASE \E d \in Device : mounts' = Append(mounts, d)
      BY <3>1 DEF DiskInv
    <3>2. ASSUME NEW k \in 1 .. Len(mounts), mounts' = RemoveAt(mounts, k)
          PROVE  mounts' \in Seq(Device)
      <4>1. mounts \in Seq(Device) /\ Len(mounts) \in Nat
        BY DEF DiskInv
      <4>2. SubSeq(mounts, 1, k - 1) \in Seq(Device)
        BY <4>1
      <4>3. SubSeq(mounts, k + 1, Len(mounts)) \in Seq(Device)
        BY <4>1
      <4>4. QED
        BY <3>2, <4>2, <4>3 DEF RemoveAt
    <3>3. QED
      BY <1>2, <3>1, <3>2 DEF MountOrUnmount
  <2>2. QED
    BY <1>2, <2>1 DEF MountOrUnmount, DiskInv
<1>3. ASSUME NEW found \in SUBSET Listed, CollectDisks(found)
      PROVE  DiskInv'
  <2>1. Len(mounts) \in 0 .. Len(mounts) /\ Mounted \subseteq Device
    BY DEF DiskInv, Mounted, First
  <2>2. /\ recorded' = recorded \cup Mounted
        /\ prev_io' = [d \in Device |-> IF d \in Mounted THEN Now(found, d) ELSE prev_io[d]]
    <3> DEFINE due == UNION {Due(d) : d \in First(Len(mounts)) \cap recorded \cap found}
    <3>1. Loop(found)[Len(mounts)] =
            [total |-> Cardinality(due), seen |-> recorded \cup First(Len(mounts)),
             prev  |-> [d \in Device |-> IF d \in First(Len(mounts)) THEN Now(found, d) ELSE prev_io[d]]]
      BY <2>1, LoopIs
    <3>2. QED
      BY <1>3, <3>1 DEF CollectDisks, Mounted
  <2>3. /\ since' = [d \in Device |-> IF d \in Mounted THEN 0 ELSE since[d]]
        /\ missed' = (missed \ Mounted) \cup (Mounted \ found)
        /\ mounts' = mounts /\ counter' = counter
    BY <1>3 DEF CollectDisks
  <2>4. ASSUME NEW d \in recorded'
        PROVE  IF d \in missed' THEN prev_io'[d] = 0 ELSE counter'[d] = prev_io'[d] + since'[d]
    <3>1. CASE d \in Mounted
      BY <2>1, <2>2, <2>3, <3>1 DEF Now, DiskInv
    <3>2. CASE d \notin Mounted
      BY <2>2, <2>3, <3>2 DEF DiskInv
    <3>3. QED
      BY <3>1, <3>2
  <2>5. recorded' \subseteq Device /\ missed' \subseteq Device
    BY <2>1, <2>2, <2>3 DEF DiskInv
  <2>6. prev_io' \in [Device -> Nat] /\ since' \in [Device -> Nat]
    BY <2>2, <2>3 DEF DiskInv, Now
  <2>7. QED
    BY <2>3, <2>4, <2>5, <2>6 DEF DiskInv
<1>4. CASE UNCHANGED diskVars
  BY <1>4 DEF diskVars, DiskInv
<1>5. QED
  BY <1>1, <1>2, <1>3, <1>4 DEF DiskNext

\* A recorded value is the counter less what the device moved since, or zero if
\* its name was not found, however the device is mounted, unmounted and found.
THEOREM DiskInvariant == DiskSpec => []DiskInv
<1>1. DiskInit => DiskInv
  BY InitDisks
<1>2. DiskInv /\ [DiskNext]_diskVars => DiskInv'
  BY NextDisks
<1>3. QED
  BY <1>1, <1>2, PTL DEF DiskSpec

\* The total of a cycle (disk.rs, the loop over the disks) counts every byte once,
\* for any devices, any number of mounts of each and any names that are not found.
THEOREM ExactTotal == DiskSpec => TotalIsExact
<1>1. ASSUME DiskInv
      PROVE  \A found \in SUBSET Listed : CollectDisks(found) /\ mounts # <<>> =>
               io' = <<Cardinality(UNION {Due(d) : d \in Mounted \cap recorded \cap found})>>
  <2> SUFFICES ASSUME NEW found \in SUBSET Listed, CollectDisks(found), mounts # <<>>
               PROVE  io' = <<Cardinality(UNION {Due(d) : d \in Mounted \cap recorded \cap found})>>
    OBVIOUS
  <2>1. Len(mounts) \in 0 .. Len(mounts)
    BY <1>1 DEF DiskInv
  <2>2. Loop(found)[Len(mounts)].total
          = Cardinality(UNION {Due(d) : d \in Mounted \cap recorded \cap found})
    <3> DEFINE due == UNION {Due(d) : d \in First(Len(mounts)) \cap recorded \cap found}
    <3>1. Loop(found)[Len(mounts)] =
            [total |-> Cardinality(due), seen |-> recorded \cup First(Len(mounts)),
             prev  |-> [d \in Device |-> IF d \in First(Len(mounts)) THEN Now(found, d) ELSE prev_io[d]]]
      BY <1>1, <2>1, LoopIs
    <3>2. QED
      BY <3>1 DEF Mounted
  <2>3. QED
    BY <2>2 DEF CollectDisks
<1>2. QED
  BY <1>1, DiskInvariant, PTL DEF TotalIsExact
=============================================================================
