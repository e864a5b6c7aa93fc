----------------------- MODULE MetricsPipelineProofs -----------------------
(***************************************************************************)
(* Proofs about MetricsPipeline, for every set of clients, every set of    *)
(* collectors that may fail and every number of ticks.                     *)
(***************************************************************************)
EXTENDS MetricsPipeline, TLAPS

\* The passes over Pipeline visit every collector exactly once.
LEMMA PipelineFacts ==
  /\ Pipeline \in [Stage -> Collector]
  /\ \A s \in Collector : \E i \in Stage : Pipeline[i] = s
  /\ \A i, j \in Stage : Pipeline[i] = Pipeline[j] => i = j
<1> DEFINE P == [i \in Stage |-> Pipeline[i]]
<1>1. Pipeline = P
  BY DEF Pipeline, Stage
<1>2. \A i \in Stage : Pipeline[i] \in Collector
  BY DEF Pipeline, Stage, Collector
<1>3. \A s \in Collector : \E i \in Stage : Pipeline[i] = s
  <2> SUFFICES ASSUME NEW s \in Collector
               PROVE  \E i \in Stage : Pipeline[i] = s
    OBVIOUS
  <2>1. /\ Pipeline[1] = "cpu" /\ Pipeline[2] = "memory" /\ Pipeline[3] = "disk"
        /\ Pipeline[4] = "network" /\ Pipeline[5] = "processes" /\ Pipeline[6] = "gpu"
        /\ Pipeline[7] = "docker" /\ Pipeline[8] = "system" /\ Pipeline[9] = "temperature"
    BY DEF Pipeline
  <2>2. {1, 2, 3, 4, 5, 6, 7, 8, 9} \subseteq Stage
    BY DEF Stage
  <2>3. QED
    BY <2>1, <2>2, Zenon DEF Collector
<1>4. \A i, j \in Stage : Pipeline[i] = Pipeline[j] => i = j
  BY DEF Pipeline, Stage
<1>5. QED
  BY <1>1, <1>2, <1>3, <1>4

LEMMA TypeInit == Init => TypeOK
  BY MaxTicksAssumption
     DEF Init, TypeOK, Stage, Initial, MetricsResponse, StatusResponse, Flagged

\* A step of any actor keeps the type of every variable.
LEMMA TypeStep == TypeOK /\ CycleOrder /\ [Next]_vars => TypeOK'
<1> SUFFICES ASSUME TypeOK, CycleOrder, [Next]_vars
             PROVE  TypeOK'
  OBVIOUS
<1>a. next \in Stage => Pipeline[next] \in Collector
  BY PipelineFacts
<1>b. \A done : Advance(done) => next' \in Stage /\ pc' \in {pc, done}
  BY DEF TypeOK, Advance, Stage
<1>1. CASE Tick
  BY <1>1, MaxTicksAssumption DEF TypeOK, Tick, collectorVars, requestVars
<1>2. CASE StartCycle
  <2>1. cycle' \in 0 .. MaxTicks /\ next' \in Stage
    BY <1>2, MaxTicksAssumption DEF TypeOK, StartCycle, Stage
  <2>2. QED
    BY <1>2, <2>1 DEF TypeOK, StartCycle, requestVars
<1>3. CASE CollectOk
  BY <1>3, <1>a, <1>b DEF TypeOK, CollectOk, requestVars
<1>4. CASE CollectErr
  BY <1>4, <1>a, <1>b DEF TypeOK, CollectErr, requestVars
<1>5. CASE AskWrite
  BY <1>5 DEF TypeOK, AskWrite, requestVars
<1>6. CASE AcquireWrite
  BY <1>6 DEF TypeOK, AcquireWrite, requestVars
<1>7. CASE WriteSection
  BY <1>7, <1>a, <1>b DEF TypeOK, WriteSection, requestVars
<1>8. CASE StampAndRelease
  BY <1>8 DEF TypeOK, StampAndRelease, requestVars
<1>9. CASE UpdateStatus
  BY <1>9 DEF TypeOK, UpdateStatus, requestVars
<1>10. ASSUME NEW c \in Client, AskRead(c)
       PROVE  TypeOK'
  BY <1>10 DEF TypeOK, AskRead, collectorVars
<1>11. ASSUME NEW c \in Client, AcquireRead(c)
       PROVE  TypeOK'
  BY <1>11 DEF TypeOK, AcquireRead, collectorVars
<1>12. ASSUME NEW c \in Client, Respond(c)
       PROVE  TypeOK'
  BY <1>12 DEF TypeOK, Respond, MetricsResponse, collectorVars
<1>13. ASSUME NEW c \in Client, GetStatus(c)
       PROVE  TypeOK'
  BY <1>13 DEF TypeOK, GetStatus, StatusResponse, collectorVars
<1>14. CASE UNCHANGED vars
  BY <1>14 DEF TypeOK, vars, collectorVars, requestVars
<1>15. QED
  BY <1>1, <1>2, <1>3, <1>4, <1>5, <1>6, <1>7, <1>8, <1>9, <1>10, <1>11, <1>12,
     <1>13, <1>14 DEF Next, CollectorStep, ReaderStep

\* The cycle in progress stays the one after the last that published.
LEMMA CycleOrderStep ==
  PipelineInv /\ [Next]_vars => CycleOrder'
<1> SUFFICES ASSUME PipelineInv, [Next]_vars
             PROVE  CycleOrder'
  OBVIOUS
<1> USE DEF PipelineInv
<1>1. CASE Tick
  BY <1>1 DEF Tick, collectorVars, requestVars, TypeOK, CycleOrder, Stage
<1>2. CASE StartCycle
  BY <1>2 DEF StartCycle, requestVars, TypeOK, CycleOrder, Stage
<1>3. CASE CollectOk
  BY <1>3 DEF CollectOk, Advance, requestVars, TypeOK, CycleOrder, Stage
<1>4. CASE CollectErr
  BY <1>4 DEF CollectErr, Advance, requestVars, TypeOK, CycleOrder, Stage
<1>5. CASE AskWrite
  BY <1>5 DEF AskWrite, requestVars, TypeOK, CycleOrder, Stage
<1>6. CASE AcquireWrite
  BY <1>6 DEF AcquireWrite, requestVars, TypeOK, CycleOrder, Stage
<1>7. CASE WriteSection
  BY <1>7 DEF WriteSection, Advance, requestVars, TypeOK, CycleOrder, Stage
<1>8. CASE StampAndRelease
  BY <1>8 DEF StampAndRelease, requestVars, TypeOK, CycleOrder, Stage
<1>9. CASE UpdateStatus
  BY <1>9 DEF UpdateStatus, requestVars, TypeOK, CycleOrder, Stage
<1>10. ASSUME NEW c \in Client, AskRead(c)
       PROVE  CycleOrder'
  BY <1>10 DEF AskRead, collectorVars, TypeOK, CycleOrder, Stage
<1>11. ASSUME NEW c \in Client, AcquireRead(c)
       PROVE  CycleOrder'
  BY <1>11 DEF AcquireRead, collectorVars, TypeOK, CycleOrder, Stage
<1>12. ASSUME NEW c \in Client, Respond(c)
       PROVE  CycleOrder'
  BY <1>12 DEF Respond, MetricsResponse, collectorVars, TypeOK, CycleOrder, Stage
<1>13. ASSUME NEW c \in Client, GetStatus(c)
       PROVE  CycleOrder'
  BY <1>13 DEF GetStatus, StatusResponse, collectorVars, TypeOK, CycleOrder, Stage
<1>14. CASE UNCHANGED vars
  BY <1>14 DEF vars, collectorVars, requestVars, TypeOK, CycleOrder, Stage
<1>15. QED
  BY <1>1, <1>2, <1>3, <1>4, <1>5, <1>6, <1>7, <1>8, <1>9, <1>10, <1>11, <1>12, <1>13, <1>14
     DEF Next, CollectorStep, ReaderStep

\* Each stage hands on what the stages before it collected.
LEMMA ProgressStep ==
  PipelineInv /\ [Next]_vars => CollectProgress'
<1> SUFFICES ASSUME PipelineInv, [Next]_vars
             PROVE  CollectProgress'
  OBVIOUS
<1> USE DEF PipelineInv
<1>1. CASE Tick
  BY <1>1, PipelineFacts DEF Tick, collectorVars, requestVars, TypeOK, CycleOrder, CollectProgress, Fetched, Stage
<1>2. CASE StartCycle
  BY <1>2, PipelineFacts DEF StartCycle, requestVars, TypeOK, CycleOrder, CollectProgress, Fetched, Stage
<1>3. CASE CollectOk
  <2> PICK k \in Stage : k = next
    BY DEF TypeOK
  <2> DEFINE p == Pipeline[k]
  <2>1. next \in Stage /\ p \in Collector /\ \A i \in Stage : Pipeline[i] \in Collector
    BY PipelineFacts DEF TypeOK
  <2>2. \A i \in Stage : i # next => Pipeline[i] # p
    BY <2>1, PipelineFacts
  <2>3. /\ staged'[p] = cycle
        /\ \A s \in Collector : s # p => staged'[s] = staged[s]
        /\ ok' = ok \cup {p}
        /\ UNCHANGED <<cycle, snapshot>>
    BY <1>3, <2>1 DEF CollectOk, TypeOK
  <2>4. /\ \A i \in Stage : i < next =>
             /\ Fetched(Pipeline[i])
             /\ Pipeline[i] \notin ok => Pipeline[i] \in Fallible
        /\ \A i \in Stage : i >= next => Pipeline[i] \notin ok
    BY <1>3 DEF CollectOk, CollectProgress
  <2>5. /\ \A i \in Stage : i < next \/ i = next =>
             /\ Fetched(Pipeline[i])'
             /\ Pipeline[i] \notin ok' => Pipeline[i] \in Fallible
        /\ \A i \in Stage : i >= next /\ i # next => Pipeline[i] \notin ok'
    <3>1. /\ Fetched(p)'
          /\ p \notin ok' => p \in Fallible
      <4>1. p \notin ok
        BY <2>1, <2>4 DEF Stage
      <4>2. QED
        BY <1>3, <2>3, <4>1 DEF CollectOk, Fetched
    <3>2. \A i \in Stage : i # next => (Pipeline[i] \in ok' <=> Pipeline[i] \in ok)
      BY <2>1, <2>2, <2>3
    <3>3. ASSUME NEW i \in Stage, i < next \/ i = next
          PROVE  /\ Fetched(Pipeline[i])'
                 /\ Pipeline[i] \notin ok' => Pipeline[i] \in Fallible
      <4>1. CASE i = k
        BY <3>1, <4>1
      <4>2. CASE i # k
        <5>1. /\ Pipeline[i] \in Collector /\ Pipeline[i] # p
              /\ Fetched(Pipeline[i])
              /\ Pipeline[i] \notin ok => Pipeline[i] \in Fallible
          BY <2>1, <2>2, <2>4, <3>3, <4>2
        <5>2. staged'[Pipeline[i]] = staged[Pipeline[i]]
          BY <2>3, <5>1
        <5>3. QED
          BY <2>3, <5>1, <5>2 DEF Fetched
      <4>3. QED
        BY <4>1, <4>2
    <3>4. \A i \in Stage : i >= next /\ i # next => Pipeline[i] \notin ok'
      BY <2>4, <3>2
    <3>5. QED
      BY <3>3, <3>4
  <2>6. CASE next = 9
    <3>1. \A i \in Stage : i < next \/ i = next
      BY <2>6 DEF Stage
    <3>2. pc' = "publish"
      BY <1>3, <2>6 DEF CollectOk, Advance
    <3>3. QED
      BY <2>5, <3>1, <3>2, PipelineFacts DEF CollectProgress
  <2>7. CASE next # 9
    <3>1. pc' = "collect" /\ next' = next + 1
      BY <1>3, <2>7 DEF CollectOk, Advance
    <3>2. \A i \in Stage : /\ i < next' => i < next \/ i = next
                           /\ i >= next' => i >= next /\ i # next
      BY <2>1, <3>1 DEF Stage
    <3>3. QED
      BY <2>5, <3>1, <3>2 DEF CollectProgress
  <2>8. QED
    BY <2>6, <2>7
<1>4. CASE CollectErr
  <2> PICK k \in Stage : k = next
    BY DEF TypeOK
  <2> DEFINE p == Pipeline[k]
  <2>1. next \in Stage /\ p \in Collector /\ \A i \in Stage : Pipeline[i] \in Collector
    BY PipelineFacts DEF TypeOK
  <2>2. \A i \in Stage : i # next => Pipeline[i] # p
    BY <2>1, PipelineFacts
  <2>3. /\ staged'[p] = snapshot[p]
        /\ \A s \in Collector : s # p => staged'[s] = staged[s]
        /\ ok' = ok
        /\ UNCHANGED <<cycle, snapshot>>
    BY <1>4, <2>1 DEF CollectErr, TypeOK
  <2>4. /\ \A i \in Stage : i < next =>
             /\ Fetched(Pipeline[i])
             /\ Pipeline[i] \notin ok => Pipeline[i] \in Fallible
        /\ \A i \in Stage : i >= next => Pipeline[i] \notin ok
    BY <1>4 DEF CollectErr, CollectProgress
  <2>5. /\ \A i \in Stage : i < next \/ i = next =>
             /\ Fetched(Pipeline[i])'
             /\ Pipeline[i] \notin ok' => Pipeline[i] \in Fallible
        /\ \A i \in Stage : i >= next /\ i # next => Pipeline[i] \notin ok'
    <3>1. /\ Fetched(p)'
          /\ p \notin ok' => p \in Fallible
      <4>1. p \notin ok
        BY <2>1, <2>4 DEF Stage
      <4>2. QED
        BY <1>4, <2>3, <4>1 DEF CollectErr, Fetched
    <3>2. \A i \in Stage : i # next => (Pipeline[i] \in ok' <=> Pipeline[i] \in ok)
      BY <2>1, <2>2, <2>3
    <3>3. ASSUME NEW i \in Stage, i < next \/ i = next
          PROVE  /\ Fetched(Pipeline[i])'
                 /\ Pipeline[i] \notin ok' => Pipeline[i] \in Fallible
      <4>1. CASE i = k
        BY <3>1, <4>1
      <4>2. CASE i # k
        <5>1. /\ Pipeline[i] \in Collector /\ Pipeline[i] # p
              /\ Fetched(Pipeline[i])
              /\ Pipeline[i] \notin ok => Pipeline[i] \in Fallible
          BY <2>1, <2>2, <2>4, <3>3, <4>2
        <5>2. staged'[Pipeline[i]] = staged[Pipeline[i]]
          BY <2>3, <5>1
        <5>3. QED
          BY <2>3, <5>1, <5>2 DEF Fetched
      <4>3. QED
        BY <4>1, <4>2
    <3>4. \A i \in Stage : i >= next /\ i # next => Pipeline[i] \notin ok'
      BY <2>4, <3>2
    <3>5. QED
      BY <3>3, <3>4
  <2>6. CASE next = 9
    <3>1. \A i \in Stage : i < next \/ i = next
      BY <2>6 DEF Stage
    <3>2. pc' = "publish"
      BY <1>4, <2>6 DEF CollectErr, Advance
    <3>3. QED
      BY <2>5, <3>1, <3>2, PipelineFacts DEF CollectProgress
  <2>7. CASE next # 9
    <3>1. pc' = "collect" /\ next' = next + 1
      BY <1>4, <2>7 DEF CollectErr, Advance
    <3>2. \A i \in Stage : /\ i < next' => i < next \/ i = next
                           /\ i >= next' => i >= next /\ i # next
      BY <2>1, <3>1 DEF Stage
    <3>3. QED
      BY <2>5, <3>1, <3>2 DEF CollectProgress
  <2>8. QED
    BY <2>6, <2>7
<1>5. CASE AskWrite
  BY <1>5, PipelineFacts DEF AskWrite, requestVars, TypeOK, CycleOrder, CollectProgress, Fetched, Stage
<1>6. CASE AcquireWrite
  BY <1>6, PipelineFacts DEF AcquireWrite, requestVars, TypeOK, CycleOrder, CollectProgress, Fetched, Stage
<1>7. CASE WriteSection
  BY <1>7, PipelineFacts DEF WriteSection, Advance, requestVars, TypeOK, CycleOrder, CollectProgress, Fetched, Stage
<1>8. CASE StampAndRelease
  BY <1>8, PipelineFacts DEF StampAndRelease, requestVars, TypeOK, CycleOrder, CollectProgress, Fetched, Stage
<1>9. CASE UpdateStatus
  BY <1>9, PipelineFacts DEF UpdateStatus, requestVars, TypeOK, CycleOrder, CollectProgress, Fetched, Stage
<1>10. ASSUME NEW c \in Client, AskRead(c)
       PROVE  CollectProgress'
  BY <1>10, PipelineFacts DEF AskRead, collectorVars, TypeOK, CycleOrder, CollectProgress, Fetched, Stage
<1>11. ASSUME NEW c \in Client, AcquireRead(c)
       PROVE  CollectProgress'
  BY <1>11, PipelineFacts DEF AcquireRead, collectorVars, TypeOK, CycleOrder, CollectProgress, Fetched, Stage
<1>12. ASSUME NEW c \in Client, Respond(c)
       PROVE  CollectProgress'
  BY <1>12, PipelineFacts DEF Respond, MetricsResponse, collectorVars, TypeOK, CycleOrder, CollectProgress, Fetched, Stage
<1>13. ASSUME NEW c \in Client, GetStatus(c)
       PROVE  CollectProgress'
  BY <1>13, PipelineFacts DEF GetStatus, StatusResponse, collectorVars, TypeOK, CycleOrder, CollectProgress, Fetched, Stage
<1>14. CASE UNCHANGED vars
  BY <1>14, PipelineFacts DEF vars, collectorVars, requestVars, TypeOK, CycleOrder, CollectProgress, Fetched, Stage
<1>15. QED
  BY <1>1, <1>2, <1>3, <1>4, <1>5, <1>6, <1>7, <1>8, <1>9, <1>10, <1>11, <1>12, <1>13, <1>14
     DEF Next, CollectorStep, ReaderStep

\* The sections written so far are the staged ones, and nobody looks.
LEMMA WriteStep ==
  PipelineInv /\ [Next]_vars => WriteProgress'
<1> SUFFICES ASSUME PipelineInv, [Next]_vars
             PROVE  WriteProgress'
  OBVIOUS
<1> USE DEF PipelineInv
<1>1. CASE Tick
  BY <1>1, PipelineFacts DEF Tick, collectorVars, requestVars, TypeOK, CycleOrder, CollectProgress, Fetched, WriteProgress, SectionAges, WriterHolds, Stage
<1>2. CASE StartCycle
  BY <1>2, PipelineFacts DEF StartCycle, requestVars, TypeOK, CycleOrder, CollectProgress, Fetched, WriteProgress, SectionAges, WriterHolds, Stage
<1>3. CASE CollectOk
  BY <1>3, PipelineFacts DEF CollectOk, Advance, requestVars, TypeOK, CycleOrder, CollectProgress, Fetched, WriteProgress, SectionAges, WriterHolds, Stage
<1>4. CASE CollectErr
  BY <1>4, PipelineFacts DEF CollectErr, Advance, requestVars, TypeOK, CycleOrder, CollectProgress, Fetched, WriteProgress, SectionAges, WriterHolds, Stage
<1>5. CASE AskWrite
  BY <1>5, PipelineFacts DEF AskWrite, requestVars, TypeOK, CycleOrder, CollectProgress, Fetched, WriteProgress, SectionAges, WriterHolds, Stage
<1>6. CASE AcquireWrite
  <2>1. /\ pc = "lock" /\ pc' = "write" /\ readers = {} /\ next = 1
        /\ UNCHANGED <<cycle, next, staged, ok, snapshot, readers>>
    BY <1>6 DEF AcquireWrite, CycleOrder
  <2>2. \A s \in Collector : /\ Fetched(s) /\ (s \notin ok => s \in Fallible)
                             /\ snapshot[s] \in Nat /\ snapshot[s] <= stamp
    BY <2>1 DEF TypeOK, CollectProgress, SectionAges, WriterHolds
  <2>3. cycle = stamp + 1 /\ stamp \in Nat
    BY <2>1 DEF TypeOK, CycleOrder
  <2>4. \A s \in Collector : /\ snapshot[s] <= staged[s] /\ staged[s] <= cycle
                             /\ staged[s] = cycle <=> s \in ok
    BY <2>2, <2>3 DEF Fetched
  <2>5. QED
    BY <2>1, <2>2, <2>4 DEF WriteProgress, WriterHolds, Stage
<1>7. CASE WriteSection
  <2> DEFINE p == Pipeline[next]
  <2>1. next \in Stage /\ p \in Collector /\ \A i \in Stage : Pipeline[i] \in Collector
    BY PipelineFacts DEF TypeOK
  <2>2. /\ snapshot'[p] = staged[p]
        /\ \A s \in Collector : s # p => snapshot'[s] = snapshot[s]
        /\ snapshot' \in [Collector -> Nat]
        /\ UNCHANGED <<cycle, staged, ok, stamp, readers>>
        /\ pc' \in {"write", "stamp"}
    BY <1>7, <2>1 DEF WriteSection, Advance, requestVars, TypeOK
  <2>3. /\ readers = {}
        /\ \A i \in Stage : i < next => snapshot[Pipeline[i]] = staged[Pipeline[i]]
        /\ \A s \in Collector : /\ snapshot[s] <= staged[s] /\ staged[s] <= cycle
                                /\ staged[s] = cycle <=> s \in ok
                                /\ s \notin ok => s \in Fallible
    BY <1>7 DEF WriteSection, WriteProgress, WriterHolds
  <2>4. \A s \in Collector : snapshot'[s] <= staged[s]
    <3>1. \A s \in Collector : staged[s] \in Nat
      BY DEF TypeOK
    <3>2. QED
      BY <2>1, <2>2, <2>3, <3>1
  <2>5. \A i \in Stage : i < next \/ i = next => snapshot'[Pipeline[i]] = staged[Pipeline[i]]
    BY <2>1, <2>2, <2>3
  <2>6. pc' = "write" => next' = next + 1
    BY <1>7 DEF WriteSection, Advance
  <2>7. pc' = "write" =>
          \A i \in Stage : i < next' => snapshot'[Pipeline[i]] = staged'[Pipeline[i]]
    <3>1. SUFFICES ASSUME pc' = "write", NEW i \in Stage, i < next'
                   PROVE  i < next \/ i = next
      BY <2>2, <2>5
    <3>2. QED
      BY <2>1, <2>6, <3>1 DEF Stage
  <2>8. pc' = "stamp" => snapshot' = staged'
    <3>1. SUFFICES ASSUME pc' = "stamp"
                   PROVE  \A s \in Collector : snapshot'[s] = staged[s]
      BY <2>2 DEF TypeOK
    <3>2. next = 9
      BY <1>7, <3>1 DEF WriteSection, Advance
    <3>3. \A i \in Stage : i < next \/ i = next
      BY <3>2 DEF Stage
    <3>4. QED
      BY <2>5, <3>3, PipelineFacts
  <2>9. QED
    BY <2>2, <2>3, <2>4, <2>7, <2>8 DEF WriteProgress, WriterHolds
<1>8. CASE StampAndRelease
  BY <1>8, PipelineFacts DEF StampAndRelease, requestVars, TypeOK, CycleOrder, CollectProgress, Fetched, WriteProgress, SectionAges, WriterHolds, Stage
<1>9. CASE UpdateStatus
  BY <1>9, PipelineFacts DEF UpdateStatus, requestVars, TypeOK, CycleOrder, CollectProgress, Fetched, WriteProgress, SectionAges, WriterHolds, Stage
<1>10. ASSUME NEW c \in Client, AskRead(c)
       PROVE  WriteProgress'
  BY <1>10, PipelineFacts DEF AskRead, collectorVars, TypeOK, CycleOrder, CollectProgress, Fetched, WriteProgress, SectionAges, WriterHolds, Stage
<1>11. ASSUME NEW c \in Client, AcquireRead(c)
       PROVE  WriteProgress'
  BY <1>11, PipelineFacts DEF AcquireRead, collectorVars, TypeOK, CycleOrder, CollectProgress, Fetched, WriteProgress, SectionAges, WriterHolds, Stage
<1>12. ASSUME NEW c \in Client, Respond(c)
       PROVE  WriteProgress'
  BY <1>12, PipelineFacts DEF Respond, MetricsResponse, collectorVars, TypeOK, CycleOrder, CollectProgress, Fetched, WriteProgress, SectionAges, WriterHolds, Stage
<1>13. ASSUME NEW c \in Client, GetStatus(c)
       PROVE  WriteProgress'
  BY <1>13, PipelineFacts DEF GetStatus, StatusResponse, collectorVars, TypeOK, CycleOrder, CollectProgress, Fetched, WriteProgress, SectionAges, WriterHolds, Stage
<1>14. CASE UNCHANGED vars
  BY <1>14, PipelineFacts DEF vars, collectorVars, requestVars, TypeOK, CycleOrder, CollectProgress, Fetched, WriteProgress, SectionAges, WriterHolds, Stage
<1>15. QED
  BY <1>1, <1>2, <1>3, <1>4, <1>5, <1>6, <1>7, <1>8, <1>9, <1>10, <1>11, <1>12, <1>13, <1>14
     DEF Next, CollectorStep, ReaderStep

\* A section at rest is as old as the timestamp unless it can fail.
LEMMA AgesStep ==
  PipelineInv /\ [Next]_vars => SectionAges'
<1> SUFFICES ASSUME PipelineInv, [Next]_vars
             PROVE  SectionAges'
  OBVIOUS
<1> USE DEF PipelineInv
<1>1. CASE Tick
  BY <1>1 DEF Tick, collectorVars, requestVars, TypeOK, CycleOrder, WriteProgress, SectionAges, WriterHolds, Stage
<1>2. CASE StartCycle
  BY <1>2 DEF StartCycle, requestVars, TypeOK, CycleOrder, WriteProgress, SectionAges, WriterHolds, Stage
<1>3. CASE CollectOk
  BY <1>3 DEF CollectOk, Advance, requestVars, TypeOK, CycleOrder, WriteProgress, SectionAges, WriterHolds, Stage
<1>4. CASE CollectErr
  BY <1>4 DEF CollectErr, Advance, requestVars, TypeOK, CycleOrder, WriteProgress, SectionAges, WriterHolds, Stage
<1>5. CASE AskWrite
  BY <1>5 DEF AskWrite, requestVars, TypeOK, CycleOrder, WriteProgress, SectionAges, WriterHolds, Stage
<1>6. CASE AcquireWrite
  BY <1>6 DEF AcquireWrite, requestVars, TypeOK, CycleOrder, WriteProgress, SectionAges, WriterHolds, Stage
<1>7. CASE WriteSection
  BY <1>7 DEF WriteSection, Advance, requestVars, TypeOK, CycleOrder, WriteProgress, SectionAges, WriterHolds, Stage
<1>8. CASE StampAndRelease
  BY <1>8 DEF StampAndRelease, requestVars, TypeOK, CycleOrder, WriteProgress, SectionAges, WriterHolds, Stage
<1>9. CASE UpdateStatus
  BY <1>9 DEF UpdateStatus, requestVars, TypeOK, CycleOrder, WriteProgress, SectionAges, WriterHolds, Stage
<1>10. ASSUME NEW c \in Client, AskRead(c)
       PROVE  SectionAges'
  BY <1>10 DEF AskRead, collectorVars, TypeOK, CycleOrder, WriteProgress, SectionAges, WriterHolds, Stage
<1>11. ASSUME NEW c \in Client, AcquireRead(c)
       PROVE  SectionAges'
  BY <1>11 DEF AcquireRead, collectorVars, TypeOK, CycleOrder, WriteProgress, SectionAges, WriterHolds, Stage
<1>12. ASSUME NEW c \in Client, Respond(c)
       PROVE  SectionAges'
  BY <1>12 DEF Respond, MetricsResponse, collectorVars, TypeOK, CycleOrder, WriteProgress, SectionAges, WriterHolds, Stage
<1>13. ASSUME NEW c \in Client, GetStatus(c)
       PROVE  SectionAges'
  BY <1>13 DEF GetStatus, StatusResponse, collectorVars, TypeOK, CycleOrder, WriteProgress, SectionAges, WriterHolds, Stage
<1>14. CASE UNCHANGED vars
  BY <1>14 DEF vars, collectorVars, requestVars, TypeOK, CycleOrder, WriteProgress, SectionAges, WriterHolds, Stage
<1>15. QED
  BY <1>1, <1>2, <1>3, <1>4, <1>5, <1>6, <1>7, <1>8, <1>9, <1>10, <1>11, <1>12, <1>13, <1>14
     DEF Next, CollectorStep, ReaderStep

\* The flags describe the snapshot in place when the cycle is over.
LEMMA AgreeStep ==
  PipelineInv /\ [Next]_vars => StatusAgrees'
<1> SUFFICES ASSUME PipelineInv, [Next]_vars
             PROVE  StatusAgrees'
  OBVIOUS
<1> USE DEF PipelineInv
<1>1. CASE Tick
  BY <1>1 DEF Tick, collectorVars, requestVars, TypeOK, CycleOrder, WriteProgress, StatusAgrees, Flagged
<1>2. CASE StartCycle
  BY <1>2 DEF StartCycle, requestVars, TypeOK, CycleOrder, WriteProgress, StatusAgrees, Flagged
<1>3. CASE CollectOk
  BY <1>3 DEF CollectOk, Advance, requestVars, TypeOK, CycleOrder, WriteProgress, StatusAgrees, Flagged
<1>4. CASE CollectErr
  BY <1>4 DEF CollectErr, Advance, requestVars, TypeOK, CycleOrder, WriteProgress, StatusAgrees, Flagged
<1>5. CASE AskWrite
  BY <1>5 DEF AskWrite, requestVars, TypeOK, CycleOrder, WriteProgress, StatusAgrees, Flagged
<1>6. CASE AcquireWrite
  BY <1>6 DEF AcquireWrite, requestVars, TypeOK, CycleOrder, WriteProgress, StatusAgrees, Flagged
<1>7. CASE WriteSection
  BY <1>7 DEF WriteSection, Advance, requestVars, TypeOK, CycleOrder, WriteProgress, StatusAgrees, Flagged
<1>8. CASE StampAndRelease
  BY <1>8 DEF StampAndRelease, requestVars, TypeOK, CycleOrder, WriteProgress, StatusAgrees, Flagged
<1>9. CASE UpdateStatus
  BY <1>9 DEF UpdateStatus, requestVars, TypeOK, CycleOrder, WriteProgress, StatusAgrees, Flagged
<1>10. ASSUME NEW c \in Client, AskRead(c)
       PROVE  StatusAgrees'
  BY <1>10 DEF AskRead, collectorVars, TypeOK, CycleOrder, WriteProgress, StatusAgrees, Flagged
<1>11. ASSUME NEW c \in Client, AcquireRead(c)
       PROVE  StatusAgrees'
  BY <1>11 DEF AcquireRead, collectorVars, TypeOK, CycleOrder, WriteProgress, StatusAgrees, Flagged
<1>12. ASSUME NEW c \in Client, Respond(c)
       PROVE  StatusAgrees'
  BY <1>12 DEF Respond, MetricsResponse, collectorVars, TypeOK, CycleOrder, WriteProgress, StatusAgrees, Flagged
<1>13. ASSUME NEW c \in Client, GetStatus(c)
       PROVE  StatusAgrees'
  BY <1>13 DEF GetStatus, StatusResponse, collectorVars, TypeOK, CycleOrder, WriteProgress, StatusAgrees, Flagged
<1>14. CASE UNCHANGED vars
  BY <1>14 DEF vars, collectorVars, requestVars, TypeOK, CycleOrder, WriteProgress, StatusAgrees, Flagged
<1>15. QED
  BY <1>1, <1>2, <1>3, <1>4, <1>5, <1>6, <1>7, <1>8, <1>9, <1>10, <1>11, <1>12, <1>13, <1>14
     DEF Next, CollectorStep, ReaderStep

\* What has been shown stays behind what is in place.
LEMMA BehindStep ==
  PipelineInv /\ [Next]_vars => ReadersBehind'
<1> SUFFICES ASSUME PipelineInv, [Next]_vars
             PROVE  ReadersBehind'
  OBVIOUS
<1> USE DEF PipelineInv
<1>1. CASE Tick
  BY <1>1 DEF Tick, collectorVars, requestVars, TypeOK, CycleOrder, WriteProgress, ReadersBehind, WriterHolds, Flagged
<1>2. CASE StartCycle
  BY <1>2 DEF StartCycle, requestVars, TypeOK, CycleOrder, WriteProgress, ReadersBehind, WriterHolds, Flagged
<1>3. CASE CollectOk
  BY <1>3 DEF CollectOk, Advance, requestVars, TypeOK, CycleOrder, WriteProgress, ReadersBehind, WriterHolds, Flagged
<1>4. CASE CollectErr
  BY <1>4 DEF CollectErr, Advance, requestVars, TypeOK, CycleOrder, WriteProgress, ReadersBehind, WriterHolds, Flagged
<1>5. CASE AskWrite
  BY <1>5 DEF AskWrite, requestVars, TypeOK, CycleOrder, WriteProgress, ReadersBehind, WriterHolds, Flagged
<1>6. CASE AcquireWrite
  BY <1>6 DEF AcquireWrite, requestVars, TypeOK, CycleOrder, WriteProgress, ReadersBehind, WriterHolds, Flagged
<1>7. CASE WriteSection
  BY <1>7 DEF WriteSection, Advance, requestVars, TypeOK, CycleOrder, WriteProgress, ReadersBehind, WriterHolds, Flagged
<1>8. CASE StampAndRelease
  BY <1>8 DEF StampAndRelease, requestVars, TypeOK, CycleOrder, WriteProgress, ReadersBehind, WriterHolds, Flagged
<1>9. CASE UpdateStatus
  BY <1>9 DEF UpdateStatus, requestVars, TypeOK, CycleOrder, WriteProgress, ReadersBehind, WriterHolds, Flagged
<1>10. ASSUME NEW c \in Client, AskRead(c)
       PROVE  ReadersBehind'
  BY <1>10 DEF AskRead, collectorVars, TypeOK, CycleOrder, WriteProgress, ReadersBehind, WriterHolds, Flagged
<1>11. ASSUME NEW c \in Client, AcquireRead(c)
       PROVE  ReadersBehind'
  BY <1>11 DEF AcquireRead, collectorVars, TypeOK, CycleOrder, WriteProgress, ReadersBehind, WriterHolds, Flagged
<1>12. ASSUME NEW c \in Client, Respond(c)
       PROVE  ReadersBehind'
  BY <1>12 DEF Respond, MetricsResponse, collectorVars, TypeOK, CycleOrder, WriteProgress, ReadersBehind, WriterHolds, Flagged
<1>13. ASSUME NEW c \in Client, GetStatus(c)
       PROVE  ReadersBehind'
  BY <1>13 DEF GetStatus, StatusResponse, collectorVars, TypeOK, CycleOrder, WriteProgress, ReadersBehind, WriterHolds, Flagged
<1>14. CASE UNCHANGED vars
  BY <1>14 DEF vars, collectorVars, requestVars, TypeOK, CycleOrder, WriteProgress, ReadersBehind, WriterHolds, Flagged
<1>15. QED
  BY <1>1, <1>2, <1>3, <1>4, <1>5, <1>6, <1>7, <1>8, <1>9, <1>10, <1>11, <1>12, <1>13, <1>14
     DEF Next, CollectorStep, ReaderStep

\* A response is cloned only while no publication is in progress.
LEMMA CoherentStep ==
  PipelineInv /\ [Next]_vars => ReplyCoherent'
<1> SUFFICES ASSUME PipelineInv, [Next]_vars
             PROVE  ReplyCoherent'
  OBVIOUS
<1> USE DEF PipelineInv
<1>1. CASE Tick
  BY <1>1 DEF Tick, collectorVars, requestVars, TypeOK, WriteProgress, SectionAges, ReplyCoherent
<1>2. CASE StartCycle
  BY <1>2 DEF StartCycle, requestVars, TypeOK, WriteProgress, SectionAges, ReplyCoherent
<1>3. CASE CollectOk
  BY <1>3 DEF CollectOk, Advance, requestVars, TypeOK, WriteProgress, SectionAges, ReplyCoherent
<1>4. CASE CollectErr
  BY <1>4 DEF CollectErr, Advance, requestVars, TypeOK, WriteProgress, SectionAges, ReplyCoherent
<1>5. CASE AskWrite
  BY <1>5 DEF AskWrite, requestVars, TypeOK, WriteProgress, SectionAges, ReplyCoherent
<1>6. CASE AcquireWrite
  BY <1>6 DEF AcquireWrite, requestVars, TypeOK, WriteProgress, SectionAges, ReplyCoherent
<1>7. CASE WriteSection
  BY <1>7 DEF WriteSection, Advance, requestVars, TypeOK, WriteProgress, SectionAges, ReplyCoherent
<1>8. CASE StampAndRelease
  BY <1>8 DEF StampAndRelease, requestVars, TypeOK, WriteProgress, SectionAges, ReplyCoherent
<1>9. CASE UpdateStatus
  BY <1>9 DEF UpdateStatus, requestVars, TypeOK, WriteProgress, SectionAges, ReplyCoherent
<1>10. ASSUME NEW c \in Client, AskRead(c)
       PROVE  ReplyCoherent'
  BY <1>10 DEF AskRead, collectorVars, TypeOK, WriteProgress, SectionAges, ReplyCoherent
<1>11. ASSUME NEW c \in Client, AcquireRead(c)
       PROVE  ReplyCoherent'
  BY <1>11 DEF AcquireRead, collectorVars, TypeOK, WriteProgress, SectionAges, ReplyCoherent
<1>12. ASSUME NEW c \in Client, Respond(c)
       PROVE  ReplyCoherent'
  BY <1>12 DEF Respond, MetricsResponse, collectorVars, TypeOK, WriteProgress, SectionAges, ReplyCoherent
<1>13. ASSUME NEW c \in Client, GetStatus(c)
       PROVE  ReplyCoherent'
  BY <1>13 DEF GetStatus, StatusResponse, collectorVars, TypeOK, WriteProgress, SectionAges, ReplyCoherent
<1>14. CASE UNCHANGED vars
  BY <1>14 DEF vars, collectorVars, requestVars, TypeOK, WriteProgress, SectionAges, ReplyCoherent
<1>15. QED
  BY <1>1, <1>2, <1>3, <1>4, <1>5, <1>6, <1>7, <1>8, <1>9, <1>10, <1>11, <1>12, <1>13, <1>14
     DEF Next, CollectorStep, ReaderStep

LEMMA InitInv == Init => PipelineInv
<1> SUFFICES ASSUME Init
             PROVE  PipelineInv
  OBVIOUS
<1>1. TypeOK
  BY TypeInit
<1>2. CycleOrder /\ CollectProgress /\ WriteProgress
  BY <1>1 DEF Init, CycleOrder, CollectProgress, WriteProgress, WriterHolds, TypeOK
<1>3. SectionAges /\ StatusAgrees
  BY DEF Init, SectionAges, StatusAgrees, Initial
<1>4. ReadersBehind /\ ReplyCoherent
  BY DEF Init, ReadersBehind, ReplyCoherent, Initial, MetricsResponse, StatusResponse
<1>5. QED
  BY <1>1, <1>2, <1>3, <1>4 DEF PipelineInv

LEMMA StepInv == PipelineInv /\ [Next]_vars => PipelineInv'
<1> SUFFICES ASSUME PipelineInv, [Next]_vars
             PROVE  PipelineInv'
  OBVIOUS
<1>1. TypeOK'
  BY TypeStep DEF PipelineInv
<1>2. QED
  BY <1>1, CycleOrderStep, ProgressStep, WriteStep, AgesStep, AgreeStep, BehindStep,
     CoherentStep DEF PipelineInv

\* Every reachable state satisfies PipelineInv: stages, locks, publication and
\* flags fit together, and nothing shown is ahead of the state (mod.rs:78-205,
\* state.rs:32-53, api.rs:53-129).
THEOREM PipelineInvariant == Spec => []PipelineInv
<1>1. QED
  BY InitInv, StepInv, PTL DEF Spec

\* Every variable keeps its type; no more cycles run than there were ticks.
THEOREM TypeCorrect == Spec => []TypeOK
<1>1. PipelineInv => TypeOK
  BY DEF PipelineInv
<1>2. QED
  BY <1>1, PipelineInvariant, PTL

\* No response mixes two publications (state.rs:32-45).
THEOREM Coherence == Spec => []ReplyCoherent
<1>1. PipelineInv => ReplyCoherent
  BY DEF PipelineInv
<1>2. QED
  BY <1>1, PipelineInvariant, PTL

\* Between cycles the flags describe exactly the snapshot in place, whichever
\* collectors fail (mod.rs:187-203).
THEOREM StatusAgreement == Spec => []StatusAgrees
<1>1. PipelineInv => StatusAgrees
  BY DEF PipelineInv
<1>2. QED
  BY <1>1, PipelineInvariant, PTL

\* A response only ever comes from Respond, which clones the state in place.
LEMMA ReplyStep ==
  ASSUME PipelineInv, [Next]_vars, NEW c \in Client, reply'[c] # reply[c]
  PROVE  reply'[c] = MetricsResponse(stamp, snapshot)
<1>1. ASSUME NEW d \in Client, Respond(d)
      PROVE  reply'[c] = MetricsResponse(stamp, snapshot)
  BY <1>1 DEF Respond, PipelineInv, TypeOK
<1>2. ASSUME reply' # reply
      PROVE  \E d \in Client : Respond(d)
  BY <1>2 DEF Next, vars, CollectorStep, ReaderStep, collectorVars, requestVars, Tick,
       StartCycle, CollectOk, CollectErr, AskWrite, AcquireWrite, WriteSection,
       StampAndRelease, UpdateStatus, AskRead, AcquireRead, GetStatus
<1>3. QED
  BY <1>1, <1>2

\* A client that polls never sees the timestamp or a section go back, whatever
\* the interleaving of its requests with publications (state.rs:32-45).
THEOREM Monotonicity == Spec => MonotoneReads
<1> DEFINE Later == \A c \in Client :
                      /\ reply'[c].stamp >= reply[c].stamp
                      /\ \A s \in Collector : reply'[c].sections[s] >= reply[c].sections[s]
<1>1. PipelineInv /\ [Next]_vars => [Later]_reply
  <2> SUFFICES ASSUME PipelineInv, [Next]_vars, NEW c \in Client
               PROVE  /\ reply'[c].stamp >= reply[c].stamp
                      /\ \A s \in Collector : reply'[c].sections[s] >= reply[c].sections[s]
    OBVIOUS
  <2>1. /\ stamp \in Nat /\ reply[c].stamp \in Nat /\ reply[c].stamp <= stamp
        /\ \A s \in Collector : /\ snapshot[s] \in Nat /\ reply[c].sections[s] \in Nat
                                /\ reply[c].sections[s] <= snapshot[s]
    BY DEF PipelineInv, TypeOK, ReadersBehind
  <2>2. CASE reply'[c] = reply[c]
    BY <2>1, <2>2
  <2>3. CASE reply'[c] # reply[c]
    <3>1. reply'[c] = MetricsResponse(stamp, snapshot)
      BY <2>3, ReplyStep
    <3>2. QED
      BY <2>1, <3>1 DEF MetricsResponse
  <2>4. QED
    BY <2>2, <2>3
<1>2. QED
  BY <1>1, PipelineInvariant, PTL DEF Spec, MonotoneReads

\* A client that was told a collector works is never given the placeholder of
\* that section afterwards: flags are published after data (mod.rs:187-203).
THEOREM FlagsAfterData == Spec => ToldThenSeen
<1> DEFINE Seen == \A c \in Client : \A s \in told[c].flags :
                     reply'[c] # reply[c] => reply'[c].sections[s] > 0
<1>1. PipelineInv /\ [Next]_vars => [Seen]_reply
  <2> SUFFICES ASSUME PipelineInv, [Next]_vars, NEW c \in Client,
                      NEW s \in told[c].flags, reply'[c] # reply[c]
               PROVE  reply'[c].sections[s] > 0
    OBVIOUS
  <2>1. reply'[c] = MetricsResponse(stamp, snapshot)
    BY ReplyStep
  <2>2. snapshot[s] > 0
    BY DEF PipelineInv, ReadersBehind
  <2>3. QED
    BY <2>1, <2>2 DEF MetricsResponse
<1>2. QED
  BY <1>1, PipelineInvariant, PTL DEF Spec, ToldThenSeen

-----------------------------------------------------------------------------
(***************************************************************************)
(* The refinement: each step of the pipeline is a step of AtomicMetrics    *)
(* under the mapping of Atomic, or changes nothing there.                  *)
(***************************************************************************)
LEMMA RefineInit == Init => Atomic!Init
  BY DEF Init, Atomic!Init, Atomic!Answer, Atomic!Report, Initial, MetricsResponse,
         StatusResponse, WriterHolds

\* Obtaining the write lock publishes all sections, the failed ones unchanged.
LEMMA RefinePublish ==
  ASSUME PipelineInv, AcquireWrite
  PROVE  \E failed \in SUBSET Fallible : Atomic!Publish(failed)
<1> DEFINE failed == Collector \ ok
<1>1. /\ pc = "lock" /\ pc' = "write" /\ cycle = stamp + 1
      /\ UNCHANGED <<cycle, staged, ok, snapshot, stamp, status, reply, told>>
  BY DEF AcquireWrite, PipelineInv, CycleOrder
<1>2. \A s \in Collector : Fetched(s) /\ (s \notin ok => s \in Fallible)
  BY <1>1 DEF PipelineInv, CollectProgress
<1>3. failed \in SUBSET Fallible
  BY <1>2
<1>4. staged = [s \in Collector |-> IF s \in failed THEN snapshot[s] ELSE stamp + 1]
  BY <1>1, <1>2 DEF Fetched, PipelineInv, TypeOK
<1>5. Atomic!Publish(failed)
  BY <1>1, <1>4 DEF Atomic!Publish, WriterHolds
<1>6. QED
  BY <1>3, <1>5

LEMMA RefineStep == PipelineInv /\ [Next]_vars => [Atomic!Next]_(Atomic!vars)
<1> SUFFICES ASSUME PipelineInv, [Next]_vars
             PROVE  [Atomic!Next]_(Atomic!vars)
  OBVIOUS
<1> USE DEF Atomic!vars, WriterHolds
<1>1. CASE Tick
  BY <1>1 DEF Tick, collectorVars, requestVars
<1>2. CASE StartCycle
  BY <1>2 DEF StartCycle, requestVars
<1>3. CASE CollectOk
  BY <1>3 DEF CollectOk, Advance, requestVars
<1>4. CASE CollectErr
  BY <1>4 DEF CollectErr, Advance, requestVars
<1>5. CASE AskWrite
  BY <1>5 DEF AskWrite
<1>6. CASE AcquireWrite
  BY <1>6, RefinePublish DEF Atomic!Next
<1>7. CASE WriteSection
  BY <1>7 DEF WriteSection, Advance, requestVars
<1>8. CASE StampAndRelease
  BY <1>8 DEF StampAndRelease, requestVars, PipelineInv, WriteProgress
<1>9. CASE UpdateStatus
  <2>1. ok \cap Flagged = {s \in Flagged : snapshot[s] = stamp}
    BY <1>9 DEF UpdateStatus, PipelineInv, WriteProgress, Flagged
  <2>2. Atomic!Flag
    BY <1>9, <2>1 DEF UpdateStatus, requestVars, Atomic!Flag
  <2>3. QED
    BY <2>2 DEF Atomic!Next
<1>10. ASSUME NEW c \in Client, AskRead(c)
       PROVE  [Atomic!Next]_(Atomic!vars)
  BY <1>10 DEF AskRead, collectorVars
<1>11. ASSUME NEW c \in Client, AcquireRead(c)
       PROVE  [Atomic!Next]_(Atomic!vars)
  BY <1>11 DEF AcquireRead, collectorVars
<1>12. ASSUME NEW c \in Client, Respond(c)
       PROVE  [Atomic!Next]_(Atomic!vars)
  <2>1. pc \notin {"write", "stamp"}
    BY <1>12 DEF Respond, PipelineInv, WriteProgress
  <2>2. Atomic!ReadMetrics(c)
    BY <1>12, <2>1 DEF Respond, collectorVars, MetricsResponse, Atomic!ReadMetrics, Atomic!Answer
  <2>3. QED
    BY <2>2 DEF Atomic!Next
<1>13. ASSUME NEW c \in Client, GetStatus(c)
       PROVE  [Atomic!Next]_(Atomic!vars)
  <2>1. Atomic!ReadStatus(c)
    BY <1>13 DEF GetStatus, collectorVars, StatusResponse, Atomic!ReadStatus, Atomic!Report
  <2>2. QED
    BY <2>1 DEF Atomic!Next
<1>14. CASE UNCHANGED vars
  BY <1>14 DEF vars, collectorVars, requestVars
<1>15. QED
  BY <1>1, <1>2, <1>3, <1>4, <1>5, <1>6, <1>7, <1>8, <1>9, <1>10, <1>11, <1>12,
     <1>13, <1>14 DEF Next, CollectorStep, ReaderStep

\* The pipeline implements AtomicMetrics: with its locks, stages and section by
\* section writes it looks to every client like one snapshot that is replaced
\* as a whole, and flags taken from it.
THEOREM Refinement == Spec => ImplementsAtomicMetrics
<1>1. QED
  BY RefineInit, RefineStep, PipelineInvariant, PTL
     DEF Spec, ImplementsAtomicMetrics, Atomic!Spec
=============================================================================
