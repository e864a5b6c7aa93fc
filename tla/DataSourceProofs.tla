-------------------------- MODULE DataSourceProofs --------------------------
(***************************************************************************)
(* Proofs about the two data sources: Fleet, for any agents, stored        *)
(* servers, ids, parts and calls, and any number of changes of the         *)
(* configuration; SampleData, for any tabs, names, slugs and random        *)
(* numbers, and any number of calls; and the choice between the two.       *)
(***************************************************************************)
EXTENDS DataSources, ArraysProofs

-----------------------------------------------------------------------------
\* The stored servers.

\* Leaving out servers, by their ids.
LEMMA FilterStored ==
  ASSUME NEW S, NEW s \in Seq(S), Distinct(s), NEW P \in SUBSET (1 .. Len(s))
  PROVE  Sublist(s, P) \in Seq(S) /\ Distinct(Sublist(s, P))
<1>0. Len(s) \in Nat
  OBVIOUS
<1>1. /\ Sublist(s, P) \in Seq(S) /\ Len(Sublist(s, P)) = Cardinality(P)
      /\ \A r \in 1 .. Cardinality(P) : Sublist(s, P)[r] = s[Positions(P)[r]]
  BY SublistType
<1>2. /\ Cardinality(P) \in Nat
      /\ \A r \in 1 .. Cardinality(P) : Positions(P)[r] \in 1 .. Len(s)
      /\ \A q, r \in 1 .. Cardinality(P) : q < r => Positions(P)[q] < Positions(P)[r]
  BY <1>0, PositionsAscend
<1>3. ASSUME NEW q \in 1 .. Cardinality(P), NEW r \in 1 .. Cardinality(P),
             Sublist(s, P)[q].id = Sublist(s, P)[r].id
      PROVE  q = r
  <2>1. Positions(P)[q] = Positions(P)[r]
    BY <1>1, <1>2, <1>3 DEF Distinct
  <2>2. Positions(P)[q] \in Nat /\ q \in Nat /\ r \in Nat
    BY <1>0, <1>2
  <2>3. q < r \/ r < q \/ q = r
    BY <2>2
  <2>4. QED
    BY <1>2, <2>1, <2>2, <2>3
<1>4. QED
  BY <1>1, <1>3 DEF Distinct

\* A server that is added again takes the place of the one with its id.
LEMMA StoredType ==
  ASSUME NEW i \in Id, NEW a \in Agent, stored \in Seq(Server), Distinct(stored)
  PROVE  Stored(i, a) \in Seq(Server) /\ Distinct(Stored(i, a))
<1> DEFINE P == {k \in 1 .. Len(stored) : stored[k].id # i}
           others == Sublist(stored, P)
<1>1. Stored(i, a) = Append(others, [id |-> i, agent |-> a])
  BY DEF Stored, Filter
<1>2. others \in Seq(Server) /\ Distinct(others)
  BY FilterStored
<1>3. \A r \in 1 .. Len(others) : others[r].id # i
  <2>1. \A r \in 1 .. Len(others) : \E k \in P : others[r] = stored[k]
    BY SublistElements
  <2>2. QED
    BY <2>1
<1>4. [id |-> i, agent |-> a] \in Server
  BY DEF Server
<1> HIDE DEF others
<1>5. Len(others) \in Nat
  BY <1>2
<1>6. Stored(i, a) \in Seq(Server) /\ Len(Stored(i, a)) = Len(others) + 1
      /\ Stored(i, a)[Len(others) + 1].id = i
      /\ \A k \in 1 .. Len(others) : Stored(i, a)[k] = others[k]
  BY <1>1, <1>2, <1>4
<1>7. QED
  BY <1>2, <1>3, <1>5, <1>6 DEF Distinct

\* The stored server of an id, if there is one.
LEMMA MatchingIs ==
  ASSUME NEW i \in Id, stored \in Seq(Server)
  PROVE  /\ Matching(i) # <<>> =>
              /\ Matching(i)[1].agent \in Agent
              /\ \E l \in 1 .. Len(stored) : stored[l] = [id |-> i, agent |-> Matching(i)[1].agent]
         /\ Matching(i) = <<>> => i \notin Ids(stored)
<1> DEFINE P == {k \in 1 .. Len(stored) : stored[k].id = i}
<1>1. Matching(i) = Sublist(stored, P)
  BY DEF Matching, Filter
<1> DEFINE found == Sublist(stored, P)
<1>a. found \in Seq(Server)
  BY SublistType
<1>b. /\ \A r \in 1 .. Len(found) : \E k \in P : found[r] = stored[k]
      /\ found = <<>> <=> P = {}
  BY SublistElements
<1>2. /\ \A r \in 1 .. Len(Matching(i)) : \E k \in P : Matching(i)[r] = stored[k]
      /\ Matching(i) = <<>> <=> P = {}
      /\ Matching(i) \in Seq(Server)
  BY <1>1, <1>a, <1>b
<1>3. ASSUME Matching(i) # <<>>
      PROVE  /\ Matching(i)[1].agent \in Agent
             /\ \E l \in 1 .. Len(stored) : stored[l] = [id |-> i, agent |-> Matching(i)[1].agent]
  <2>1. 1 \in 1 .. Len(Matching(i))
    BY <1>2, <1>3
  <2>2. PICK k \in P : Matching(i)[1] = stored[k]
    BY <1>2, <2>1
  <2>3. stored[k] \in Server /\ stored[k].id = i
    OBVIOUS
  <2>4. QED
    BY <2>2, <2>3 DEF Server
<1>4. QED
  BY <1>2, <1>3 DEF Ids

-----------------------------------------------------------------------------
\* One call: what each of its steps makes of the record of the call.

\* The loop goes on to the next stored server, or is over.
LEMMA NextStoredInv ==
  ASSUME NEW r \in CallRecord, r.op = "list", r.label # NoAgent, Progress(r.read, r.left, r.rows, r.moved)
  PROVE  /\ CallInv(NextStored(r))
         /\ NextStored(r).way # "global"
         /\ NextStored(r).rows = r.rows /\ NextStored(r).read = r.read
         /\ NextStored(r).op = "list" /\ NextStored(r).moved = r.moved
<1>1. CASE r.left = <<>>
  <2>1. NextStored(r) = [r EXCEPT !.stage = "done", !.pending = {}, !.way = "none", !.at = NoAgent]
    BY <1>1 DEF NextStored, Ended
  <2> DEFINE e == [r EXCEPT !.stage = "done", !.pending = {}, !.way = "none", !.at = NoAgent]
  <2>2. /\ e \in CallRecord
        /\ e.op = "list" /\ e.label = r.label /\ e.moved = r.moved /\ e.stage = "done" /\ e.way = "none"
        /\ e.pending = {} /\ e.rows = r.rows /\ e.read = r.read /\ e.left = r.left
    BY DEF CallRecord
  <2> HIDE DEF e
  <2>3. Progress(e.read, e.left, e.rows, e.moved)
    BY <2>2
  <2>4. QED
    BY <1>1, <2>1, <2>2, <2>3 DEF CallInv, WaitsFor, ListInv, e
<1>2. CASE r.left # <<>>
  <2>0. Head(r.left) = r.left[1] /\ r.left[1].agent \in Agent
    <3>1. r.left \in Seq(Server)
      BY DEF CallRecord
    <3>2. r.left[1] \in Server /\ Head(r.left) = r.left[1]
      BY <1>2, <3>1
    <3>3. QED
      BY <3>2 DEF Server
  <2> DEFINE e == Fetch(r, "own", Head(r.left).agent)
  <2>1. NextStored(r) = e
    BY <1>2 DEF NextStored
  <2>2. /\ e \in CallRecord
        /\ e.op = "list" /\ e.label = r.label /\ e.moved = r.moved /\ e.stage = "whole" /\ e.way = "own"
        /\ e.at = r.left[1].agent
        /\ e.pending = {} /\ e.rows = r.rows /\ e.read = r.read /\ e.left = r.left
    BY <2>0 DEF CallRecord, Fetch
  <2> HIDE DEF e
  <2>3. Progress(e.read, e.left, e.rows, e.moved)
    BY <2>2
  <2>4. QED
    BY <1>2, <2>0, <2>1, <2>2, <2>3 DEF CallInv, WaitsFor, ListInv
<1>3. QED
  BY <1>1, <1>2

\* The request to the configured agent is over: the loop begins.
LEMMA AfterGlobalInv ==
  ASSUME NEW r, CallInv(r), r.op = "list", r.way = "global", NEW ok \in BOOLEAN,
         stored \in Seq(Server)
  PROVE  LET e == AfterGlobal(r, ok) IN
         /\ CallInv(e) /\ e.way # "global" /\ e.op = "list" /\ e.read = stored
         /\ \A k \in 1 .. Len(e.rows) : e.rows[k].from = r.at
<1> DEFINE row  == Row(r, HostOf[r.at], r.label, TRUE)
           rows == IF ok THEN <<row>> ELSE <<>>
           e == [r EXCEPT !.read = stored, !.left = stored, !.rows = rows]
<1>0. r \in CallRecord /\ r.at \in Agent /\ r.label \in Agent /\ (r.at # r.label => r.moved)
  <2>1. r \in CallRecord /\ r.label # NoAgent /\ r.at \in Agent /\ (r.at # r.label => r.moved)
    BY DEF CallInv, ListInv, WaitsFor
  <2>2. QED
    BY <2>1 DEF CallRecord
<1>1. row = [id |-> HostOf[r.at], label |-> r.label, from |-> r.at, way |-> "global", online |-> TRUE]
  BY DEF Row
<1> HIDE DEF row
<1>2. row \in RowRecord /\ row.way = "global" /\ row.online /\ row.id = HostOf[row.from]
      /\ row.from = r.at /\ row.label = r.label
  BY <1>0, <1>1, HostAssumption DEF RowRecord
<1>3. rows \in Seq(RowRecord) /\ Len(rows) \in {0, 1} /\ (Len(rows) = 1 => rows[1] = row)
  BY <1>2
<1> HIDE DEF rows
<1>4. /\ e \in CallRecord /\ e.op = "list" /\ e.label # NoAgent /\ e.rows = rows
      /\ e.read = stored /\ e.left = stored /\ e.moved = r.moved /\ e.label = r.label
  <2>1. e \in CallRecord
    BY <1>0, <1>3 DEF CallRecord
  <2>2. QED
    BY <1>0, <2>1, AgentsAssumption DEF CallRecord
<1>5. AfterGlobal(r, ok) = NextStored(e)
  BY DEF AfterGlobal, ReadStored, rows, row
<1> HIDE DEF e
<1>6. Progress(e.read, e.left, e.rows, e.moved)
  <2>1. Len(stored) \in Nat
    OBVIOUS
  <2>2. Len(e.rows) + Len(e.left) - Len(e.read) = Len(rows) /\ Len(e.read) - Len(e.left) = 0
    BY <1>3, <1>4, <2>1
  <2>3. \A k \in 1 .. Len(e.left) : e.left[k] = e.read[Len(e.read) - Len(e.left) + k]
    BY <1>4, <2>1
  <2>4. Len(rows) = 1 =>
         /\ e.rows[1].way = "global" /\ e.rows[1].online /\ e.rows[1].id = HostOf[e.rows[1].from]
         /\ e.rows[1].from # e.rows[1].label => e.moved
    BY <1>0, <1>2, <1>3, <1>4
  <2>5. QED
    BY <1>3, <1>4, <2>1, <2>2, <2>3, <2>4 DEF Progress
<1>7. QED
  BY <1>2, <1>3, <1>4, <1>5, <1>6, NextStoredInv

\* Progress of a list by one stored server.
LEMMA ProgressStep ==
  ASSUME NEW read \in Seq(Server), NEW left \in Seq(Server), NEW rows \in Seq(RowRecord),
         NEW moved \in BOOLEAN, NEW row \in RowRecord, left # <<>>, Progress(read, left, rows, moved),
         row.way = "own", row.id = left[1].id, row.label = left[1].agent, row.from = left[1].agent
  PROVE  Progress(read, Tail(left), Append(rows, row), moved)
<1> DEFINE visited == Len(read) - Len(left)
           extra   == Len(rows) - visited
           rest    == Tail(left)
           more    == Append(rows, row)
<1>0. Len(read) \in Nat /\ Len(left) \in Nat /\ Len(rows) \in Nat /\ Len(left) # 0
  OBVIOUS
<1>1. /\ rest \in Seq(Server) /\ Len(rest) = Len(left) - 1
      /\ \A k \in 1 .. Len(left) - 1 : rest[k] = left[k + 1]
  OBVIOUS
<1>2. /\ Len(more) = Len(rows) + 1 /\ more[Len(rows) + 1] = row
      /\ \A k \in 1 .. Len(rows) : more[k] = rows[k]
  OBVIOUS
<1>3. visited >= 0 /\ extra \in {0, 1}
  BY DEF Progress
<1>4. visited \in Nat /\ Len(rows) = visited + extra /\ Len(read) = visited + Len(left)
  BY <1>0, <1>3
<1>5. \A k \in 1 .. Len(left) : left[k] = read[k + visited]
  BY DEF Progress
<1>6. \A k \in 1 .. visited :
        /\ rows[k + extra].id = read[k].id /\ rows[k + extra].way = "own"
        /\ rows[k + extra].label = read[k].agent /\ rows[k + extra].from = read[k].agent
  BY DEF Progress
<1>7. extra = 1 =>
        /\ rows[1].way = "global" /\ rows[1].online /\ rows[1].id = HostOf[rows[1].from]
        /\ rows[1].from # rows[1].label => moved
  BY DEF Progress
<1> HIDE DEF visited, extra, rest, more
<1>8. Len(read) - Len(rest) = visited + 1 /\ Len(more) - (visited + 1) = extra
  BY <1>0, <1>1, <1>2, <1>3, <1>4
<1>9. ASSUME NEW k \in 1 .. Len(rest)
      PROVE  rest[k] = read[k + (visited + 1)]
  <2>1. k \in 1 .. Len(left) - 1 /\ k + 1 \in 1 .. Len(left)
    BY <1>0, <1>1
  <2>2. (k + 1) + visited = k + (visited + 1)
    BY <1>4
  <2>3. QED
    BY <1>1, <1>5, <2>1, <2>2
<1>10. ASSUME NEW k \in 1 .. visited + 1
       PROVE  /\ more[k + extra].id = read[k].id /\ more[k + extra].way = "own"
              /\ more[k + extra].label = read[k].agent /\ more[k + extra].from = read[k].agent
  <2>1. CASE k \in 1 .. visited
    <3>1. k + extra \in 1 .. Len(rows)
      BY <1>3, <1>4, <2>1
    <3>2. QED
      BY <1>2, <1>6, <2>1, <3>1
  <2>2. CASE k = visited + 1
    <3>1. k + extra = Len(rows) + 1
      BY <1>3, <1>4, <2>2
    <3>2. 1 \in 1 .. Len(left) /\ 1 + visited = k
      BY <1>0, <1>4, <2>2
    <3>3. left[1] = read[k]
      BY <1>5, <3>2
    <3>4. QED
      BY <1>2, <3>1, <3>3
  <2>3. QED
    BY <1>4, <2>1, <2>2
<1>11. extra = 1 =>
         /\ more[1].way = "global" /\ more[1].online /\ more[1].id = HostOf[more[1].from]
         /\ more[1].from # more[1].label => moved
  <2>1. extra = 1 => 1 \in 1 .. Len(rows)
    BY <1>4
  <2>2. QED
    BY <1>2, <1>7, <2>1
<1> DEFINE visited2 == Len(read) - Len(rest)
           extra2   == Len(more) - visited2
<1>12. visited2 = visited + 1 /\ extra2 = extra
  BY <1>8
<1> HIDE DEF visited2, extra2
<1>13. /\ visited2 >= 0 /\ extra2 \in {0, 1}
       /\ \A k \in 1 .. Len(rest) : rest[k] = read[k + visited2]
       /\ \A k \in 1 .. visited2 :
            /\ more[k + extra2].id = read[k].id /\ more[k + extra2].way = "own"
            /\ more[k + extra2].label = read[k].agent /\ more[k + extra2].from = read[k].agent
       /\ extra2 = 1 =>
            /\ more[1].way = "global" /\ more[1].online /\ more[1].id = HostOf[more[1].from]
            /\ more[1].from # more[1].label => moved
  <2>1. visited2 >= 0
    BY <1>4, <1>12
  <2>2. QED
    BY <1>3, <1>9, <1>10, <1>11, <1>12, <2>1
<1>14. Progress(read, rest, more, moved)
  BY <1>13 DEF Progress, visited2, extra2
<1>15. QED
  BY <1>14 DEF rest, more

\* A stored server has got its row.
LEMMA AfterStoredInv ==
  ASSUME NEW r, CallInv(r), r.op = "list", r.way = "own", NEW ok \in BOOLEAN
  PROVE  LET e == AfterStored(r, ok) IN
         /\ CallInv(e) /\ e.way # "global" /\ e.op = "list" /\ e.read = r.read
         /\ \A k \in 1 .. Len(e.rows) :
              e.rows[k].way = "global" => \E l \in 1 .. Len(r.rows) : e.rows[k] = r.rows[l]
<1> DEFINE row == Row(r, Head(r.left).id, Head(r.left).agent, ok)
           e == [r EXCEPT !.rows = Append(@, row), !.left = Tail(@)]
<1>0. /\ r \in CallRecord /\ r.label # NoAgent /\ r.left # <<>> /\ r.at = r.left[1].agent
      /\ Progress(r.read, r.left, r.rows, r.moved)
  BY DEF CallInv, ListInv
<1>1. r.left \in Seq(Server) /\ r.read \in Seq(Server) /\ r.rows \in Seq(RowRecord)
  BY <1>0 DEF CallRecord
<1>2. Head(r.left) = r.left[1] /\ r.left[1] \in Server /\ Len(r.left) \in Nat \ {0}
  BY <1>0, <1>1
<1>3. row = [id |-> r.left[1].id, label |-> r.left[1].agent, from |-> r.left[1].agent,
             way |-> "own", online |-> ok]
  BY <1>0, <1>2 DEF Row
<1>4. row \in RowRecord
  BY <1>2, <1>3 DEF RowRecord, Server
<1> HIDE DEF row
<1>5. /\ Tail(r.left) \in Seq(Server) /\ Len(Tail(r.left)) = Len(r.left) - 1
      /\ \A k \in 1 .. Len(r.left) - 1 : Tail(r.left)[k] = r.left[k + 1]
  BY <1>1, <1>2, <1>0
<1>6. /\ Append(r.rows, row) \in Seq(RowRecord) /\ Len(Append(r.rows, row)) = Len(r.rows) + 1
      /\ Append(r.rows, row)[Len(r.rows) + 1] = row
      /\ \A k \in 1 .. Len(r.rows) : Append(r.rows, row)[k] = r.rows[k]
  BY <1>1, <1>4
<1>7. /\ e \in CallRecord /\ e.op = "list" /\ e.label # NoAgent /\ e.moved = r.moved
      /\ e.rows = Append(r.rows, row) /\ e.left = Tail(r.left) /\ e.read = r.read
  BY <1>0, <1>5, <1>6 DEF CallRecord
<1>8. AfterStored(r, ok) = NextStored(e)
  BY DEF AfterStored, row
<1> HIDE DEF e
<1>9. Progress(e.read, e.left, e.rows, e.moved)
  <2>1. r.moved \in BOOLEAN
    BY <1>0 DEF CallRecord
  <2>2. Progress(r.read, Tail(r.left), Append(r.rows, row), r.moved)
    BY <1>0, <1>1, <1>3, <1>4, <2>1, ProgressStep
  <2>3. QED
    BY <1>7, <2>2
<1>10. ASSUME NEW k \in 1 .. Len(e.rows), e.rows[k].way = "global"
       PROVE  \E l \in 1 .. Len(r.rows) : e.rows[k] = r.rows[l]
  <2>1. e.rows[k] # row
    BY <1>3, <1>10
  <2>2. k \in 1 .. Len(r.rows)
    BY <1>1, <1>6, <1>7, <2>1
  <2>3. QED
    BY <1>6, <1>7, <2>2
<1>11. /\ CallInv(NextStored(e)) /\ NextStored(e).way # "global" /\ NextStored(e).op = "list"
       /\ NextStored(e).rows = e.rows /\ NextStored(e).read = e.read
  BY <1>7, <1>9, NextStoredInv
<1>12. QED
  BY <1>7, <1>8, <1>10, <1>11

\* A call that is not a list is over.
LEMMA AfterOtherInv ==
  ASSUME NEW r, CallInv(r), r.op \in {"metrics", "restart", "add"}, r.way # "none", NEW ok \in BOOLEAN
  PROVE  LET e == After(r, ok) IN
         /\ CallInv(e) /\ e.way = "none" /\ e.op = r.op /\ e.read = r.read
         /\ \A k \in 1 .. Len(e.rows) : e.rows[k].way = r.way /\ e.rows[k].from = r.at
<1> DEFINE row  == Row(r, r.id, r.at, TRUE)
           rows == IF ok THEN <<row>> ELSE <<>>
           e == [r EXCEPT !.rows = rows, !.stage = IF ok THEN "done" ELSE "failed", !.pending = {},
                          !.way = "none", !.at = NoAgent]
<1>0. r \in CallRecord /\ r.at \in Agent /\ r.id \in Id /\ r.way \in {"own", "global"} /\ IsTarget(r, r.way, r.at)
  <2>1. r \in CallRecord /\ r.at \in Agent /\ r.id \in Id /\ IsTarget(r, r.way, r.at)
    BY DEF CallInv, OtherInv, WaitsFor
  <2>2. QED
    BY <2>1 DEF CallRecord
<1>1. row = [id |-> r.id, label |-> r.at, from |-> r.at, way |-> r.way, online |-> TRUE]
  BY DEF Row
<1> HIDE DEF row
<1>2. row \in RowRecord
  BY <1>0, <1>1 DEF RowRecord
<1>3. /\ rows \in Seq(RowRecord)
      /\ ok => Len(rows) = 1 /\ rows[1] = row
      /\ ~ ok => rows = <<>>
  BY <1>2
<1> HIDE DEF rows
<1>4. After(r, ok) = e
  BY DEF After, Ended, rows, row
<1>5. /\ e \in CallRecord /\ e.op = r.op /\ e.id = r.id /\ e.read = r.read /\ e.way = "none"
      /\ e.pending = {} /\ e.rows = rows /\ e.stage = IF ok THEN "done" ELSE "failed"
  BY <1>0, <1>3 DEF CallRecord
<1> HIDE DEF e
<1>6. OtherInv(e)
  <2>1. ok => IsTarget(e, e.rows[1].way, e.rows[1].from)
    BY <1>0, <1>1, <1>3, <1>5 DEF IsTarget
  <2>2. ok => Len(e.rows) = 1 /\ e.rows[1].id = e.id /\ e.rows[1].from = e.rows[1].label
    BY <1>1, <1>3, <1>5
  <2>3. QED
    BY <1>0, <1>3, <1>5, <2>1, <2>2 DEF OtherInv
<1>7. CallInv(e)
  BY <1>5, <1>6 DEF CallInv, WaitsFor
<1>8. QED
  BY <1>1, <1>3, <1>4, <1>5, <1>7

\* A fetch or a restart is over.
LEMMA AfterInv ==
  ASSUME NEW r, CallInv(r), r.way # "none", NEW ok \in BOOLEAN, stored \in Seq(Server)
  PROVE  LET e == After(r, ok) IN
         /\ CallInv(e) /\ e.op = r.op /\ e.way # "global"
         /\ UpToDate(r) => UpToDate(e)
<1> DEFINE e == After(r, ok)
<1>0. /\ r.op \in {"none", "list", "metrics", "restart", "add"} /\ r.way \in {"none", "own", "global"}
      /\ r.op # "none" /\ r.rows \in Seq(RowRecord)
  <2>1. r \in CallRecord /\ (r.op = "none" => r = Fresh)
    BY DEF CallInv
  <2>2. Fresh.way = "none"
    BY DEF Fresh
  <2>3. QED
    BY <2>1, <2>2 DEF CallRecord
<1>1. CASE r.op = "list" /\ r.way = "global"
  <2>1. e = AfterGlobal(r, ok)
    BY <1>1 DEF After
  <2> HIDE DEF e
  <2>2. /\ CallInv(e) /\ e.way # "global" /\ e.op = "list" /\ e.read = stored
        /\ \A k \in 1 .. Len(e.rows) : e.rows[k].from = r.at
    BY <1>1, <2>1, AfterGlobalInv
  <2>3. QED
    BY <1>1, <2>2 DEF UpToDate, e
<1>2. CASE r.op = "list" /\ r.way = "own"
  <2>1. e = AfterStored(r, ok)
    BY <1>2 DEF After
  <2> HIDE DEF e
  <2>2. /\ CallInv(e) /\ e.way # "global" /\ e.op = "list" /\ e.read = r.read
        /\ \A k \in 1 .. Len(e.rows) :
             e.rows[k].way = "global" => \E l \in 1 .. Len(r.rows) : e.rows[k] = r.rows[l]
    BY <1>2, <2>1, AfterStoredInv
  <2>3. UpToDate(r) => UpToDate(e)
    BY <1>2, <2>2 DEF UpToDate
  <2>4. QED
    BY <1>2, <2>2, <2>3 DEF e
<1>3. CASE r.op \in {"metrics", "restart", "add"}
  <2> HIDE DEF e
  <2>1. /\ CallInv(e) /\ e.way = "none" /\ e.op = r.op /\ e.read = r.read
        /\ \A k \in 1 .. Len(e.rows) : e.rows[k].way = r.way /\ e.rows[k].from = r.at
    BY <1>3, AfterOtherInv DEF e
  <2>2. UpToDate(r) => UpToDate(e)
    BY <1>3, <2>1 DEF UpToDate
  <2>3. QED
    BY <2>1, <2>2 DEF e
<1>4. QED
  BY <1>0, <1>1, <1>2, <1>3

\* The second round of requests.
LEMMA RetryInv ==
  ASSUME NEW r, CallInv(r), Labelled(r), r.stage = "whole", r.way = "global" => global \in Agent
  PROVE  LET e == Retry(r) IN
         /\ CallInv(e) /\ e.op = r.op /\ Labelled(e)
         /\ UpToDate(r) => UpToDate(e)
<1> DEFINE e == Retry(r)
           at == IF r.way = "own" THEN r.at ELSE global
<1>0. r \in CallRecord /\ r.way \in {"own", "global"} /\ r.at \in Agent /\ r.op # "none"
  <2>1. /\ r \in CallRecord /\ (r.op = "none" => r = Fresh) /\ r.way # "none" /\ (r.way # "none" => r.at \in Agent)
    BY DEF CallInv, WaitsFor
  <2>2. Fresh.stage = "new"
    BY DEF Fresh
  <2>3. QED
    BY <2>1, <2>2 DEF CallRecord
<1>1. at \in Agent /\ (r.way = "own" => at = r.at) /\ (r.way = "global" => at = global)
  BY <1>0
<1>2. e = [r EXCEPT !.stage = "parts", !.at = at, !.pending = Part]
  BY <1>0 DEF Retry, CallRecord
<1> HIDE DEF at
<1>3. /\ e \in CallRecord /\ e.op = r.op /\ e.id = r.id /\ e.way = r.way /\ e.at = at /\ e.stage = "parts"
      /\ e.pending = Part /\ e.label = r.label /\ e.read = r.read /\ e.left = r.left /\ e.rows = r.rows
      /\ e.moved = r.moved
  BY <1>0, <1>1, <1>2 DEF CallRecord
<1> HIDE DEF e
<1>4. WaitsFor(e)
  BY <1>0, <1>1, <1>3, PartsAssumption DEF WaitsFor
<1>5. r.op = "list" => ListInv(e)
  <2> SUFFICES ASSUME r.op = "list"
               PROVE  ListInv(e)
    OBVIOUS
  <2>1. ListInv(r)
    BY DEF CallInv
  <2>2. e.way = "global" => e.rows = <<>> /\ (e.at # e.label => e.moved)
    <3>1. r.moved \in BOOLEAN
      BY <1>0 DEF CallRecord
    <3>2. QED
      BY <1>1, <1>3, <2>1, <3>1 DEF ListInv, Labelled
  <2>3. e.way # "global" => Progress(e.read, e.left, e.rows, e.moved)
    BY <1>3, <2>1 DEF ListInv
  <2>4. QED
    BY <1>1, <1>3, <2>1, <2>2, <2>3 DEF ListInv
<1>6. r.op \in {"metrics", "restart", "add"} => OtherInv(e)
  <2> SUFFICES ASSUME r.op \in {"metrics", "restart", "add"}
               PROVE  OtherInv(e)
    OBVIOUS
  <2>1. OtherInv(r)
    BY DEF CallInv
  <2>2. IsTarget(e, e.way, e.at)
    BY <1>0, <1>1, <1>3, <2>1 DEF OtherInv, IsTarget
  <2>3. QED
    BY <1>3, <2>1, <2>2 DEF OtherInv
<1>7. CallInv(e)
  BY <1>0, <1>3, <1>4, <1>5, <1>6 DEF CallInv
<1>8. Labelled(e)
  BY <1>3 DEF Labelled
<1>9. UpToDate(r) => UpToDate(e)
  BY <1>1, <1>3 DEF UpToDate
<1>10. QED
  BY <1>3, <1>7, <1>8, <1>9 DEF e

\* A step that changes one field and no more: the parts that are pending, or
\* that a list under way is told of another configuration.
LEMMA SmallStepInv ==
  ASSUME NEW r, CallInv(r), NEW e \in CallRecord, r.way # "none",
         e.op = r.op, e.id = r.id, e.way = r.way, e.at = r.at, e.stage = r.stage,
         e.label = r.label, e.read = r.read, e.left = r.left, e.rows = r.rows, r.moved => e.moved,
         e.pending # {} <=> r.pending # {}
  PROVE  CallInv(e)
<1>0. r \in CallRecord /\ WaitsFor(r) /\ r.op # "none"
  <2>1. Fresh.way = "none"
    BY DEF Fresh
  <2>2. QED
    BY <2>1 DEF CallInv
<1>1. WaitsFor(e)
  BY <1>0 DEF WaitsFor
<1>2. r.op = "list" => ListInv(e)
  <2> SUFFICES ASSUME r.op = "list"
               PROVE  ListInv(e)
    OBVIOUS
  <2>1. ListInv(r)
    BY DEF CallInv
  <2>2. r.way # "global" => Progress(e.read, e.left, e.rows, e.moved)
    <3>1. r.way # "global" => Progress(r.read, r.left, r.rows, r.moved)
      BY <2>1 DEF ListInv
    <3>2. \A read, left, rows : Progress(read, left, rows, r.moved) => Progress(read, left, rows, e.moved)
      BY DEF Progress
    <3>3. QED
      BY <3>1, <3>2
  <2>3. QED
    BY <2>1, <2>2 DEF ListInv
<1>3. r.op \in {"metrics", "restart", "add"} => OtherInv(e)
  <2> SUFFICES ASSUME r.op \in {"metrics", "restart", "add"}
               PROVE  OtherInv(e)
    OBVIOUS
  <2>1. OtherInv(r)
    BY DEF CallInv
  <2>2. QED
    BY <2>1 DEF OtherInv, IsTarget
<1>4. QED
  BY <1>0, <1>1, <1>2, <1>3 DEF CallInv

LEMMA FreshType == Fresh \in CallRecord /\ Fresh.rows = <<>>
  BY DEF Fresh, CallRecord

\* A call up to its first request: a list, the panels or a restart of a
\* server, and the first fetch from a server that is added.
LEMMA ListAsked ==
  ASSUME TypeOK, global # NoAgent
  PROVE  LET r == List([Fresh EXCEPT !.op = "list"]) IN CallInv(r) /\ Labelled(r) /\ UpToDate(r)
<1> DEFINE r == List([Fresh EXCEPT !.op = "list"])
<1>0. global \in Agent
  BY DEF TypeOK
<1>1. /\ r \in CallRecord /\ r.op = "list" /\ r.way = "global" /\ r.at = global /\ r.stage = "whole"
      /\ r.pending = {} /\ r.label = global /\ r.rows = <<>>
  BY <1>0, FreshType DEF List, Fetch, CallRecord
<1> HIDE DEF r
<1>3. ListInv(r) /\ WaitsFor(r)
  BY <1>0, <1>1, AgentsAssumption DEF ListInv, WaitsFor
<1>4. CallInv(r) /\ Labelled(r) /\ UpToDate(r)
  BY <1>1, <1>3 DEF CallInv, Labelled, UpToDate
<1>5. QED
  BY <1>4 DEF r

LEMMA TargetAsked ==
  ASSUME TypeOK, global # NoAgent, NEW op \in {"metrics", "restart"}, NEW i \in Id
  PROVE  LET r == Targeted([Fresh EXCEPT !.op = op, !.id = i, !.read = stored]) IN
         CallInv(r) /\ Labelled(r) /\ UpToDate(r)
<1> DEFINE first == [Fresh EXCEPT !.op = op, !.id = i, !.read = stored]
           own   == Matching(i) # <<>>
           at    == IF own THEN Matching(i)[1].agent ELSE global
           way   == IF own THEN "own" ELSE "global"
           r     == Targeted(first)
<1>0. global \in Agent /\ stored \in Seq(Server)
  BY DEF TypeOK
<1>1. /\ first \in CallRecord /\ first.op = op /\ first.id = i /\ first.read = stored /\ first.rows = <<>>
  BY <1>0, FreshType DEF CallRecord
<1>2. first.id = i
  BY <1>1
<1> HIDE DEF first
<1>3. r = Fetch(first, way, at)
  BY <1>2 DEF Targeted
<1>4. /\ own => at \in Agent /\ \E l \in 1 .. Len(stored) : stored[l] = [id |-> i, agent |-> at]
      /\ ~ own => at = global /\ i \notin Ids(stored)
  BY <1>0, MatchingIs
<1>5. way \in {"own", "global"} /\ (way = "own" <=> own)
  OBVIOUS
<1> HIDE DEF own, at, way
<1>6. at \in Agent
  BY <1>0, <1>4
<1> HIDE DEF r
<1>7. /\ r \in CallRecord /\ r.op = op /\ r.id = i /\ r.way = way /\ r.at = at /\ r.stage = "whole"
      /\ r.pending = {} /\ r.read = stored /\ r.rows = <<>>
  BY <1>1, <1>3, <1>5, <1>6 DEF Fetch, CallRecord
<1>10. IsTarget(r, r.way, r.at)
  BY <1>4, <1>5, <1>7 DEF IsTarget
<1>11. OtherInv(r) /\ WaitsFor(r)
  BY <1>5, <1>6, <1>7, <1>10 DEF OtherInv, WaitsFor
<1>12. CallInv(r)
  BY <1>7, <1>11 DEF CallInv
<1>13. Labelled(r) /\ UpToDate(r)
  BY <1>4, <1>5, <1>7 DEF Labelled, UpToDate
<1>14. QED
  BY <1>12, <1>13 DEF r, first

LEMMA AddAsked ==
  ASSUME NEW i \in Id, NEW a \in Agent
  PROVE  LET r == Fetch([Fresh EXCEPT !.op = "add", !.id = i], "own", a) IN
         CallInv(r) /\ Labelled(r) /\ UpToDate(r)
<1> DEFINE r == Fetch([Fresh EXCEPT !.op = "add", !.id = i], "own", a)
<1>1. /\ r \in CallRecord /\ r.op = "add" /\ r.id = i /\ r.way = "own" /\ r.at = a /\ r.stage = "whole"
      /\ r.pending = {} /\ r.rows = <<>>
  BY FreshType DEF Fetch, CallRecord
<1> HIDE DEF r
<1>3. OtherInv(r) /\ WaitsFor(r)
  BY <1>1 DEF OtherInv, WaitsFor, IsTarget
<1>4. CallInv(r) /\ Labelled(r) /\ UpToDate(r)
  BY <1>1, <1>3 DEF CallInv, Labelled, UpToDate
<1>5. QED
  BY <1>4 DEF r

-----------------------------------------------------------------------------
\* All calls.

LEMMA InitInv == Init => FleetInv
<1> SUFFICES ASSUME Init
             PROVE  FleetInv
  OBVIOUS
<1>1. Fresh \in CallRecord
  BY FreshType
<1>2. CallInv(Fresh) /\ Labelled(Fresh)
  BY <1>1 DEF CallInv, WaitsFor, Labelled, Fresh
<1>3. TypeOK
  BY <1>1, KeptAssumption DEF Init, TypeOK, Server, Distinct
<1>4. UpToDate(Fresh)
  BY DEF UpToDate, Fresh
<1>5. QED
  BY <1>2, <1>3, <1>4 DEF Init, FleetInv

\* A step of one call.
LEMMA OneCallInv ==
  ASSUME FleetInv, NEW c \in Call, NEW e,
         call' = [call EXCEPT ![c] = e], UNCHANGED <<global, saves>>,
         stored' \in Seq(Server), Distinct(stored)',
         CallInv(e), Labelled(e), call[c].op \in {"none", e.op},
         e.op # "add" => stored' = stored, UpToDate(call[c]) => UpToDate(e)
  PROVE  FleetInv'
<1>1. call \in [Call -> CallRecord] /\ e \in CallRecord
  BY DEF FleetInv, TypeOK, CallInv
<1>2. call'[c] = e /\ \A d \in Call \ {c} : call'[d] = call[d]
  BY <1>1
<1>3. TypeOK'
  BY <1>1 DEF FleetInv, TypeOK
<1>4. \A d \in Call : CallInv(call[d])'
  BY <1>2 DEF FleetInv
<1>5. \A d \in Call : Labelled(call[d])'
  BY <1>2 DEF FleetInv, Labelled
<1>6. ASSUME Quiet'
      PROVE  \A d \in Call : UpToDate(call[d])'
  <2>1. e.op # "add" /\ Quiet
    BY <1>2, <1>6 DEF Quiet
  <2>2. stored' = stored /\ \A d \in Call : UpToDate(call[d])
    BY <2>1 DEF FleetInv
  <2>3. UpToDate(e)
    BY <2>2
  <2>4. QED
    BY <1>2, <2>2, <2>3 DEF UpToDate
<1>7. QED
  BY <1>3, <1>4, <1>5, <1>6 DEF FleetInv

LEMMA FinishInv ==
  ASSUME FleetInv, NEW c \in Call, NEW ok \in BOOLEAN, Asking(c), Finish(c, ok), UNCHANGED <<global, saves>>
  PROVE  FleetInv'
<1> DEFINE e == After(call[c], ok)
<1>1. CallInv(call[c]) /\ Labelled(call[c]) /\ TypeOK
  BY DEF FleetInv
<1>2. call[c].way # "none" /\ call[c].at \in Agent
  BY <1>1 DEF CallInv, WaitsFor, Asking
<1>3. /\ CallInv(e) /\ e.op = call[c].op /\ e.way # "global"
      /\ UpToDate(call[c]) => UpToDate(e)
  BY <1>1, <1>2, AfterInv DEF TypeOK
<1> HIDE DEF e
<1>4. call' = [call EXCEPT ![c] = e]
  BY DEF Finish, e
<1>5. call[c].op = "add" => call[c].id \in Id
  BY <1>1 DEF CallInv, OtherInv
<1>6. stored' \in Seq(Server) /\ Distinct(stored')
  <2>1. CASE call[c].op = "add" /\ ok
    BY <1>1, <1>2, <1>5, <2>1, StoredType DEF Finish, TypeOK
  <2>2. CASE ~ (call[c].op = "add" /\ ok)
    BY <1>1, <2>2 DEF Finish, TypeOK
  <2>3. QED
    BY <2>1, <2>2
<1>7. e.op # "add" => stored' = stored
  BY <1>3 DEF Finish
<1>8. Labelled(e)
  BY <1>3 DEF Labelled
<1>9. Distinct(stored)'
  BY <1>6 DEF Distinct
<1>10. QED
  BY <1>3, <1>4, <1>6, <1>7, <1>8, <1>9, OneCallInv

LEMMA StepInv == FleetInv /\ [Next]_vars => FleetInv'
<1> SUFFICES ASSUME FleetInv, [Next]_vars
             PROVE  FleetInv'
  OBVIOUS
<1>0. TypeOK /\ \A c \in Call : CallInv(call[c]) /\ Labelled(call[c])
  BY DEF FleetInv
<1>1. ASSUME NEW c \in Call, Ask(c)
      PROVE  FleetInv'
  <2>1. \E r : Begin(c, r) /\ CallInv(r) /\ Labelled(r) /\ UpToDate(r)
    <3>0. global # NoAgent
      BY <1>1 DEF Ask
    <3>1. CASE Begin(c, List([Fresh EXCEPT !.op = "list"]))
      BY <1>0, <3>0, <3>1, ListAsked
    <3>2. CASE \E op \in {"metrics", "restart"}, i \in Id :
                 Begin(c, Targeted([Fresh EXCEPT !.op = op, !.id = i, !.read = stored]))
      BY <1>0, <3>0, <3>2, TargetAsked
    <3>3. CASE \E i \in Id, a \in Agent : Begin(c, Fetch([Fresh EXCEPT !.op = "add", !.id = i], "own", a))
      BY <3>3, AddAsked
    <3>4. QED
      BY <1>1, <3>1, <3>2, <3>3 DEF Ask
  <2>2. call[c].op = "none" /\ UNCHANGED <<global, stored, saves>>
    BY <1>1 DEF Ask
  <2>3. stored' \in Seq(Server) /\ Distinct(stored)'
    BY <1>0, <2>2 DEF TypeOK, Distinct
  <2>4. PICK r : Begin(c, r) /\ CallInv(r) /\ Labelled(r) /\ UpToDate(r)
    BY <2>1
  <2>5. QED
    BY <2>2, <2>3, <2>4, OneCallInv DEF Begin
<1>2. ASSUME NEW c \in Call, Answered(c) \/ Refused(c) \/ PartFailed(c)
      PROVE  FleetInv'
  BY <1>2, FinishInv DEF Answered, Refused, PartFailed, Asking
<1>3. ASSUME NEW c \in Call, Unanswered(c)
      PROVE  FleetInv'
  <2>1. CASE call[c].op = "restart" \/ (call[c].way = "global" /\ global = NoAgent)
    BY <1>3, <2>1, FinishInv DEF Unanswered, Asking
  <2>2. CASE ~ (call[c].op = "restart" \/ (call[c].way = "global" /\ global = NoAgent))
    <3>1. /\ call' = [call EXCEPT ![c] = Retry(call[c])] /\ call[c].stage = "whole"
          /\ UNCHANGED <<global, stored, saves>>
      BY <1>3, <2>2 DEF Unanswered
    <3>2. call[c].way = "global" => global \in Agent
      BY <1>0, <2>2 DEF TypeOK
    <3>3. /\ CallInv(Retry(call[c])) /\ Retry(call[c]).op = call[c].op /\ Labelled(Retry(call[c]))
          /\ UpToDate(call[c]) => UpToDate(Retry(call[c]))
      BY <1>0, <3>1, <3>2, RetryInv
    <3>4. stored' \in Seq(Server) /\ Distinct(stored)'
      BY <1>0, <3>1 DEF TypeOK, Distinct
    <3>5. QED
      BY <3>1, <3>3, <3>4, OneCallInv
  <2>3. QED
    BY <2>1, <2>2
<1>4. ASSUME NEW c \in Call, PartAnswered(c)
      PROVE  FleetInv'
  <2>1. PICK p \in call[c].pending :
          IF call[c].pending = {p}
            THEN Finish(c, TRUE)
            ELSE call' = [call EXCEPT ![c].pending = @ \ {p}] /\ UNCHANGED stored
    BY <1>4 DEF PartAnswered
  <2>2. call[c].stage = "parts" /\ UNCHANGED <<global, saves>>
    BY <1>4 DEF PartAnswered
  <2>3. CASE call[c].pending = {p}
    BY <2>1, <2>2, <2>3, FinishInv DEF Asking
  <2>4. CASE call[c].pending # {p}
    <3> DEFINE r == call[c]
               e == [r EXCEPT !.pending = @ \ {p}]
    <3>1. call' = [call EXCEPT ![c] = e] /\ UNCHANGED stored
      BY <2>1, <2>4
    <3>2. r \in CallRecord /\ r.way # "none"
      BY <1>0, <2>2 DEF CallInv, WaitsFor
    <3>3. r.pending \ {p} # {} <=> r.pending # {}
      BY <2>4
    <3>4. /\ e \in CallRecord /\ e.pending = r.pending \ {p}
          /\ e.op = r.op /\ e.id = r.id /\ e.way = r.way /\ e.at = r.at /\ e.stage = r.stage
          /\ e.label = r.label /\ e.read = r.read /\ e.left = r.left /\ e.rows = r.rows /\ e.moved = r.moved
      BY <3>2 DEF CallRecord
    <3> HIDE DEF e
    <3>5. CallInv(e)
      BY <1>0, <3>2, <3>3, <3>4, SmallStepInv
    <3>6. Labelled(e) /\ (UpToDate(call[c]) => UpToDate(e))
      BY <1>0, <3>4 DEF Labelled, UpToDate
    <3>7. stored' \in Seq(Server) /\ Distinct(stored)'
      BY <1>0, <3>1 DEF TypeOK, Distinct
    <3>8. QED
      BY <2>2, <3>1, <3>4, <3>5, <3>6, <3>7, OneCallInv
  <2>5. QED
    BY <2>3, <2>4
<1>5. CASE Save
  <2> DEFINE told(c) == [call[c] EXCEPT !.moved = @ \/ (Asking(c) /\ call[c].op = "list")]
  <2>1. /\ call' = [c \in Call |-> told(c)] /\ stored' = stored /\ saves' = saves + 1
        /\ global' \in Agent \cup {NoAgent}
    BY <1>5 DEF Save
  <2>2. ASSUME NEW c \in Call
        PROVE  CallInv(call'[c]) /\ (call'[c].op = "list" /\ call'[c].way = "global" => call'[c].moved)
    <3> DEFINE r == call[c]
               e == told(c)
    <3>1. r \in CallRecord /\ r.moved \in BOOLEAN
      BY <1>0 DEF CallInv, CallRecord
    <3>2. CASE r.way = "none"
      <4>1. r.stage \notin {"whole", "parts"}
        BY <1>0, <3>2 DEF CallInv, WaitsFor
      <4>2. call'[c] = r
        BY <2>1, <3>1, <4>1 DEF Asking, CallRecord
      <4>3. QED
        BY <1>0, <3>2, <4>2
    <3>3. CASE r.way # "none"
      <4>1. /\ e \in CallRecord /\ e.pending = r.pending
            /\ e.op = r.op /\ e.id = r.id /\ e.way = r.way /\ e.at = r.at /\ e.stage = r.stage
            /\ e.label = r.label /\ e.read = r.read /\ e.left = r.left /\ e.rows = r.rows
            /\ e.moved = (r.moved \/ (Asking(c) /\ r.op = "list"))
        BY <3>1 DEF CallRecord
      <4>2. Asking(c)
        BY <1>0, <3>3 DEF CallInv, WaitsFor, Asking
      <4>3. call'[c] = e
        BY <2>1
      <4> HIDE DEF e
      <4>4. CallInv(e)
        BY <1>0, <3>3, <4>1, SmallStepInv
      <4>5. QED
        BY <4>1, <4>2, <4>3, <4>4
    <3>4. QED
      BY <3>2, <3>3
  <2>3. TypeOK'
    <3>1. call' \in [Call -> CallRecord]
      BY <2>1, <2>2 DEF CallInv
    <3>2. stored' = stored /\ saves' \in Nat /\ global' \in Agent \cup {NoAgent}
      BY <1>0, <2>1 DEF TypeOK
    <3>3. QED
      BY <1>0, <3>1, <3>2 DEF TypeOK, Distinct
  <2>4. ~ Quiet'
    BY <1>0, <2>1 DEF TypeOK, Quiet
  <2>5. \A c \in Call : CallInv(call[c])' /\ Labelled(call[c])'
    BY <2>2 DEF Labelled
  <2>6. QED
    BY <2>3, <2>4, <2>5 DEF FleetInv
<1>6. CASE RemoveServer
  <2>1. PICK i \in Ids(stored) : stored' = Filter(stored, LAMBDA s : s.id # i)
    BY <1>6 DEF RemoveServer
  <2> DEFINE P == {k \in 1 .. Len(stored) : stored[k].id # i}
  <2>2. stored' = Sublist(stored, P)
    BY <2>1 DEF Filter
  <2>3. stored' \in Seq(Server) /\ Distinct(stored')
    BY <1>0, <2>2, FilterStored DEF TypeOK
  <2>4. saves' = saves + 1 /\ UNCHANGED <<global, call>>
    BY <1>6 DEF RemoveServer
  <2>5. TypeOK'
    BY <1>0, <2>3, <2>4 DEF TypeOK, Distinct
  <2>6. ~ Quiet'
    BY <1>0, <2>4 DEF TypeOK, Quiet
  <2>7. \A c \in Call : CallInv(call[c])' /\ Labelled(call[c])'
    BY <1>0, <2>4 DEF Labelled
  <2>8. QED
    BY <2>5, <2>6, <2>7 DEF FleetInv
<1>7. CASE UNCHANGED vars
  <2>1. UNCHANGED <<global, stored, call, saves>>
    BY <1>7 DEF vars
  <2>2. TypeOK'
    BY <1>0, <2>1 DEF TypeOK, Distinct
  <2>3. \A c \in Call : CallInv(call[c])' /\ Labelled(call[c])'
    BY <1>0, <2>1 DEF Labelled
  <2>4. Quiet' => \A c \in Call : UpToDate(call[c])'
    BY <2>1 DEF FleetInv, Quiet, UpToDate
  <2>5. QED
    BY <2>2, <2>3, <2>4 DEF FleetInv
<1>8. QED
  BY <1>1, <1>2, <1>3, <1>4, <1>5, <1>6, <1>7 DEF Next, Respond

-----------------------------------------------------------------------------
\* Every reachable state satisfies the inductive invariant: what a call under
\* way has got, and what it goes on with, is that of what it read.
THEOREM FleetInvariant == Spec => []FleetInv
<1>1. Init => FleetInv
  BY InitInv
<1>2. FleetInv /\ [Next]_vars => FleetInv'
  BY StepInv
<1>3. QED
  BY <1>1, <1>2, PTL DEF Spec

\* Calls and stored servers are what they should be, and ids are stored once.
THEOREM TypeCorrect == Spec => []TypeOK
<1>1. FleetInv => TypeOK
  BY DEF FleetInv
<1>2. QED
  BY <1>1, FleetInvariant, PTL

\* What a call that is no list may ask an agent for, it has a row of.
LEMMA OneRow ==
  ASSUME NEW r, CallInv(r), r.op \in {"metrics", "restart", "add"}, NEW k \in 1 .. Len(r.rows)
  PROVE  k = 1 /\ r.stage = "done"
<1>1. OtherInv(r)
  BY DEF CallInv
<1>2. r.rows # <<>>
  OBVIOUS
<1>3. r.stage = "done" /\ Len(r.rows) = 1
  BY <1>1, <1>2 DEF OtherInv
<1>4. QED
  BY <1>3

\* A row of a list: of the configured agent, or of a stored server.
LEMMA ProgressRow ==
  ASSUME NEW read \in Seq(Server), NEW left \in Seq(Server), NEW rows \in Seq(RowRecord),
         NEW moved \in BOOLEAN, Progress(read, left, rows, moved), NEW k \in 1 .. Len(rows)
  PROVE  \/ /\ k = 1 /\ rows[k].way = "global" /\ rows[k].id = HostOf[rows[k].from]
            /\ rows[k].from # rows[k].label => moved
         \/ \E l \in 1 .. Len(read) :
              /\ rows[k].id = read[l].id /\ rows[k].way = "own"
              /\ rows[k].label = read[l].agent /\ rows[k].from = read[l].agent
<1> DEFINE visited == Len(read) - Len(left)
           extra   == Len(rows) - visited
<1>1. Len(read) \in Nat /\ Len(left) \in Nat /\ Len(rows) \in Nat
  OBVIOUS
<1>2. visited >= 0 /\ extra \in {0, 1}
  BY DEF Progress
<1>3. \A l \in 1 .. visited :
        /\ rows[l + extra].id = read[l].id /\ rows[l + extra].way = "own"
        /\ rows[l + extra].label = read[l].agent /\ rows[l + extra].from = read[l].agent
  BY DEF Progress
<1>4. CASE extra = 1 /\ k = 1
  BY <1>4 DEF Progress
<1>5. CASE ~ (extra = 1 /\ k = 1)
  <2>1. visited \in Nat /\ visited <= Len(read) /\ Len(rows) = visited + extra
    BY <1>1, <1>2
  <2> HIDE DEF visited, extra
  <2>2. k - extra \in 1 .. visited /\ k - extra \in 1 .. Len(read) /\ (k - extra) + extra = k
    BY <1>1, <1>2, <1>5, <2>1
  <2>3. QED
    BY <1>3, <2>2
<1>6. QED
  BY <1>4, <1>5

LEMMA ListRow ==
  ASSUME NEW r, CallInv(r), r.op = "list", NEW k \in 1 .. Len(r.rows)
  PROVE  \/ /\ k = 1 /\ r.rows[k].way = "global" /\ r.rows[k].id = HostOf[r.rows[k].from]
            /\ r.rows[k].from # r.rows[k].label => r.moved
         \/ \E l \in 1 .. Len(r.read) :
              /\ r.rows[k].id = r.read[l].id /\ r.rows[k].way = "own"
              /\ r.rows[k].label = r.read[l].agent /\ r.rows[k].from = r.read[l].agent
<1>1. /\ ListInv(r) /\ r.read \in Seq(Server) /\ r.left \in Seq(Server) /\ r.rows \in Seq(RowRecord)
      /\ r.moved \in BOOLEAN
  BY DEF CallInv, CallRecord
<1>2. r.way # "global"
  <2>1. r.rows # <<>>
    OBVIOUS
  <2>2. QED
    BY <1>1, <2>1 DEF ListInv
<1>3. Progress(r.read, r.left, r.rows, r.moved)
  BY <1>1, <1>2 DEF ListInv
<1> DEFINE read == r.read
           left == r.left
           rows == r.rows
           moved == r.moved
<1>4. /\ read \in Seq(Server) /\ left \in Seq(Server) /\ rows \in Seq(RowRecord) /\ moved \in BOOLEAN
      /\ Progress(read, left, rows, moved) /\ k \in 1 .. Len(rows)
  BY <1>1, <1>3
<1> HIDE DEF read, left, rows, moved
<1>5. \/ k = 1 /\ rows[k].way = "global" /\ rows[k].id = HostOf[rows[k].from]
         /\ (rows[k].from # rows[k].label => moved)
      \/ \E l \in 1 .. Len(read) :
           rows[k].id = read[l].id /\ rows[k].way = "own"
           /\ rows[k].label = read[l].agent /\ rows[k].from = read[l].agent
  BY <1>4, ProgressRow
<1>6. QED
  BY <1>5 DEF read, left, rows, moved

\* Rows, metrics and restarts are those of the agent stored for their server,
\* and of the configured agent when that was not changed meanwhile.
THEOREM RowsOfTheirAgents == Spec => []RowsAreTheirAgents
<1>1. ASSUME FleetInv
      PROVE  RowsAreTheirAgents
  <2> SUFFICES ASSUME NEW c \in Call, NEW k \in 1 .. Len(call[c].rows)
               PROVE  LET r == call[c]  row == r.rows[k] IN
                        /\ row.way = "own" => row.from = row.label
                        /\ row.way = "own" /\ r.op # "add" =>
                             \E l \in 1 .. Len(r.read) : r.read[l] = [id |-> row.id, agent |-> row.from]
                        /\ row.way = "global" /\ row.from # row.label => r.moved
    BY <1>1 DEF RowsAreTheirAgents, FleetInv
  <2> DEFINE r == call[c]
  <2>1. CallInv(r) /\ r \in CallRecord
    BY <1>1 DEF FleetInv, CallInv
  <2>2. CASE r.op = "list"
    <3>1. r.read \in Seq(Server)
      BY <2>1 DEF CallRecord
    <3>2. \A l \in 1 .. Len(r.read) : r.read[l] = [id |-> r.read[l].id, agent |-> r.read[l].agent]
      <4>1. \A l \in 1 .. Len(r.read) : r.read[l] \in Server
        BY <3>1
      <4>2. QED
        BY <4>1 DEF Server
    <3>3. QED
      BY <2>1, <2>2, <3>2, ListRow
  <2>3. CASE r.op \in {"metrics", "restart", "add"}
    <3>1. OtherInv(r) /\ k = 1 /\ r.stage = "done"
      BY <2>1, <2>3, OneRow DEF CallInv
    <3>2. QED
      BY <3>1 DEF OtherInv, IsTarget
  <2>4. CASE r.op = "none"
    BY <2>1, <2>4, FreshType DEF CallInv
  <2>5. QED
    BY <2>1, <2>2, <2>3, <2>4 DEF CallRecord
<1>2. QED
  BY <1>1, FleetInvariant, PTL

\* A list that is ready has every stored server it read, in their order and
\* each once, whichever of them failed.
THEOREM ListsAreComplete == Spec => []ListIsComplete
<1>1. ASSUME FleetInv
      PROVE  ListIsComplete
  <2> SUFFICES ASSUME NEW c \in Call, call[c].op = "list", call[c].stage = "done"
               PROVE  LET r == call[c]  extra == Len(r.rows) - Len(r.read) IN
                        /\ extra \in {0, 1}
                        /\ extra = 1 => r.label # NoAgent /\ r.rows[1].online
                        /\ \A k \in 1 .. Len(r.read) :
                             r.rows[k + extra].id = r.read[k].id /\ r.rows[k + extra].label = r.read[k].agent
    BY DEF ListIsComplete
  <2> DEFINE r == call[c]
  <2>1. ListInv(r) /\ WaitsFor(r) /\ r.read \in Seq(Server)
    BY <1>1 DEF FleetInv, CallInv, CallRecord
  <2>2. r.way = "none" /\ r.left = <<>> /\ r.label # NoAgent
    BY <2>1 DEF ListInv, WaitsFor
  <2>3. Progress(r.read, r.left, r.rows, r.moved)
    BY <2>1, <2>2 DEF ListInv
  <2>4. Len(r.read) - Len(r.left) = Len(r.read)
    BY <2>1, <2>2
  <2> DEFINE visited == Len(r.read) - Len(r.left)
             extra   == Len(r.rows) - visited
  <2>5. /\ extra \in {0, 1} /\ (extra = 1 => r.rows[1].online)
        /\ \A k \in 1 .. visited :
             r.rows[k + extra].id = r.read[k].id /\ r.rows[k + extra].label = r.read[k].agent
    BY <2>3 DEF Progress
  <2>6. visited = Len(r.read)
    BY <2>4
  <2> HIDE DEF visited
  <2>7. QED
    BY <2>2, <2>5, <2>6
<1>2. QED
  BY <1>1, FleetInvariant, PTL

\* The list, the panels and the restart button speak of one agent.
THEOREM OneServer == Spec => []OneServerPerId
<1>1. ASSUME FleetInv
      PROVE  OneServerPerId
  <2> SUFFICES ASSUME NEW c \in Call, NEW d \in Call,
                      call[c].op = "list", call[c].stage = "done", GetServer(call[c], call[d].id) # <<>>,
                      call[d].op \in {"metrics", "restart"}, call[d].stage = "done",
                      saves = 0, \A e \in Call : call[e].op # "add",
                      ~ (global # NoAgent /\ HostOf[global] \in Ids(stored))
               PROVE  call[d].rows[1].from = GetServer(call[c], call[d].id)[1].from
    BY DEF OneServerPerId
  <2> DEFINE g == call[c]
             m == call[d]
             P == {k \in 1 .. Len(g.rows) : g.rows[k].id = m.id}
             head == Sublist(g.rows, P)
  <2>1. CallInv(g) /\ CallInv(m) /\ UpToDate(g) /\ UpToDate(m)
    BY <1>1 DEF FleetInv, Quiet
  <2>2. g.way = "none" /\ g.read = stored /\ m.read = stored /\ stored \in Seq(Server)
        /\ g.rows \in Seq(RowRecord) /\ Distinct(stored)
    <3>1. g.way = "none" /\ g.rows \in Seq(RowRecord)
      BY <2>1 DEF CallInv, WaitsFor, CallRecord
    <3>2. QED
      BY <1>1, <2>1, <3>1 DEF UpToDate, FleetInv, TypeOK
  <2>3. GetServer(g, m.id) = head
    BY DEF GetServer, Filter
  <2>4. PICK k \in P : head[1] = g.rows[k]
    <3>1. head \in Seq(RowRecord) /\ head # <<>>
      BY <2>2, <2>3, SublistType
    <3>2. 1 \in 1 .. Len(head)
      BY <3>1
    <3>3. \A r \in 1 .. Len(head) : \E l \in P : head[r] = g.rows[l]
      <4>1. P \in SUBSET (1 .. Len(g.rows)) /\ g.rows \in Seq(RowRecord)
        BY <2>2
      <4> HIDE DEF P
      <4>2. QED
        BY <4>1, SublistElements
    <3>4. QED
      BY <3>2, <3>3
  <2> HIDE DEF head
  <2>5. k \in 1 .. Len(g.rows) /\ g.rows[k].id = m.id /\ g.rows[k] \in RowRecord
    BY <2>2
  <2>6. OtherInv(m) /\ m.rows \in Seq(RowRecord)
    BY <2>1 DEF CallInv, CallRecord
  <2>7. /\ Len(m.rows) = 1 /\ IsTarget(m, m.rows[1].way, m.rows[1].from) /\ m.rows[1] \in RowRecord
    BY <2>6 DEF OtherInv
  <2>8. \/ g.rows[k].way = "global" /\ g.rows[k].id = HostOf[g.rows[k].from]
        \/ \E l \in 1 .. Len(stored) :
             g.rows[k].id = stored[l].id /\ g.rows[k].way = "own" /\ g.rows[k].from = stored[l].agent
    <3>1. \/ g.rows[k].way = "global" /\ g.rows[k].id = HostOf[g.rows[k].from]
          \/ \E l \in 1 .. Len(g.read) :
               g.rows[k].id = g.read[l].id /\ g.rows[k].way = "own" /\ g.rows[k].from = g.read[l].agent
      <4>1. g.op = "list"
        OBVIOUS
      <4> HIDE DEF g, m, P
      <4>2. QED
        BY <2>1, <2>5, <4>1, ListRow
    <3>2. QED
      BY <2>2, <3>1
  <2>9. g.rows[k].way = "global" => g.rows[k].from = global /\ m.id \notin Ids(stored)
    <3>1. g.rows[k].way = "global" => g.rows[k].from = global
      BY <2>1, <2>5 DEF UpToDate
    <3>2. g.rows[k].from \in Agent
      BY <2>5 DEF RowRecord
    <3>3. QED
      BY <2>5, <2>8, <3>1, <3>2, AgentsAssumption
  <2>10. CASE m.rows[1].way = "own"
    <3>1. PICK l \in 1 .. Len(stored) : stored[l] = [id |-> m.id, agent |-> m.rows[1].from]
      BY <2>2, <2>7, <2>10 DEF IsTarget
    <3>2. m.id \in Ids(stored)
      BY <3>1 DEF Ids
    <3>3. PICK j \in 1 .. Len(stored) : g.rows[k].id = stored[j].id /\ g.rows[k].from = stored[j].agent
      BY <2>8, <2>9, <3>2
    <3>4. j = l
      BY <2>2, <2>5, <3>1, <3>3 DEF Distinct
    <3>5. QED
      BY <2>3, <2>4, <3>1, <3>3, <3>4
  <2>11. CASE m.rows[1].way = "global"
    <3>1. m.id \notin Ids(stored)
      BY <2>2, <2>7, <2>11 DEF IsTarget
    <3>2. m.rows[1].from = global
      BY <2>1, <2>7, <2>11 DEF UpToDate
    <3>3. g.rows[k].way = "global"
      BY <2>5, <2>8, <3>1 DEF Ids
    <3>4. QED
      BY <2>3, <2>4, <2>9, <3>2, <3>3
  <2>12. QED
    BY <2>7, <2>10, <2>11 DEF RowRecord
<1>2. QED
  BY <1>1, FleetInvariant, PTL

-----------------------------------------------------------------------------
\* The sample data.

\* Without a server, and with it in the last place.
LEMMA WithoutIs ==
  ASSUME NEW S, NEW s \in Seq(S), NEW i
  PROVE  /\ Without(s, i) \in Seq(S)
         /\ \A r \in 1 .. Len(Without(s, i)) :
              \E k \in 1 .. Len(s) : Without(s, i)[r] = s[k] /\ s[k].id # i
         /\ \A k \in 1 .. Len(s) :
              s[k].id # i => \E r \in 1 .. Len(Without(s, i)) : Without(s, i)[r] = s[k]
         /\ Distinct(s) => Distinct(Without(s, i))
<1> DEFINE P == {k \in 1 .. Len(s) : s[k].id # i}
<1>1. Without(s, i) = Sublist(s, P)
  BY DEF Without, Filter
<1>2. P \in SUBSET (1 .. Len(s)) /\ \A k \in 1 .. Len(s) : k \in P <=> s[k].id # i
  OBVIOUS
<1> HIDE DEF P
<1>3. /\ \A r \in 1 .. Len(Sublist(s, P)) : \E k \in P : Sublist(s, P)[r] = s[k]
      /\ \A k \in P : \E r \in 1 .. Len(Sublist(s, P)) : Sublist(s, P)[r] = s[k]
  BY <1>2, SublistElements
<1>4. Sublist(s, P) \in Seq(S) /\ (Distinct(s) => Distinct(Sublist(s, P)))
  BY <1>2, SublistType, FilterStored
<1>5. QED
  BY <1>1, <1>2, <1>3, <1>4

LEMMA ReplacedIs ==
  ASSUME NEW S, NEW s \in Seq(S), NEW x \in S, Distinct(s)
  PROVE  LET t == Append(Without(s, x.id), x) IN
         /\ t \in Seq(S) /\ Distinct(t)
         /\ \A y : y \in Elements(t) <=> y = x \/ (y \in Elements(s) /\ y.id # x.id)
<1> DEFINE others == Without(s, x.id)
           t == Append(others, x)
<1>1. /\ others \in Seq(S) /\ Distinct(others)
      /\ \A r \in 1 .. Len(others) : \E k \in 1 .. Len(s) : others[r] = s[k] /\ s[k].id # x.id
      /\ \A k \in 1 .. Len(s) : s[k].id # x.id => \E r \in 1 .. Len(others) : others[r] = s[k]
  <2>1. ASSUME NEW i
        PROVE  /\ Without(s, i) \in Seq(S) /\ Distinct(Without(s, i))
               /\ \A r \in 1 .. Len(Without(s, i)) :
                    \E k \in 1 .. Len(s) : Without(s, i)[r] = s[k] /\ s[k].id # i
               /\ \A k \in 1 .. Len(s) :
                    s[k].id # i => \E r \in 1 .. Len(Without(s, i)) : Without(s, i)[r] = s[k]
    BY WithoutIs
  <2>2. QED
    BY <2>1
<1> HIDE DEF others
<1>2. Len(others) \in Nat
  BY <1>1
<1>3. /\ t \in Seq(S) /\ Len(t) = Len(others) + 1 /\ t[Len(others) + 1] = x
      /\ \A k \in 1 .. Len(others) : t[k] = others[k]
  BY <1>1
<1> HIDE DEF t
<1>4. Distinct(t)
  <2> SUFFICES ASSUME NEW k \in 1 .. Len(others) + 1, NEW l \in 1 .. Len(others) + 1, t[k].id = t[l].id
               PROVE  k = l
    BY <1>3 DEF Distinct
  <2>1. \A j \in 1 .. Len(others) : t[j] = others[j] /\ t[j].id # x.id
    BY <1>1, <1>3
  <2>2. CASE k \in 1 .. Len(others) /\ l \in 1 .. Len(others)
    BY <1>1, <2>1, <2>2 DEF Distinct
  <2>3. CASE k = Len(others) + 1 \/ l = Len(others) + 1
    <3>1. t[k] = x \/ t[l] = x
      BY <1>3, <2>3
    <3>2. k \notin 1 .. Len(others) /\ l \notin 1 .. Len(others)
      BY <2>1, <3>1
    <3>3. QED
      BY <1>2, <3>2
  <2>4. QED
    BY <1>2, <2>2, <2>3
<1>5. ASSUME NEW y
      PROVE  y \in Elements(t) <=> y = x \/ (y \in Elements(s) /\ y.id # x.id)
  <2>1. y \in Elements(t) <=> \E k \in 1 .. Len(others) + 1 : y = t[k]
    BY <1>3 DEF Elements
  <2>2. (\E k \in 1 .. Len(others) + 1 : y = t[k]) <=> y = x \/ \E k \in 1 .. Len(others) : y = others[k]
    BY <1>2, <1>3
  <2>3. (\E k \in 1 .. Len(others) : y = others[k]) <=> \E k \in 1 .. Len(s) : y = s[k] /\ s[k].id # x.id
    BY <1>1
  <2>4. QED
    BY <2>1, <2>2, <2>3 DEF Elements
<1>6. QED
  BY <1>3, <1>4, <1>5 DEF t, others

\* The fixtures: a profile is found under its id, and every alert is about one.
LEMMA Fixtures ==
  /\ Len(Profiles) = 3
  /\ \A k \in 1 .. 3 : Known(Profiles[k].id) /\ ProfileOf(Profiles[k].id) = Profiles[k]
  /\ \A k \in 1 .. 3 : Profiles[k].id = <<Profiles[k].id[1], 0>>
  /\ \A a \in AlertServers : \E k \in 1 .. 3 : Profiles[k].id = Plain(a)
<1>1. Len(Profiles) = 3
  BY DEF Profiles
<1>2. /\ Profiles[1].id = <<"cxr-junior", 0>> /\ Profiles[2].id = <<"atlas-edge", 0>>
      /\ Profiles[3].id = <<"nyx-relay", 0>>
  BY DEF Profiles, Plain
<1>3. \A k \in 1 .. 3 : k = 1 \/ k = 2 \/ k = 3
  OBVIOUS
<1>4. \A k, l \in 1 .. 3 : Profiles[k].id = Profiles[l].id => k = l
  BY <1>2, <1>3
<1>5. ASSUME NEW k \in 1 .. 3
      PROVE  Known(Profiles[k].id) /\ ProfileOf(Profiles[k].id) = Profiles[k]
  BY <1>1, <1>4 DEF Known, ProfileOf
<1>6. ASSUME NEW k \in 1 .. 3
      PROVE  Profiles[k].id = <<Profiles[k].id[1], 0>>
  BY <1>2, <1>3
<1>7. ASSUME NEW a \in AlertServers
      PROVE  \E k \in 1 .. 3 : Profiles[k].id = Plain(a)
  <2>1. \A k \in 1 .. Len(MockAlerts) : MockAlerts[k][1] \in {"nyx-relay", "atlas-edge", "cxr-junior"}
    BY DEF MockAlerts
  <2>2. a \in {"nyx-relay", "atlas-edge", "cxr-junior"}
    BY <2>1 DEF AlertServers
  <2>3. QED
    BY <1>2, <2>2 DEF Plain
<1>8. QED
  BY <1>1, <1>5, <1>6, <1>7

\* The servers of a tab that is loaded: the fixtures, then those kept.
LEMMA MockServersAre ==
  /\ MockServers \in Seq(Listed) /\ Len(MockServers) = 3
  /\ \A k \in 1 .. 3 : MockServers[k] = SampleServer(Profiles[k].id, Profiles[k].id[1], k)
<1>1. /\ Len(Profiles) = 3
      /\ \A k \in 1 .. 3 : Profiles[k].id = <<Profiles[k].id[1], 0>>
  BY Fixtures
<1>2. \A k \in 1 .. 3 : SampleServer(Profiles[k].id, Profiles[k].id[1], k) \in Listed
  <2> SUFFICES ASSUME NEW k \in 1 .. 3
               PROVE  SampleServer(Profiles[k].id, Profiles[k].id[1], k) \in Listed
    OBVIOUS
  <2>1. Profiles[k].id[1] \in {Profiles[l].id[1] : l \in 1 .. Len(Profiles)}
    BY <1>1
  <2>2. Profiles[k].id \in SampleIds /\ Profiles[k].id[1] \in SampleNames
    BY <1>1, <2>1 DEF SampleIds, SampleNames
  <2>3. QED
    BY <1>1, <2>2 DEF SampleServer, Listed
<1>3. QED
  BY <1>1, <1>2 DEF MockServers

LEMMA LoadedIs ==
  ASSUME kept \in Seq(Keeping)
  PROVE  /\ Loaded \in Seq(Listed) /\ Len(Loaded) \in Nat /\ 3 <= Len(Loaded)
         /\ \A k \in 1 .. 3 : Loaded[k] = SampleServer(Profiles[k].id, Profiles[k].id[1], k)
         /\ \A k \in 1 .. Len(Loaded) : k \notin 1 .. 3 => Loaded[k].name \in Name
<1> DEFINE P == {k \in 1 .. Len(kept) : ~ HasId(MockServers, kept[k].id)}
           new == Sublist(kept, P)
           rest == [k \in 1 .. Len(new) |-> SampleServer(new[k].id, new[k].name, 2)]
<1>1. Loaded = MockServers \o rest
  BY DEF Loaded, Filter
<1>2. new \in Seq(Keeping)
  BY SublistType
<1> HIDE DEF new
<1>3. \A k \in 1 .. Len(new) : rest[k] \in Listed /\ rest[k].name \in Name
  <2> SUFFICES ASSUME NEW k \in 1 .. Len(new)
               PROVE  rest[k] \in Listed /\ rest[k].name \in Name
    OBVIOUS
  <2>1. new[k] \in Keeping
    BY <1>2
  <2>2. rest[k] = [id |-> new[k].id, name |-> new[k].name, figures |-> 2]
    BY DEF SampleServer
  <2>3. 2 \in 1 .. Len(Profiles)
    BY Fixtures
  <2>4. QED
    BY <2>1, <2>2, <2>3 DEF Keeping, Listed, SampleNames
<1>4. Len(new) \in Nat
  BY <1>2
<1>5. rest \in Seq(Listed) /\ Len(rest) = Len(new)
  BY <1>3, <1>4
<1> HIDE DEF rest
<1>6. /\ MockServers \in Seq(Listed) /\ Len(MockServers) = 3
      /\ \A k \in 1 .. 3 : MockServers[k] = SampleServer(Profiles[k].id, Profiles[k].id[1], k)
  BY MockServersAre
<1>7. /\ Loaded \in Seq(Listed) /\ Len(Loaded) = 3 + Len(rest)
      /\ \A k \in 1 .. 3 + Len(rest) : Loaded[k] = IF k <= 3 THEN MockServers[k] ELSE rest[k - 3]
  <2> DEFINE all == MockServers \o rest
  <2>1. /\ all \in Seq(Listed) /\ Len(all) = Len(MockServers) + Len(rest)
        /\ \A k \in 1 .. Len(MockServers) + Len(rest) :
             all[k] = IF k <= Len(MockServers) THEN MockServers[k] ELSE rest[k - Len(MockServers)]
    <3>1. \A s1, s2 \in Seq(Listed) :
            /\ s1 \o s2 \in Seq(Listed) /\ Len(s1 \o s2) = Len(s1) + Len(s2)
            /\ \A k \in 1 .. Len(s1) + Len(s2) :
                 (s1 \o s2)[k] = IF k <= Len(s1) THEN s1[k] ELSE s2[k - Len(s1)]
      BY ConcatProperties
    <3>2. QED
      BY <1>5, <1>6, <3>1, Zenon
  <2> HIDE DEF all
  <2>2. QED
    BY <1>1, <1>6, <2>1 DEF all
<1>8. \A k \in 1 .. 3 : Loaded[k] = SampleServer(Profiles[k].id, Profiles[k].id[1], k)
  BY <1>4, <1>5, <1>6, <1>7
<1>9. ASSUME NEW k \in 1 .. Len(Loaded), k \notin 1 .. 3
      PROVE  Loaded[k].name \in Name
  <2>1. k - 3 \in 1 .. Len(new) /\ ~ k <= 3 /\ k \in 1 .. 3 + Len(rest)
    BY <1>4, <1>5, <1>7, <1>9
  <2>2. Loaded[k] = rest[k - 3]
    BY <1>7, <2>1
  <2>3. QED
    BY <1>3, <2>1, <2>2 DEF rest
<1>10. Len(Loaded) \in Nat /\ 3 <= Len(Loaded)
  BY <1>4, <1>5, <1>7
<1>11. QED
  BY <1>7, <1>8, <1>9, <1>10

\* What the invariant says of one tab: its servers and its alerts.
TabInv(servers, about) ==
  /\ servers \in Seq(Listed) /\ about \in SUBSET AlertServers
  /\ \A a \in about : HasId(servers, Plain(a))
  /\ \A k \in 1 .. Len(servers) :
       Known(servers[k].id) /\ servers[k].name \notin Name =>
         Profiles[servers[k].figures] = ProfileOf(servers[k].id)

\* A tab that has the fixtures, and else servers that were added.
LEMMA LoadedTab ==
  ASSUME NEW servers \in Seq(Listed), Len(servers) \in Nat, 3 <= Len(servers),
         \A k \in 1 .. 3 : servers[k] = SampleServer(Profiles[k].id, Profiles[k].id[1], k),
         \A k \in 1 .. Len(servers) : k \notin 1 .. 3 => servers[k].name \in Name
  PROVE  TabInv(servers, AlertServers)
<1>1. \A k \in 1 .. 3 : k \in 1 .. Len(servers) /\ servers[k].id = Profiles[k].id /\ servers[k].figures = k
  BY DEF SampleServer
<1>2. \A a \in AlertServers : HasId(servers, Plain(a))
  BY <1>1, Fixtures DEF HasId
<1>3. ASSUME NEW k \in 1 .. Len(servers), servers[k].name \notin Name
      PROVE  Profiles[servers[k].figures] = ProfileOf(servers[k].id)
  BY <1>1, <1>3, Fixtures
<1>4. QED
  BY <1>2, <1>3 DEF TabInv

LEMMA AddTab ==
  ASSUME NEW servers, NEW about, TabInv(servers, about), NEW x \in Listed, x.name \in Name
  PROVE  TabInv(Append(servers, x), about)
<1> DEFINE more == Append(servers, x)
<1>1. servers \in Seq(Listed) /\ Len(servers) \in Nat
  BY DEF TabInv
<1>2. /\ more \in Seq(Listed) /\ Len(more) = Len(servers) + 1 /\ more[Len(servers) + 1] = x
      /\ \A k \in 1 .. Len(servers) : more[k] = servers[k]
  BY <1>1
<1> HIDE DEF more
<1>3. \A a \in about : HasId(more, Plain(a))
  BY <1>1, <1>2 DEF TabInv, HasId
<1>4. ASSUME NEW k \in 1 .. Len(more), Known(more[k].id), more[k].name \notin Name
      PROVE  Profiles[more[k].figures] = ProfileOf(more[k].id)
  <2>1. k \in 1 .. Len(servers)
    BY <1>1, <1>2, <1>4
  <2>2. QED
    BY <1>2, <1>4, <2>1 DEF TabInv
<1>5. TabInv(more, about)
  BY <1>2, <1>3, <1>4 DEF TabInv
<1>6. QED
  BY <1>5 DEF more

LEMMA RemoveTab ==
  ASSUME NEW servers, NEW about, TabInv(servers, about), NEW i
  PROVE  TabInv(Without(servers, i), {a \in about : Plain(a) # i})
<1> DEFINE others == Without(servers, i)
           less   == {a \in about : Plain(a) # i}
<1>1. servers \in Seq(Listed)
  BY DEF TabInv
<1>2. /\ others \in Seq(Listed)
      /\ \A r \in 1 .. Len(others) : \E k \in 1 .. Len(servers) : others[r] = servers[k] /\ servers[k].id # i
      /\ \A k \in 1 .. Len(servers) : servers[k].id # i => \E r \in 1 .. Len(others) : others[r] = servers[k]
  BY <1>1, WithoutIs
<1> HIDE DEF others
<1>3. \A a \in less : HasId(others, Plain(a))
  BY <1>2 DEF TabInv, HasId
<1>4. ASSUME NEW k \in 1 .. Len(others), Known(others[k].id), others[k].name \notin Name
      PROVE  Profiles[others[k].figures] = ProfileOf(others[k].id)
  BY <1>2, <1>4 DEF TabInv
<1>5. TabInv(others, less)
  BY <1>2, <1>3, <1>4 DEF TabInv
<1>6. QED
  BY <1>5 DEF others

\* The invariant, tab by tab.
TabsInv ==
  /\ kept \in Seq(Keeping) /\ Distinct(kept) /\ added = Elements(kept)
  /\ DOMAIN memory = Tab /\ memory = [t \in Tab |-> memory[t]]
  /\ DOMAIN alerts = Tab /\ alerts = [t \in Tab |-> alerts[t]]
  /\ \A t \in Tab : TabInv(memory[t], alerts[t])
  /\ CallTypes

LEMMA ByTab == TabsInv <=> SampleInv
<1>1. ASSUME TabsInv
      PROVE  SampleInv
  <2>1. memory \in [Tab -> Seq(Listed)] /\ alerts \in [Tab -> SUBSET AlertServers]
    BY <1>1 DEF TabsInv, TabInv
  <2>2. SampleKept
    BY <1>1 DEF TabsInv, SampleKept, TabInv, Distinct
  <2>3. CardsAgree
    BY <1>1 DEF TabsInv, CardsAgree, TabInv
  <2>4. kept \in Seq(Keeping) /\ CallTypes
    BY <1>1 DEF TabsInv
  <2>5. SampleTypes
    BY <2>1, <2>4 DEF SampleTypes
  <2>6. QED
    BY <2>2, <2>3, <2>5 DEF SampleInv
<1>2. ASSUME SampleInv
      PROVE  TabsInv
  <2>1. \A t \in Tab : TabInv(memory[t], alerts[t])
    BY <1>2 DEF SampleInv, SampleTypes, SampleKept, CardsAgree, TabInv
  <2>2. QED
    BY <1>2, <2>1 DEF SampleInv, SampleTypes, SampleKept, TabsInv, Distinct
<1>3. QED
  BY <1>1, <1>2

LEMMA InitSample == SampleInit => SampleInv
<1> SUFFICES ASSUME SampleInit
             PROVE  SampleInv
  OBVIOUS
<1>1. TabInv(MockServers, AlertServers)
  <2>1. /\ MockServers \in Seq(Listed) /\ Len(MockServers) \in Nat /\ 3 <= Len(MockServers)
        /\ \A k \in 1 .. 3 : MockServers[k] = SampleServer(Profiles[k].id, Profiles[k].id[1], k)
        /\ \A k \in 1 .. Len(MockServers) : k \in 1 .. 3
    BY MockServersAre
  <2>2. QED
    BY <2>1, LoadedTab
<1>2. memory = [t \in Tab |-> MockServers] /\ alerts = [t \in Tab |-> AlertServers]
  BY DEF SampleInit
<1>3. kept \in Seq(Keeping) /\ Distinct(kept) /\ added = Elements(kept)
  BY DEF SampleInit, Distinct, Elements
<1>4. asked \in [Asked -> SampleCall] /\ \A c \in Asked : asked[c].op = "none"
  BY DEF SampleInit, NoCall, SampleCall
<1>5. TabsInv
  BY <1>1, <1>2, <1>3, <1>4 DEF TabsInv, CallTypes
<1>6. QED
  BY <1>5, ByTab

\* A call that is over.
LEMMA OverInv ==
  ASSUME SampleInv, NEW c \in Asked, asked' = [asked EXCEPT ![c].op = "over"]
  PROVE  CallTypes'
<1>1. /\ asked \in [Asked -> SampleCall]
      /\ \A d \in Asked : /\ asked[d].op \in {"add", "remove"} => asked[d].tab \in Tab
                          /\ asked[d].op = "add" => asked[d].name \in Name
  BY DEF SampleInv, SampleTypes, CallTypes
<1>2. asked'[c] \in SampleCall /\ asked'[c].op = "over" /\ \A d \in Asked \ {c} : asked'[d] = asked[d]
  BY <1>1 DEF SampleCall
<1>3. asked' \in [Asked -> SampleCall]
  BY <1>1, <1>2
<1>4. QED
  BY <1>1, <1>2, <1>3 DEF CallTypes

LEMMA SampleStep == SampleInv /\ [SampleNext]_sample => SampleInv'
<1> SUFFICES ASSUME SampleInv, [SampleNext]_sample
             PROVE  SampleInv'
  OBVIOUS
<1>0. /\ memory \in [Tab -> Seq(Listed)] /\ alerts \in [Tab -> SUBSET AlertServers] /\ kept \in Seq(Keeping)
      /\ asked \in [Asked -> SampleCall]
      /\ \A c \in Asked : /\ asked[c].op \in {"add", "remove"} => asked[c].tab \in Tab
                          /\ asked[c].op = "add" => asked[c].name \in Name
      /\ Distinct(kept) /\ added = Elements(kept)
      /\ \A t \in Tab : TabInv(memory[t], alerts[t])
  <2>1. TabsInv
    BY ByTab
  <2>2. QED
    BY <2>1 DEF TabsInv, SampleInv, SampleTypes, CallTypes
<1> SUFFICES TabsInv'
  <2>1. TabsInv' => SampleInv'
    BY ByTab, PTL
  <2>2. QED
    BY <2>1
<1>1. ASSUME NEW c \in Asked, AskSample(c)
      PROVE  TabsInv'
  <2>1. UNCHANGED <<memory, alerts, kept, added>>
    BY <1>1 DEF AskSample
  <2>2. \E r \in SampleCall :
          /\ asked' = [asked EXCEPT ![c] = r] /\ r.tab \in Tab /\ (r.op = "add" => r.name \in Name)
    <3>1. PICK t \in Tab :
       \/ \E n \in Name : asked' = [asked EXCEPT ![c] = [op |-> "add", tab |-> t, name |-> n, id |-> <<>>]]
       \/ \E k \in 1 .. Len(memory[t]) :
            asked' = [asked EXCEPT ![c] = [op |-> "remove", tab |-> t, name |-> "none", id |-> memory[t][k].id]]
      BY <1>1 DEF AskSample
    <3>2. ASSUME NEW n \in Name, asked' = [asked EXCEPT ![c] = [op |-> "add", tab |-> t, name |-> n, id |-> <<>>]]
          PROVE  \E r \in SampleCall :
                   /\ asked' = [asked EXCEPT ![c] = r] /\ r.tab \in Tab /\ (r.op = "add" => r.name \in Name)
      <4>1. [op |-> "add", tab |-> t, name |-> n, id |-> <<>>] \in SampleCall
        BY DEF SampleCall
      <4>2. QED
        BY <3>2, <4>1
    <3>3. ASSUME NEW k \in 1 .. Len(memory[t]),
                 asked' = [asked EXCEPT ![c] = [op |-> "remove", tab |-> t, name |-> "none", id |-> memory[t][k].id]]
          PROVE  \E r \in SampleCall :
                   /\ asked' = [asked EXCEPT ![c] = r] /\ r.tab \in Tab /\ (r.op = "add" => r.name \in Name)
      <4>1. memory[t][k].id \in SampleIds
        <5>1. memory[t] \in Seq(Listed)
          BY <1>0
        <5>2. memory[t][k] \in Listed
          BY <5>1
        <5>3. QED
          BY <5>2 DEF Listed
      <4>2. [op |-> "remove", tab |-> t, name |-> "none", id |-> memory[t][k].id] \in SampleCall
        BY <4>1 DEF SampleCall
      <4>3. QED
        BY <3>3, <4>2
    <3>4. QED
      BY <3>1, <3>2, <3>3
  <2>3. PICK r \in SampleCall :
          /\ asked' = [asked EXCEPT ![c] = r] /\ r.tab \in Tab /\ (r.op = "add" => r.name \in Name)
    BY <2>2
  <2>4. /\ asked' \in [Asked -> SampleCall]
        /\ \A d \in Asked : /\ asked'[d].op \in {"add", "remove"} => asked'[d].tab \in Tab
                            /\ asked'[d].op = "add" => asked'[d].name \in Name
    BY <1>0, <2>3
  <2>5. QED
    BY <1>0, <2>1, <2>4 DEF TabsInv, CallTypes
<1>2. ASSUME NEW c \in Asked, AddSample(c)
      PROVE  TabsInv'
  <2> DEFINE t == asked[c].tab
             i == IdOf(memory[t], asked[c].name)
             x == SampleServer(i, asked[c].name, 2)
             y == [id |-> i, name |-> asked[c].name]
  <2>1. /\ asked[c].op = "add" /\ memory' = [memory EXCEPT ![t] = Append(@, x)]
        /\ kept' = Append(Without(kept, i), y)
        /\ added' = {a \in added : a.id # i} \cup {y}
        /\ asked' = [asked EXCEPT ![c].op = "over"] /\ alerts' = alerts
    BY <1>2 DEF AddSample
  <2>2. t \in Tab /\ asked[c].name \in Name
    BY <1>0, <2>1
  <2>3. i \in SampleIds
    <3>1. Len(memory[t]) \in Nat
      BY <1>0, <2>2
    <3>2. QED
      BY <2>2, <3>1 DEF IdOf, SampleIds, Plain
  <2>4. x \in Listed /\ x.name \in Name /\ y \in Keeping /\ y.id = i
    <3>1. 2 \in 1 .. Len(Profiles)
      BY Fixtures
    <3>2. QED
      BY <2>2, <2>3, <3>1 DEF SampleServer, Listed, Keeping, SampleNames
  <2> HIDE DEF i, x, y
  <2>5. /\ kept' \in Seq(Keeping) /\ Distinct(kept')
        /\ \A z : z \in Elements(kept') <=> z = y \/ (z \in Elements(kept) /\ z.id # i)
    BY <1>0, <2>1, <2>4, ReplacedIs
  <2>6. added' = Elements(kept')
    BY <1>0, <2>1, <2>5
  <2>7. \A u \in Tab : TabInv(memory'[u], alerts'[u])
    BY <1>0, <2>1, <2>2, <2>4, AddTab
  <2>8. /\ DOMAIN memory' = Tab /\ DOMAIN alerts' = Tab /\ memory' = [u \in Tab |-> memory'[u]]
        /\ alerts' = [u \in Tab |-> alerts'[u]]
    BY <1>0, <2>1
  <2>9. QED
    BY <2>1, <2>5, <2>6, <2>7, <2>8, OverInv DEF TabsInv
<1>3. ASSUME NEW c \in Asked, RemoveSample(c)
      PROVE  TabsInv'
  <2> DEFINE t == asked[c].tab
             i == asked[c].id
  <2>1. /\ asked[c].op = "remove" /\ memory' = [memory EXCEPT ![t] = Without(@, i)]
        /\ kept' = Without(kept, i) /\ added' = {a \in added : a.id # i}
        /\ alerts' = [alerts EXCEPT ![t] = {a \in @ : Plain(a) # i}]
        /\ asked' = [asked EXCEPT ![c].op = "over"]
    BY <1>3 DEF RemoveSample
  <2>2. t \in Tab
    BY <1>0, <2>1
  <2> HIDE DEF i
  <2>3. /\ kept' \in Seq(Keeping) /\ Distinct(kept')
        /\ \A r \in 1 .. Len(kept') : \E k \in 1 .. Len(kept) : kept'[r] = kept[k] /\ kept[k].id # i
        /\ \A k \in 1 .. Len(kept) : kept[k].id # i => \E r \in 1 .. Len(kept') : kept'[r] = kept[k]
    <3>1. /\ Without(kept, i) \in Seq(Keeping) /\ Distinct(Without(kept, i))
          /\ \A r \in 1 .. Len(Without(kept, i)) :
               \E k \in 1 .. Len(kept) : Without(kept, i)[r] = kept[k] /\ kept[k].id # i
          /\ \A k \in 1 .. Len(kept) :
               kept[k].id # i => \E r \in 1 .. Len(Without(kept, i)) : Without(kept, i)[r] = kept[k]
      BY <1>0, WithoutIs
    <3>2. QED
      BY <2>1, <3>1
  <2>4. added' = Elements(kept')
    <3>1. \A z : z \in added' <=> \E k \in 1 .. Len(kept) : z = kept[k] /\ kept[k].id # i
      BY <1>0, <2>1 DEF Elements
    <3>2. \A z : z \in Elements(kept') <=> \E r \in 1 .. Len(kept') : z = kept'[r]
      BY DEF Elements
    <3>3. \A z : z \in added' <=> z \in Elements(kept')
      <4>1. ASSUME NEW z, z \in added'
            PROVE  z \in Elements(kept')
        <5>1. PICK k \in 1 .. Len(kept) : z = kept[k] /\ kept[k].id # i
          BY <3>1, <4>1
        <5>2. QED
          BY <2>3, <3>2, <5>1
      <4>2. ASSUME NEW z, z \in Elements(kept')
            PROVE  z \in added'
        <5>1. PICK r \in 1 .. Len(kept') : z = kept'[r]
          BY <3>2, <4>2
        <5>2. PICK k \in 1 .. Len(kept) : kept'[r] = kept[k] /\ kept[k].id # i
          BY <2>3
        <5>3. QED
          BY <3>1, <5>1, <5>2
      <4>3. QED
        BY <4>1, <4>2
    <3>4. QED
      BY <3>3
  <2>5. \A u \in Tab : TabInv(memory'[u], alerts'[u])
    <3>1. \A servers, about : TabInv(servers, about) =>
            TabInv(Without(servers, i), {a \in about : Plain(a) # i})
      BY RemoveTab
    <3>2. /\ memory'[t] = Without(memory[t], i) /\ alerts'[t] = {a \in alerts[t] : Plain(a) # i}
          /\ \A u \in Tab \ {t} : memory'[u] = memory[u] /\ alerts'[u] = alerts[u]
      BY <1>0, <2>1, <2>2
    <3>3. TabInv(memory'[t], alerts'[t])
      <4>1. TabInv(memory[t], alerts[t])
        BY <1>0, <2>2
      <4>2. TabInv(Without(memory[t], i), {a \in alerts[t] : Plain(a) # i})
        BY <3>1, <4>1
      <4>3. QED
        BY <3>2, <4>2, Zenon
    <3>4. \A u \in Tab \ {t} : TabInv(memory'[u], alerts'[u])
      BY <1>0, <3>2
    <3>5. QED
      BY <3>3, <3>4
  <2>6. /\ DOMAIN memory' = Tab /\ DOMAIN alerts' = Tab /\ memory' = [u \in Tab |-> memory'[u]]
        /\ alerts' = [u \in Tab |-> alerts'[u]]
    BY <1>0, <2>1
  <2>7. QED
    BY <2>1, <2>3, <2>4, <2>5, <2>6, OverInv DEF TabsInv
<1>4. ASSUME NEW t \in Tab, Reload(t)
      PROVE  TabsInv'
  <2>1. /\ memory' = [memory EXCEPT ![t] = Loaded] /\ alerts' = [alerts EXCEPT ![t] = AlertServers]
        /\ UNCHANGED <<kept, added>>
        /\ asked' = [c \in Asked |-> IF asked[c].tab = t THEN [asked[c] EXCEPT !.op = "over"] ELSE asked[c]]
    BY <1>4 DEF Reload
  <2>2. TabInv(Loaded, AlertServers)
    BY <1>0, LoadedIs, LoadedTab
  <2>3. \A u \in Tab : TabInv(memory'[u], alerts'[u])
    BY <1>0, <2>1, <2>2
  <2>4. /\ DOMAIN memory' = Tab /\ DOMAIN alerts' = Tab /\ memory' = [u \in Tab |-> memory'[u]]
        /\ alerts' = [u \in Tab |-> alerts'[u]]
    BY <1>0, <2>1
  <2>5. \A c \in Asked : /\ asked'[c] \in SampleCall /\ (asked'[c] = asked[c] \/ asked'[c].op = "over")
    <3> SUFFICES ASSUME NEW c \in Asked
                 PROVE  asked'[c] \in SampleCall /\ (asked'[c] = asked[c] \/ asked'[c].op = "over")
      OBVIOUS
    <3>1. [asked[c] EXCEPT !.op = "over"] \in SampleCall /\ [asked[c] EXCEPT !.op = "over"].op = "over"
      BY <1>0 DEF SampleCall
    <3>2. QED
      BY <1>0, <2>1, <3>1
  <2>6. /\ asked' \in [Asked -> SampleCall]
        /\ \A d \in Asked : /\ asked'[d].op \in {"add", "remove"} => asked'[d].tab \in Tab
                            /\ asked'[d].op = "add" => asked'[d].name \in Name
    <3>1. asked' = [c \in Asked |-> asked'[c]]
      BY <2>1
    <3>2. QED
      BY <1>0, <2>5, <3>1
  <2>7. kept' \in Seq(Keeping) /\ Distinct(kept') /\ added' = Elements(kept')
    BY <1>0, <2>1
  <2>8. QED
    BY <2>3, <2>4, <2>6, <2>7 DEF TabsInv, CallTypes
<1>5. CASE UNCHANGED sample
  BY <1>0, <1>5 DEF sample, TabsInv, CallTypes
<1>6. QED
  BY <1>1, <1>2, <1>3, <1>4, <1>5 DEF SampleNext

-----------------------------------------------------------------------------
\* Every reachable state of the sample data satisfies its invariant.
THEOREM SampleInvariant == SampleSpec => []SampleInv
<1>1. SampleInit => SampleInv
  BY InitSample
<1>2. SampleInv /\ [SampleNext]_sample => SampleInv'
  BY SampleStep
<1>3. QED
  BY <1>1, <1>2, PTL DEF SampleSpec

\* What was announced as added is in localStorage, and no tab has an alert about
\* a server it does not list.
THEOREM AddedIsKept == SampleSpec => []SampleKept
<1>1. SampleInv => SampleKept
  BY DEF SampleInv
<1>2. QED
  BY <1>1, SampleInvariant, PTL

\* The figures of a fixture stay those of its profile.
THEOREM FixturesStay == SampleSpec => []CardsAgree
<1>1. SampleInv => CardsAgree
  BY DEF SampleInv
<1>2. QED
  BY <1>1, SampleInvariant, PTL

-----------------------------------------------------------------------------
(***************************************************************************)
(* The fixtures, for any random numbers.                                   *)
(***************************************************************************)

\* Random numbers are below one.
LEMMA RandType ==
  ASSUME NEW d \in Draw, NEW seed \in Seed, NEW k \in Turn
  PROVE  Rand(d, seed, k) \in Permille
  BY DrawAssumption DEF Rand

\* What is added to the seed of a profile.
Salt == 0 .. 1440

\* What the profiles differ in.
LEMMA ProfileNumbers ==
  ASSUME NEW k \in 1 .. 3
  PROVE  Profiles[k].cpuBias \in Nat /\ \A salt \in Salt : Profiles[k].seed + salt \in Seed
<1>1. /\ Profiles[1].seed = 424 /\ Profiles[2].seed = 781 /\ Profiles[3].seed = 337
      /\ Profiles[1].cpuBias = 112 /\ Profiles[2].cpuBias = 384 /\ Profiles[3].cpuBias = 0
  BY DEF Profiles
<1>2. k = 1 \/ k = 2 \/ k = 3
  OBVIOUS
<1>3. Profiles[k].seed \in {424, 781, 337} /\ Profiles[k].cpuBias \in Nat
  BY <1>1, <1>2
<1>4. \A salt \in Salt : 424 + salt \in Seed /\ 781 + salt \in Seed /\ 337 + salt \in Seed
  BY DEF Salt, Seed
<1>5. QED
  BY <1>3, <1>4

LEMMA ProfileFlags ==
  ASSUME NEW k \in 1 .. 3
  PROVE  /\ Profiles[k].online \in BOOLEAN /\ Profiles[k].gpu \in BOOLEAN
         /\ Profiles[k].online = FALSE => Profiles[k].gpu = FALSE
<1>1. /\ Profiles[1].online = TRUE /\ Profiles[2].online = TRUE /\ Profiles[3].online = FALSE
      /\ Profiles[1].gpu = TRUE /\ Profiles[2].gpu = FALSE /\ Profiles[3].gpu = FALSE
  BY DEF Profiles
<1>2. k = 1 \/ k = 2 \/ k = 3
  OBVIOUS
<1>3. CASE k = 1
  BY <1>1, <1>3, Zenon
<1>4. CASE k = 2
  BY <1>1, <1>4, Zenon
<1>5. CASE k = 3
  BY <1>1, <1>5, Zenon
<1>6. QED
  BY <1>2, <1>3, <1>4, <1>5, Zenon

\* A search that the first element passes ends with it; one that none passes, too.
LEMMA SearchFirst ==
  ASSUME NEW S, NEW s \in Seq(S), NEW P \in SUBSET (1 .. Len(s)), 1 \in P \/ P = {}
  PROVE  (IF Sublist(s, P) = <<>> THEN s[1] ELSE Sublist(s, P)[1]) = s[1]
<1>1. CASE 1 \in P
  <2>1. \A l \in P : 1 <= l
    OBVIOUS
  <2>2. Sublist(s, P)[1] = s[1]
    BY <1>1, <2>1, SublistFirst
  <2>3. QED
    BY <2>2
<1>2. CASE P = {}
  BY <1>2, SublistElements
<1>3. QED
  BY <1>1, <1>2

\* The root is the first file system of a fixture.
LEMMA RootFirst ==
  ASSUME NEW k \in 1 .. 3
  PROVE  FirstOr(BuildDisk(Profiles[k]), LAMBDA f : f.mount = "/") = BuildDisk(Profiles[k])[1]
<1> DEFINE p == Profiles[k]
           root == Filesystem("/", 2 * p.disk - 5, 2 * p.diskUsed)
           boot == Filesystem("/boot", 4, 1)
           efi == Filesystem("/boot/efi", 1, 0)
           docker == Filesystem("/var/lib/docker", 512, 176)
           S == {root, boot, efi, docker}
           s == BuildDisk(p)
           P == {l \in 1 .. Len(s) : s[l].mount = "/"}
<1>1. root.mount = "/"
  BY DEF Filesystem
<1>2. s = <<root, boot, efi>> \o (IF p.gpu THEN <<docker>> ELSE <<>>)
  BY DEF BuildDisk
<1> HIDE DEF root, boot, efi, docker, p
<1>3. s \in Seq(S) /\ 1 \in 1 .. Len(s) /\ s[1] = root
  <2> DEFINE more == IF p.gpu THEN <<docker>> ELSE <<>>
  <2>0. root \in S /\ boot \in S /\ efi \in S /\ docker \in S
    OBVIOUS
  <2> HIDE DEF S
  <2>1. <<root, boot, efi>> \in Seq(S) /\ <<docker>> \in Seq(S) /\ <<>> \in Seq(S)
    BY <2>0
  <2>2. more \in Seq(S)
    BY <2>1, Zenon
  <2> HIDE DEF more
  <2>3. /\ <<root, boot, efi>> \o more \in Seq(S)
        /\ 1 \in 1 .. Len(<<root, boot, efi>> \o more)
        /\ (<<root, boot, efi>> \o more)[1] = root
    BY <2>1, <2>2
  <2>4. QED
    BY <1>2, <2>3 DEF more
<1> HIDE DEF S
<1>4. P \in SUBSET (1 .. Len(s)) /\ 1 \in P
  BY <1>1, <1>3
<1>5. FirstOr(s, LAMBDA f : f.mount = "/") = IF Sublist(s, P) = <<>> THEN s[1] ELSE Sublist(s, P)[1]
  BY DEF FirstOr, Filter
<1> HIDE DEF P, s
<1>6. (IF Sublist(s, P) = <<>> THEN s[1] ELSE Sublist(s, P)[1]) = s[1]
  BY <1>3, <1>4, SearchFirst
<1>7. QED
  BY <1>5, <1>6 DEF s, p

\* The first interface of a fixture is the one that is up, if any is.
LEMMA UplinkFirst ==
  ASSUME NEW k \in 1 .. 3
  PROVE  FirstOr(BuildNetwork(Profiles[k]), LAMBDA n : n.up /\ ~ n.loopback) = BuildNetwork(Profiles[k])[1]
<1> DEFINE p == Profiles[k]
           eth == Iface(IF p.alpine THEN "eth0" ELSE "eno1", p.online, FALSE, (13209 * (p.cpuBias + 44)) \div 110)
           lo  == Iface("lo", TRUE, TRUE, IF p.online THEN 2048 ELSE 0)
           docker == Iface("docker0", p.online, FALSE, 3277)
           bridge == Iface("br-8f2a17c4d0e1", p.online, FALSE, 1126)
           more == IF p.gpu THEN <<docker, bridge>> ELSE <<>>
           S == {eth, lo, docker, bridge}
           s == BuildNetwork(p)
           P == {l \in 1 .. Len(s) : s[l].up /\ ~ s[l].loopback}
<1>1. eth.up = p.online /\ eth.loopback = FALSE /\ lo.loopback = TRUE
  BY DEF Iface
<1>2. s = <<eth, lo>> \o more
  BY DEF BuildNetwork
<1>3. p.online \in BOOLEAN /\ (p.online = FALSE => p.gpu = FALSE)
  BY ProfileFlags
<1> HIDE DEF eth, lo, docker, bridge, p
<1>4. <<eth, lo>> \in Seq(S) /\ more \in Seq(S)
  <2>1. eth \in S /\ lo \in S /\ docker \in S /\ bridge \in S
    OBVIOUS
  <2> HIDE DEF S
  <2>2. <<eth, lo>> \in Seq(S) /\ <<docker, bridge>> \in Seq(S) /\ <<>> \in Seq(S)
    BY <2>1
  <2>3. more \in Seq(S)
    BY <2>2, Zenon
  <2>4. QED
    BY <2>2, <2>3
<1>5. ~ p.online => s = <<eth, lo>>
  <2>1. ~ p.online => more = <<>>
    BY <1>3, Zenon
  <2> HIDE DEF more
  <2>2. <<eth, lo>> \o <<>> = <<eth, lo>>
    OBVIOUS
  <2>3. QED
    BY <1>2, <2>1, <2>2, Zenon
<1> HIDE DEF S, more
<1>6. s \in Seq(S) /\ 1 \in 1 .. Len(s) /\ s[1] = eth
  BY <1>2, <1>4
<1> HIDE DEF s
<1>7. P \in SUBSET (1 .. Len(s)) /\ (1 \in P \/ P = {})
  <2>1. CASE p.online
    BY <1>1, <1>6, <2>1
  <2>2. CASE ~ p.online
    <3>1. \A l \in 1 .. Len(s) : ~ (s[l].up /\ ~ s[l].loopback)
      BY <1>1, <1>5, <2>2
    <3>2. QED
      BY <3>1
  <2>3. QED
    BY <1>3, <2>1, <2>2
<1>8. FirstOr(s, LAMBDA n : n.up /\ ~ n.loopback) = IF Sublist(s, P) = <<>> THEN s[1] ELSE Sublist(s, P)[1]
  BY DEF FirstOr, Filter
<1> HIDE DEF P
<1>9. (IF Sublist(s, P) = <<>> THEN s[1] ELSE Sublist(s, P)[1]) = s[1]
  BY <1>6, <1>7, SearchFirst
<1>10. QED
  BY <1>8, <1>9 DEF s, p

\* The card of a fixture, and what the live data source would make of its panels.
LEMMA CardIsOfPanels ==
  ASSUME NEW d, NEW k \in 1 .. 3
  PROVE  SnapshotToServer(BuildSnapshot(d, Profiles[k].id)) = BuildServer(d, Profiles[k])
<1> DEFINE p == Profiles[k]
           s == BuildSnapshot(d, p.id)
<1>1. ProfileOf(p.id) = p
  BY Fixtures
<1>2. /\ s.cpu = BuildCpu(d, p) /\ s.memory = BuildMemory(p) /\ s.disk = BuildDisk(p)
      /\ s.network = BuildNetwork(p) /\ s.gpu = BuildGpu(p)
  BY <1>1 DEF BuildSnapshot
<1>3. BuildCpu(d, p).coreCount = p.cores
  BY DEF BuildCpu
<1>4. BuildGpu(p) = p.gpu
  BY ProfileFlags DEF BuildGpu
<1> HIDE DEF s
<1>5. SnapshotToServer(s) =
        Figures(s.cpu.total, s.cpu.coreCount, s.memory.used, FirstOr(s.disk, LAMBDA f : f.mount = "/"),
                FirstOr(s.network, LAMBDA n : n.up /\ ~ n.loopback).rx, s.gpu)
  BY DEF SnapshotToServer
<1>6. /\ FirstOr(s.disk, LAMBDA f : f.mount = "/") = BuildDisk(p)[1]
      /\ FirstOr(s.network, LAMBDA n : n.up /\ ~ n.loopback) = BuildNetwork(p)[1]
  BY <1>2, RootFirst, UplinkFirst
<1>7. QED
  BY <1>2, <1>3, <1>4, <1>5, <1>6 DEF BuildServer, s

\* Sorted by load; what has different numbers keeps them.
Process == [pid : Nat, cpu : Nat]

LEMMA SortedByLoad ==
  ASSUME NEW s \in Seq(Process), \A j, k \in 1 .. Len(s) : s[j].pid = s[k].pid => j = k
  PROVE  InOrder(Arranged(s, {e \in (1 .. Len(s)) \X (1 .. Len(s)) :
                   s[e[1]].cpu > s[e[2]].cpu \/ (~ (s[e[2]].cpu > s[e[1]].cpu) /\ e[1] < e[2])}))
<1> DEFINE n == Len(s)
           R == {e \in (1 .. n) \X (1 .. n) :
                   s[e[1]].cpu > s[e[2]].cpu \/ (~ (s[e[2]].cpu > s[e[1]].cpu) /\ e[1] < e[2])}
           K == [k \in 1 .. n |-> 0 - s[k].cpu]
           rank == Ranking(1 .. n, R)
           t == Arranged(s, R)
<1>1. n \in Nat /\ \A k \in 1 .. n : s[k].cpu \in Nat
  <2>1. Len(s) \in Nat /\ \A k \in 1 .. Len(s) : s[k] \in Process
    OBVIOUS
  <2>2. \A x \in Process : x.cpu \in Nat
    BY DEF Process
  <2>3. QED
    BY <2>1, <2>2
<1>2. K \in [1 .. n -> Int] /\ \A j, k \in 1 .. n : K[j] < K[k] <=> s[j].cpu > s[k].cpu
  BY <1>1
<1> HIDE DEF K
<1>3. R = ByKey(K, n)
  BY <1>2 DEF ByKey
<1>4. \A j, k \in 1 .. n : <<j, k>> \in R => j # k /\ s[j].cpu >= s[k].cpu
  BY <1>1
<1> HIDE DEF R
<1>5. Orders(R, 1 .. n)
  BY <1>1, <1>2, <1>3, KeysOrder
<1>6. /\ Len(t) = n /\ \A r \in 1 .. n : rank[r] \in 1 .. n /\ t[r] = s[rank[r]]
      /\ \A q, r \in 1 .. n : q < r => <<rank[q], rank[r]>> \in R
  BY <1>5, ArrangedPermutes
<1> HIDE DEF t, rank
<1>7. ASSUME NEW q \in 1 .. n, NEW r \in 1 .. n, q < r
      PROVE  t[q].pid # t[r].pid /\ t[q].cpu >= t[r].cpu
  <2>1. /\ rank[q] \in 1 .. n /\ rank[r] \in 1 .. n /\ <<rank[q], rank[r]>> \in R
        /\ t[q] = s[rank[q]] /\ t[r] = s[rank[r]]
    BY <1>6, <1>7
  <2>2. rank[q] # rank[r] /\ s[rank[q]].cpu >= s[rank[r]].cpu
    BY <1>4, <2>1
  <2>3. s[rank[q]].pid # s[rank[r]].pid
    BY <2>1, <2>2 DEF n
  <2>4. QED
    BY <2>1, <2>2, <2>3
<1>8. InOrder(t)
  BY <1>6, <1>7 DEF InOrder
<1>9. QED
  BY <1>8 DEF t, R

\* The processes of a fixture: the numbers are 137 apart and vary by less than 90.
LEMMA ProcessesInOrder ==
  ASSUME NEW d \in Draw, NEW k \in 1 .. 3
  PROVE  InOrder(BuildProcesses(d, Profiles[k]))
<1> DEFINE p == Profiles[k]
           s == [j \in 1 .. Len(Weights) |-> ProcessOf(d, p, j)]
           slack(j) == (Rand(d, p.seed + 401, 4 * j) * 90) \div 1000
<1>1. p.cpuBias \in Nat /\ \A salt \in Salt : p.seed + salt \in Seed
  BY ProfileNumbers
<1>2. Len(Weights) = 30 /\ \A j \in 1 .. 30 : Weights[j] \in Nat
  BY DEF Weights
<1> HIDE DEF p
<1>3. ASSUME NEW j \in 1 .. 30
      PROVE  /\ slack(j) \in 0 .. 89
             /\ ProcessOf(d, p, j).pid = 300 + (j - 1) * 137 + slack(j)
             /\ ProcessOf(d, p, j) \in Process
  <2> DEFINE a == Rand(d, p.seed + 401, 4 * j)
             b == Rand(d, p.seed + 401, 4 * j + 1)
             w == Weights[j]
             load == (w * p.cpuBias * (700 + ((b * 6) \div 10))) \div 112000
  <2>1. p.seed + 401 \in Seed /\ 4 * j \in Turn /\ 4 * j + 1 \in Turn
    <3>1. 401 \in Salt
      BY DEF Salt
    <3>2. 4 * j \in Turn /\ 4 * j + 1 \in Turn
      BY DEF Turn
    <3>3. QED
      BY <1>1, <3>1, <3>2
  <2>2. a \in Permille /\ b \in Permille
    BY <2>1, RandType
  <2>3. w \in Nat /\ p.cpuBias \in Nat
    BY <1>1, <1>2
  <2>4. ProcessOf(d, p, j) = [pid |-> 300 + (j - 1) * 137 + slack(j), cpu |-> load]
    BY DEF ProcessOf
  <2> HIDE DEF a, b, w
  <2>5. slack(j) = (a * 90) \div 1000
    BY DEF a
  <2> HIDE DEF slack
  <2>6. slack(j) \in 0 .. 89
    BY <2>2, <2>5 DEF Permille
  <2>7. 700 + ((b * 6) \div 10) \in Nat
    BY <2>2 DEF Permille
  <2>8. load \in Nat
    <3> DEFINE c == 700 + ((b * 6) \div 10)
               x == w * p.cpuBias
    <3>1. x \in Nat
      BY <2>3
    <3> HIDE DEF x, c
    <3>2. x * c \in Nat
      BY <2>7, <3>1 DEF c
    <3>3. (x * c) \div 112000 \in Nat
      BY <3>2
    <3>4. QED
      BY <3>3 DEF x, c
  <2> HIDE DEF load
  <2>9. 300 + (j - 1) * 137 + slack(j) \in Nat
    BY <2>6
  <2>10. ProcessOf(d, p, j) \in Process
    BY <2>4, <2>8, <2>9 DEF Process
  <2>11. QED
    BY <2>4, <2>6, <2>10
<1> HIDE DEF slack
<1>4. s \in Seq(Process) /\ Len(s) = 30 /\ \A j \in 1 .. 30 : s[j] = ProcessOf(d, p, j)
  BY <1>2, <1>3
<1> HIDE DEF s
<1>5. \A i, j \in 1 .. Len(s) : s[i].pid = s[j].pid => i = j
  <2>1. ASSUME NEW i \in 1 .. 30, NEW j \in 1 .. 30, i < j
        PROVE  s[i].pid # s[j].pid
    <3>1. s[i].pid = 300 + (i - 1) * 137 + slack(i) /\ s[j].pid = 300 + (j - 1) * 137 + slack(j)
      BY <1>3, <1>4
    <3>2. slack(i) \in 0 .. 89 /\ slack(j) \in 0 .. 89
      BY <1>3
    <3>3. QED
      BY <2>1, <3>1, <3>2
  <2>2. \A i, j \in 1 .. 30 : i < j \/ j < i \/ i = j
    OBVIOUS
  <2>3. QED
    BY <1>4, <2>1, <2>2
<1> DEFINE R == {e \in (1 .. Len(s)) \X (1 .. Len(s)) :
                   s[e[1]].cpu > s[e[2]].cpu \/ (~ (s[e[2]].cpu > s[e[1]].cpu) /\ e[1] < e[2])}
<1>6. InOrder(Arranged(s, R))
  BY <1>4, <1>5, SortedByLoad
<1>7. BuildProcesses(d, p) = IF p.online THEN Arranged(s, R) ELSE <<>>
  BY DEF BuildProcesses, Sorted, Ahead, s
<1>8. InOrder(<<>>)
  BY DEF InOrder
<1>9. QED
  BY <1>6, <1>7, <1>8 DEF p

\* A point of a curve is within its bounds.
LEMMA AroundBounds ==
  ASSUME NEW base \in Nat, NEW r \in Nat, NEW share \in Nat, NEW amplitude \in Nat,
         NEW low \in Nat, NEW high \in Nat, low <= high
  PROVE  Around(base, r, share, amplitude, low, high) \in low .. high
<1> DEFINE v == (base * 1000 + r * amplitude - share * amplitude) \div 1000
<1>1. v \in Int
  <2> DEFINE a == r * amplitude  b == share * amplitude
  <2>1. a \in Nat /\ b \in Nat
    OBVIOUS
  <2> HIDE DEF a, b
  <2>2. (base * 1000 + a - b) \div 1000 \in Int
    BY <2>1
  <2>3. QED
    BY <2>2 DEF a, b
<1> HIDE DEF v
<1>2. Clamp(v, low, high) \in low .. high
  BY <1>1 DEF Clamp
<1>3. low \in low .. high
  OBVIOUS
<1>4. Around(base, r, share, amplitude, low, high) \in {low, Clamp(v, low, high)}
  BY DEF Around, v
<1>5. QED
  BY <1>2, <1>3, <1>4

LEMMA WaveBounds ==
  ASSUME NEW d \in Draw, NEW seed \in Seed, NEW count \in 1 .. 96,
         NEW base \in Nat, NEW amplitude \in Nat, NEW low \in Nat, NEW high \in Nat, low <= high
  PROVE  \A i \in 1 .. Len(Wave(d, seed, count, base, amplitude, low, high)) :
           Wave(d, seed, count, base, amplitude, low, high)[i] \in low .. high
<1> DEFINE w == Wave(d, seed, count, base, amplitude, low, high)
           value(i) == Around(base, Rand(d, seed, i), 500, 2 * amplitude, low, high)
<1>1. w = [i \in 1 .. count |-> value(i)]
  BY DEF Wave
<1>2. ASSUME NEW i \in 1 .. count
      PROVE  value(i) \in low .. high
  <2>1. i \in Turn
    BY DEF Turn
  <2>2. Rand(d, seed, i) \in Permille
    BY <2>1, RandType
  <2>3. Rand(d, seed, i) \in Nat
    BY <2>2 DEF Permille
  <2> DEFINE share == 500  twice == 2 * amplitude
  <2>4. share \in Nat /\ twice \in Nat
    OBVIOUS
  <2> HIDE DEF share, twice
  <2>5. Around(base, Rand(d, seed, i), share, twice, low, high) \in low .. high
    BY <2>3, <2>4, AroundBounds, Zenon
  <2>6. QED
    BY <2>5 DEF share, twice
<1> HIDE DEF w, value
<1>3. Len(w) = count /\ \A i \in 1 .. count : w[i] = value(i)
  BY <1>1
<1>4. \A i \in 1 .. Len(w) : w[i] \in low .. high
  BY <1>2, <1>3, Zenon
<1>5. QED
  BY <1>4 DEF w

\* The charts of a fixture.
LEMMA ChartsEndNow ==
  ASSUME NEW d \in Draw, NEW k \in 1 .. 3, NEW r \in 1 .. Len(TimeRanges)
  PROVE  EndsNow(BuildSeries(d, Profiles[k].id, TimeRanges[r]), Profiles[k].online)
<1> DEFINE p == Profiles[k]
           n == TimeRanges[r].points
           m == TimeRanges[r].minutes
           gap == (m * 60000) \div n
           chart == BuildSeries(d, p.id, TimeRanges[r])
           curve == Wave(d, p.seed + m, n, p.cpuBias, p.cpuBias \div 2, 4, 1000)
<1>1. n \in 1 .. 96 /\ m \in Salt /\ gap \in Nat /\ gap >= 1
  <2>1. Len(TimeRanges) = 5 /\ r \in {1, 2, 3, 4, 5}
    BY DEF TimeRanges
  <2>2. /\ TimeRanges[1].minutes = 5 /\ TimeRanges[1].points = 40
        /\ TimeRanges[2].minutes = 15 /\ TimeRanges[2].points = 50
        /\ TimeRanges[3].minutes = 60 /\ TimeRanges[3].points = 60
        /\ TimeRanges[4].minutes = 360 /\ TimeRanges[4].points = 72
        /\ TimeRanges[5].minutes = 1440 /\ TimeRanges[5].points = 96
    BY DEF TimeRanges
  <2>3. m \in Salt
    BY <2>1, <2>2 DEF Salt
  <2>4. QED
    BY <2>1, <2>2, <2>3
<1>2. p.cpuBias \in Nat /\ \A salt \in Salt : p.seed + salt \in Seed
  BY ProfileNumbers
<1>3. ProfileOf(p.id) = p
  BY Fixtures
<1>4. chart = [ago |-> [j \in 1 .. n |-> (n - j) * gap], cpu |-> IF p.online THEN curve ELSE Zeros(n)]
  BY <1>3 DEF BuildSeries
<1> HIDE DEF p, n, m, gap, chart
<1>5. /\ chart.ago = [j \in 1 .. n |-> (n - j) * gap] /\ Len(chart.ago) = n
      /\ chart.cpu = IF p.online THEN curve ELSE Zeros(n)
  BY <1>1, <1>4
<1>6. \A i \in 1 .. Len(curve) : curve[i] \in 4 .. 1000
  <2> DEFINE seed == p.seed + m  base == p.cpuBias  amplitude == p.cpuBias \div 2  low == 4  high == 1000
  <2>1. seed \in Seed
    BY <1>1, <1>2
  <2>2. base \in Nat /\ amplitude \in Nat /\ low \in Nat /\ high \in Nat /\ low <= high
    BY <1>2
  <2> HIDE DEF seed, base, amplitude, low, high
  <2>3. \A i \in 1 .. Len(Wave(d, seed, n, base, amplitude, low, high)) :
          Wave(d, seed, n, base, amplitude, low, high)[i] \in low .. high
    BY <1>1, <2>1, <2>2, WaveBounds, Zenon
  <2>4. QED
    BY <2>3 DEF seed, base, amplitude, low, high
<1> HIDE DEF curve
<1>7. chart.ago[n] = 0
  BY <1>1, <1>5
<1>8. \A i \in 1 .. n - 1 : chart.ago[i] > chart.ago[i + 1]
  <2> SUFFICES ASSUME NEW i \in 1 .. n - 1
               PROVE  chart.ago[i] > chart.ago[i + 1]
    OBVIOUS
  <2> DEFINE x == n - (i + 1)
  <2>1. x \in Nat /\ n - i = x + 1 /\ i \in 1 .. n /\ i + 1 \in 1 .. n
    BY <1>1
  <2> HIDE DEF x
  <2>2. chart.ago[i] = (x + 1) * gap /\ chart.ago[i + 1] = x * gap
    BY <1>5, <2>1 DEF x
  <2>3. (x + 1) * gap = x * gap + gap /\ x * gap \in Nat
    BY <1>1, <2>1
  <2>4. QED
    BY <1>1, <2>2, <2>3
<1>9. ASSUME NEW i \in 1 .. Len(chart.cpu)
      PROVE  IF p.online THEN chart.cpu[i] \in 4 .. 1000 ELSE chart.cpu[i] = 0
  <2>1. CASE p.online
    BY <1>5, <1>6, <2>1
  <2>2. CASE ~ p.online
    BY <1>1, <1>5, <2>2 DEF Zeros
  <2>3. QED
    BY <2>1, <2>2
<1>10. EndsNow(chart, p.online)
  BY <1>5, <1>7, <1>8, <1>9 DEF EndsNow
<1>11. QED
  BY <1>10 DEF chart, p

\* The fixtures (mockData.ts) agree with each other whatever the random numbers are.
THEOREM FixturesAlwaysAgree == FixturesAgree
<1>1. Len(Profiles) = 3
  BY Fixtures
<1>2. SUFFICES ASSUME NEW d \in Draw, NEW k \in 1 .. 3
               PROVE  LET p == Profiles[k]  s == BuildSnapshot(d, p.id) IN
                        /\ SnapshotToServer(s) = BuildServer(d, p)
                        /\ InOrder(s.processes)
                        /\ \A r \in 1 .. Len(TimeRanges) : EndsNow(BuildSeries(d, p.id, TimeRanges[r]), p.online)
  BY <1>1 DEF FixturesAgree
<1>3. BuildSnapshot(d, Profiles[k].id).processes = BuildProcesses(d, Profiles[k])
  BY Fixtures DEF BuildSnapshot
<1>4. QED
  BY <1>3, CardIsOfPanels, ProcessesInOrder, ChartsEndNow

-----------------------------------------------------------------------------
(***************************************************************************)
(* The two sources together.                                               *)
(***************************************************************************)

\* A visit is one of the live data source and one of the sample data, of which
\* one stands still: what holds of each of them holds here.
THEOREM SourcesCompose == SourceSpec => Spec /\ SampleSpec
<1>1. SourceInit => Init /\ SampleInit
  BY DEF SourceInit
<1>2. [SourceNext]_<<mode, vars, sample>> => [Next]_vars /\ [SampleNext]_sample
  BY DEF SourceNext
<1>3. QED
  BY <1>1, <1>2, PTL DEF SourceSpec, Spec, SampleSpec

\* Cards, panels, processes and charts of the sample data agree in every tab
\* (mockData.ts, mockService.ts), whatever is added, removed and loaded again.
THEOREM SourcesAgree == SourceSpec => []SampleAgrees
<1>1. CardsAgree => SampleAgrees
  BY FixturesAlwaysAgree DEF SampleAgrees
<1>2. QED
  BY <1>1, SourcesCompose, FixturesStay, PTL
=============================================================================
