---------------------------- MODULE ProcessTable ----------------------------
(***************************************************************************)
(* The table of processes on the page of a server: the processes of the    *)
(* snapshot the page holds, filtered, sorted and cut into pages. The page  *)
(* number is kept while a refresh brings another number of processes, so   *)
(* what is shown is the nearest page there is.                             *)
(*                                                                         *)
(* Data: a process is its pid, its share of the CPU and its state. Of the  *)
(* columns there is one that starts descending (cpu_percent) and one that  *)
(* does not (pid); a text in the filter box is the set of pids it matches. *)
(***************************************************************************)
EXTENDS Arrays, Integers

CONSTANTS
  PAGE_SIZE,
  ProcessList, \* the sequences of processes an agent answers with
  Needle       \* the texts that are typed, each as the set of pids it matches

VARIABLES processes, needle, stateFilter, sortKey, descending, pageIndex

tableVars == <<processes, needle, stateFilter, sortKey, descending, pageIndex>>

SortKey     == {"pid", "cpu_percent"}
StateFilter == {"all", "running", "sleeping"}
AnyText     == UNION {{s[k].pid : k \in 1 .. Len(s)} : s \in ProcessList}

ProcessRecord(C) == [pid : Nat, cpu_percent : Int, state : C]
DistinctPids(s)  == \A j, k \in 1 .. Len(s) : s[j].pid = s[k].pid => j = k

\* The agent collects processes by pid: no answer has two of one pid.
ASSUME TableAssumption ==
  /\ PAGE_SIZE \in Nat \ {0}
  /\ \A s \in ProcessList : s \in Seq(ProcessRecord(STRING)) /\ DistinctPids(s)

filtered ==
  LET Matches(p) == (stateFilter = "all" \/ p.state = stateFilter) /\ p.pid \in needle
  IN  Filter(processes, Matches)

\* Whether a row comes before another in the order that is chosen.
Before(p, q) == IF descending THEN p[sortKey] > q[sortKey] ELSE p[sortKey] < q[sortKey]
sorted       == Sorted(filtered, Before)

pageCount == IF filtered = <<>> THEN 1 ELSE (Len(filtered) + PAGE_SIZE - 1) \div PAGE_SIZE

\* Faulty variant: the page that was chosen, whether or not it is still there.
StalePage == pageIndex
safePage  == IF pageIndex < pageCount THEN pageIndex ELSE pageCount - 1

Least(a, b)  == IF a < b THEN a ELSE b
RowsOf(p)    == SubSeq(sorted, p * PAGE_SIZE + 1, Least((p + 1) * PAGE_SIZE, Len(sorted)))
rows         == RowsOf(safePage)

-----------------------------------------------------------------------------
TableInit ==
  /\ processes \in ProcessList
  /\ needle = AnyText /\ stateFilter = "all"
  /\ sortKey = "cpu_percent" /\ descending = TRUE /\ pageIndex = 0

\* The page was refreshed.
Refreshed ==
  /\ processes' \in ProcessList \ {processes}
  /\ UNCHANGED <<needle, stateFilter, sortKey, descending, pageIndex>>

SetFilter ==
  /\ \/ needle' \in Needle \cup {AnyText} /\ UNCHANGED stateFilter
     \/ stateFilter' \in StateFilter \ {stateFilter} /\ UNCHANGED needle
  /\ pageIndex' = 0
  /\ UNCHANGED <<processes, sortKey, descending>>

ToggleSort ==
  /\ \E key \in SortKey :
       /\ sortKey' = key
       /\ descending' = IF key = sortKey THEN ~ descending ELSE key = "cpu_percent"
  /\ pageIndex' = 0
  /\ UNCHANGED <<processes, needle, stateFilter>>

\* The two buttons count from the page that was chosen, and are disabled by
\* the page that is shown; without rows there are no buttons.
Previous ==
  /\ sorted # <<>> /\ safePage # 0
  /\ pageIndex' = pageIndex - 1
  /\ UNCHANGED <<processes, needle, stateFilter, sortKey, descending>>

NextPage ==
  /\ sorted # <<>> /\ safePage < pageCount - 1
  /\ pageIndex' = Least(pageCount - 1, pageIndex + 1)
  /\ UNCHANGED <<processes, needle, stateFilter, sortKey, descending>>

TableNext == Refreshed \/ SetFilter \/ ToggleSort \/ Previous \/ NextPage

TableSpec == TableInit /\ [][TableNext]_tableVars

-----------------------------------------------------------------------------
\* Whatever was refreshed, filtered and turned in which order: there are rows
\* when a process matches, and the pages one after the other hold each process
\* that matches once, in the order chosen, equal ones in the agent's order.
PagingIsExact ==
  LET InOrder(p, q) == ~ Before(q, p)
      Place(p) == CHOOSE k \in 1 .. Len(processes) : processes[k] = p
  IN
  /\ pageIndex \in Nat /\ Len(rows) <= PAGE_SIZE
  /\ filtered # <<>> => rows # <<>>
  /\ \A p, q \in 0 .. pageCount - 1 :
       \A k \in 1 .. Len(RowsOf(p)), l \in 1 .. Len(RowsOf(q)) :
         p < q \/ (p = q /\ k < l) =>
           LET x == RowsOf(p)[k]  y == RowsOf(q)[l]
           IN  InOrder(x, y) /\ x # y /\ (InOrder(y, x) => Place(x) < Place(y))
  /\ UNION {{RowsOf(p)[k] : k \in 1 .. Len(RowsOf(p))} : p \in 0 .. pageCount - 1}
       = {filtered[k] : k \in 1 .. Len(filtered)}

\* What the table holds in every state.
TableInv ==
  /\ processes \in ProcessList /\ stateFilter \in StateFilter
  /\ sortKey \in SortKey /\ descending \in BOOLEAN /\ pageIndex \in Nat
=============================================================================
