------------------------------- MODULE Lists -------------------------------
(***************************************************************************)
(* The page of the alerts and the page of the servers: what was loaded,    *)
(* filtered by a tab or a status and a text, sorted, and shown in groups   *)
(* or columns; and the figures other parts of the console give of the same *)
(* lists: the tabs' counts, the bell, the line above the overview.         *)
(*                                                                         *)
(* Data: an alert has a time, in hours; a text is the set of ids it        *)
(* matches; of the columns of the servers there are the name and a number. *)
(***************************************************************************)
EXTENDS Arrays, Integers

CONSTANTS
  AlertList, ServerList,   \* the answers of listAlerts and of listServers
  Search,                  \* the texts that are typed, each as the ids it matches
  StartOfToday, Day        \* hours

VARIABLES
  alerts, alertFilter,     \* useAlerts of the page, its tab
  fleet, statusFilter,     \* useServers of the page, its status filter
  column, downward,        \* the order of the servers
  search                   \* what is typed on the page

listVars == <<alerts, alertFilter, fleet, statusFilter, column, downward, search>>

Severity     == {"critical", "warning", "info"}
AlertFilter  == {"all", "resolved"} \cup Severity
StatusFilter == {"all", "online", "degraded", "offline"}
Column       == {"name", "cpu"}
AnyId        == {a.id : a \in UNION {Elements(s) : s \in AlertList}}
                  \cup {x.id : x \in UNION {Elements(s) : s \in ServerList}}

AlertRecord(I)  == [id : I, severity : Severity, status : {"active", "acknowledged", "resolved"}, time : Int]
ServerRecord(I) == [id : I, status : StatusFilter \ {"all"}, name : Int, cpu : Int]

ASSUME ListsAssumption ==
  /\ AlertList \subseteq Seq(AlertRecord(STRING)) /\ ServerList \subseteq Seq(ServerRecord(STRING))
  /\ StartOfToday \in Int /\ Day \in Int

-----------------------------------------------------------------------------
\* The alerts, newest first.
Newer(a, b) == a.time > b.time
newest      == Sorted(alerts, Newer)
resolved(a) == a.status = "resolved"

matchesFilter(a, f) ==
  \/ f = "all"
  \/ f = "resolved" /\ resolved(a)
  \/ f = a.severity /\ ~ resolved(a)

\* The figures of the tabs and of the summary.
Counting(s, test(_)) == Len(Filter(s, test))
counts ==
  [f \in AlertFilter |->
     LET Counted(a) == f = "all" \/ (f = "resolved" /\ resolved(a))
                         \/ (f \in Severity /\ a.severity = f /\ ~ resolved(a))
     IN  Counting(newest, Counted)]

visible == LET Shown(a) == matchesFilter(a, alertFilter) /\ a.id \in search
           IN  Filter(newest, Shown)

\* Faulty variant: a day ends with its last hour, and an alert of it is lost.
BucketWithin(a) ==
  IF a.time >= StartOfToday THEN "Today"
  ELSE IF a.time > StartOfToday - Day THEN "Yesterday"
  ELSE IF a.time < StartOfToday - Day THEN "Earlier" ELSE "Never"

bucketFor(a) ==
  IF a.time >= StartOfToday THEN "Today"
  ELSE IF a.time >= StartOfToday - Day THEN "Yesterday" ELSE "Earlier"

group(b)  == LET In(a) == bucketFor(a) = b IN Filter(visible, In)
timeline  == group("Today") \o group("Yesterday") \o group("Earlier")

\* The bell, and the overview: the alerts that are not resolved, as they come.
active == LET Active(a) == ~ resolved(a) IN Filter(alerts, Active)

-----------------------------------------------------------------------------
\* The servers.
serverRows ==
  LET Shown(x) == (statusFilter = "all" \/ x.status = statusFilter) /\ x.id \in search
      Before(x, y) == IF downward THEN x[column] > y[column] ELSE x[column] < y[column]
  IN  Sorted(Filter(fleet, Shown), Before)

\* The line above the overview counts what is not online as offline.
overview ==
  LET Online(x) == x.status = "online"
      online == Counting(fleet, Online)
  IN  [servers |-> Len(fleet), online |-> online, offline |-> Len(fleet) - online]

-----------------------------------------------------------------------------
ListInit ==
  /\ alerts = <<>> /\ fleet = <<>> /\ search = AnyId
  /\ alertFilter = "all" /\ statusFilter = "all" /\ column = "name" /\ downward = FALSE

\* The answers to the first load, and on the page of the alerts to a refresh.
AlertsLoaded ==
  /\ alerts' \in AlertList
  /\ UNCHANGED <<alertFilter, fleet, statusFilter, column, downward, search>>

ServersLoaded ==
  /\ fleet = <<>> /\ fleet' \in ServerList
  /\ UNCHANGED <<alerts, alertFilter, statusFilter, column, downward, search>>

FilterList ==
  /\ \/ alertFilter' \in AlertFilter /\ UNCHANGED <<statusFilter, search>>
     \/ statusFilter' \in StatusFilter /\ UNCHANGED <<alertFilter, search>>
     \/ search' \in Search /\ UNCHANGED <<alertFilter, statusFilter>>
  /\ UNCHANGED <<alerts, fleet, column, downward>>

\* The button of a list that is empty because of its filters.
ClearFilters ==
  /\ \/ alerts # <<>> /\ visible = <<>> /\ alertFilter' = "all" /\ UNCHANGED statusFilter
     \/ fleet # <<>> /\ serverRows = <<>> /\ statusFilter' = "all" /\ UNCHANGED alertFilter
  /\ search' = AnyId
  /\ UNCHANGED <<alerts, fleet, column, downward>>

\* The head of a column.
OnSort ==
  /\ \E key \in Column :
       /\ column' = key /\ downward' = IF key = column THEN ~ downward ELSE FALSE
  /\ UNCHANGED <<alerts, alertFilter, fleet, statusFilter, search>>

ListNext == AlertsLoaded \/ ServersLoaded \/ FilterList \/ ClearFilters \/ OnSort

ListSpec == ListInit /\ [][ListNext]_listVars

-----------------------------------------------------------------------------
\* A tab counts what it shows when nothing is typed, the tabs of the severities
\* and of the resolved ones share out all alerts, and the bell counts the former.
\* "Date-grouped list" (AlertTimeline.tsx:23): the groups one below the other are
\* the visible alerts, each once and newest first, also at midnight. The servers
\* are in the order of their column; a text that matches all and no filter shows
\* each of them, and the overview counts each as online or as offline.
ListsAreExact ==
  /\ \A f \in AlertFilter :
       counts[f] = LET Matching(a) == matchesFilter(a, f) IN Counting(alerts, Matching)
  /\ counts["all"] = counts["critical"] + counts["warning"] + counts["info"] + counts["resolved"]
  /\ Len(active) = counts["all"] - counts["resolved"]
  /\ timeline = visible
  /\ \A k, l \in 1 .. Len(timeline) : k < l => timeline[k].time >= timeline[l].time
  /\ search = AnyId /\ alertFilter = "all" => Elements(timeline) = Elements(alerts)
  /\ \A k, l \in 1 .. Len(serverRows) : k < l =>
       IF downward THEN serverRows[k][column] >= serverRows[l][column] ELSE serverRows[k][column] <= serverRows[l][column]
  /\ search = AnyId /\ statusFilter = "all" => Elements(serverRows) = Elements(fleet)
  /\ overview.online + overview.offline = overview.servers

\* What the lists hold in every state.
ListsInv ==
  /\ alerts \in AlertList \cup {<<>>} /\ fleet \in ServerList \cup {<<>>}
  /\ alertFilter \in AlertFilter /\ statusFilter \in StatusFilter
  /\ column \in Column /\ downward \in BOOLEAN
=============================================================================
