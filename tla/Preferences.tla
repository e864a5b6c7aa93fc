---------------------------- MODULE Preferences ----------------------------
(***************************************************************************)
(* What a browser remembers of its user: the settings, and how the agent   *)
(* is reached. Both are one record in localStorage, shared by the tabs. A  *)
(* tab reads the settings when it is opened and writes its whole record    *)
(* after every change; it reads the connection at each use, and writes it  *)
(* from the form of the Settings page, which it filled when the page was   *)
(* mounted.                                                                *)
(*                                                                         *)
(* Data: of the settings the theme, and the density for the others, none   *)
(* of which depends on another. Of an agent's URL it matters which it is   *)
(* and whether it is blank. There is no VITE_AGENT_URL and no              *)
(* VITE_DATA_SOURCE: the source is "mock" until another is saved.          *)
(***************************************************************************)
EXTENDS Naturals

CONSTANTS
  Tab, Url,
  NoUrl        \* no URL

VARIABLES
  opened,      \* the tabs that are open
  prefs,       \* tab -> its settings
  kept,        \* localStorage: the settings, of which the defaults when there are none
  light,       \* the system prefers light colours
  document,    \* tab -> what was written to the root of its document
  connection,  \* localStorage: the URL and the source
  endpoint,    \* tab -> what the form of the Settings page holds
  pill,        \* tab -> the source the sidebar reports
  testing      \* tab -> the test of a connection is pending

prefVars == <<opened, prefs, kept, light, document, connection, endpoint, pill, testing>>

Theme    == {"dark", "light", "system"}
Settings == [theme : Theme, compact : BOOLEAN]
Source   == {"mock", "api"}
Endpoint == [url : Url \cup {NoUrl}, source : Source]

DEFAULT_SETTINGS == [theme |-> "dark", compact |-> FALSE]
NoEndpoint       == [url |-> NoUrl, source |-> "mock"]

\* The source of the calls: without a URL it is "mock", whatever was chosen.
getDataSourceMode(c) == IF c.url = NoUrl THEN "mock" ELSE c.source

IsLight(s, prefersLight) == s.theme = "light" \/ (s.theme = "system" /\ prefersLight)
Applied(s, prefersLight) == [light |-> IsLight(s, prefersLight), compact |-> s.compact]

PrefInit ==
  /\ opened = {} /\ prefs = [t \in Tab |-> DEFAULT_SETTINGS] /\ kept \in Settings
  /\ light \in BOOLEAN /\ document = [t \in Tab |-> Applied(DEFAULT_SETTINGS, FALSE)]
  /\ connection = NoEndpoint /\ endpoint = [t \in Tab |-> NoEndpoint]
  /\ pill = [t \in Tab |-> "mock"]
  /\ testing = [t \in Tab |-> FALSE]

-----------------------------------------------------------------------------
\* A tab has these settings: its effect applies them and stores them.
Settle(t, s) ==
  /\ prefs' = [prefs EXCEPT ![t] = s] /\ kept' = s
  /\ document' = [document EXCEPT ![t] = Applied(s, light)]

\* The form of the page as it is filled when the page is mounted.
Mounted(t) ==
  /\ endpoint' = [endpoint EXCEPT ![t] = [url |-> connection.url, source |-> getDataSourceMode(connection)]]
  /\ pill' = [pill EXCEPT ![t] = getDataSourceMode(connection)]
  /\ testing' = [testing EXCEPT ![t] = FALSE]

\* A tab is opened, or reloaded, on the Settings page.
OpenTab(t) ==
  /\ opened' = opened \cup {t}
  /\ Settle(t, kept) /\ Mounted(t)
  /\ UNCHANGED <<light, connection>>

\* A theme, or an accent, is chosen; a switch, a list or a slider is used.
SetTheme(t)  == \E theme \in Theme : Settle(t, [prefs[t] EXCEPT !.theme = theme])
SetSwitch(t) == Settle(t, [prefs[t] EXCEPT !.compact = ~ @])
Reset(t)     == Settle(t, DEFAULT_SETTINGS)

UpdateSettings(t) ==
  /\ t \in opened
  /\ SetTheme(t) \/ SetSwitch(t) \/ Reset(t)
  /\ UNCHANGED <<opened, light, connection, endpoint, pill, testing>>

\* Faulty variant: the listener was set once, by a tab in another theme.
SystemChangesUnheard ==
  /\ light' = ~ light
  /\ UNCHANGED <<document, opened, prefs, kept, connection, endpoint, pill, testing>>

\* The system's colours change: a tab in theme "system" listens.
SystemChanges ==
  /\ light' = ~ light
  /\ document' = [t \in Tab |->
       IF t \in opened /\ prefs[t].theme = "system" THEN Applied(prefs[t], ~ light) ELSE document[t]]
  /\ UNCHANGED <<opened, prefs, kept, connection, endpoint, pill, testing>>

-----------------------------------------------------------------------------
\* Another section: what reads the address renders, the page keeps its state.
SetSection(t) ==
  /\ t \in opened /\ pill' = [pill EXCEPT ![t] = getDataSourceMode(connection)]
  /\ UNCHANGED <<opened, prefs, kept, light, document, connection, endpoint, testing>>

\* Another page, and back.
NavigateTab(t) ==
  /\ t \in opened /\ Mounted(t)
  /\ UNCHANGED <<opened, prefs, kept, light, document, connection>>

Edit(t) ==
  /\ t \in opened
  /\ \E e \in Endpoint : endpoint' = [endpoint EXCEPT ![t] = e]
  /\ UNCHANGED <<opened, prefs, kept, light, document, connection, pill, testing>>

\* "Save" writes the credentials, then the source; the toast says "on the next
\* data load" of the agent, or "stays on sample data". Nothing is rendered anew
\* but the toast.
SaveConnection(t) ==
  /\ t \in opened
  /\ connection' = endpoint[t]
  /\ UNCHANGED <<opened, prefs, kept, light, document, endpoint, pill, testing>>

\* "Clear credentials" leaves the source.
ClearCredentials(t) ==
  /\ t \in opened
  /\ connection' = [connection EXCEPT !.url = NoUrl]
  /\ endpoint' = [endpoint EXCEPT ![t].url = NoUrl]
  /\ UNCHANGED <<opened, prefs, kept, light, document, pill, testing>>

\* "Test connection" asks the source in use about the form; its button is
\* disabled until the answer, which is some toast.
TestConnection(t) ==
  /\ t \in opened /\ ~ testing[t] /\ testing' = [testing EXCEPT ![t] = TRUE]
  /\ UNCHANGED <<opened, prefs, kept, light, document, connection, endpoint, pill>>

Tested(t) ==
  /\ testing[t] /\ testing' = [testing EXCEPT ![t] = FALSE]
  /\ UNCHANGED <<opened, prefs, kept, light, document, connection, endpoint, pill>>

SettingsNext == SystemChanges \/ \E t \in Tab : OpenTab(t) \/ UpdateSettings(t)
ConnectionNext ==
  \E t \in Tab :
    \/ OpenTab(t) \/ SetSection(t) \/ NavigateTab(t) \/ Edit(t) \/ SaveConnection(t) \/ ClearCredentials(t)
    \/ TestConnection(t) \/ Tested(t)
PrefNext == SettingsNext \/ ConnectionNext

\* The test of a connection gives up after eight seconds, the sample one sooner.
PrefFairness == \A t \in Tab : WF_prefVars(Tested(t))

PrefSpec == PrefInit /\ [][PrefNext]_prefVars

-----------------------------------------------------------------------------
\* Every open tab looks as its own settings say, and in theme "system" as the
\* system says, whichever changed last and whatever other tabs did.
DocumentFollows == \A t \in opened : document[t] = Applied(prefs[t], light)

\* The button "Test connection" is given back.
TestEnds == \A t \in Tab : testing[t] ~> ~ testing[t]

\* "Reports what the dashboard is actually reading from" (ConnectionPill.tsx:13).
PillIsTrue == \A t \in opened : pill[t] = getDataSourceMode(connection)

\* The inductive invariant: the types of what DocumentFollows speaks of.
DocumentInv ==
  /\ opened \subseteq Tab /\ prefs \in [Tab -> Settings] /\ kept \in Settings /\ light \in BOOLEAN
  /\ document \in [Tab -> [light : BOOLEAN, compact : BOOLEAN]]
  /\ DocumentFollows
=============================================================================
