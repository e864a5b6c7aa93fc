---------------------------- MODULE MCInterface ----------------------------
(***************************************************************************)
(* Small instances of the parts of the console. The parts share no state,  *)
(* so a behaviour is one of a part, and the others do not move: what is    *)
(* explored is the sum of the parts and not their product. Timers and      *)
(* preferences are made of parts of that kind themselves.                  *)
(***************************************************************************)
EXTENDS MCAddServer, Console, ProcessTable, Lists, CommandPalette, Overlays, Timers, Preferences

VARIABLE part   \* the part that moves

-----------------------------------------------------------------------------
ProcessOf(i, c, s) == [pid |-> i, cpu_percent |-> c, state |-> s]
AlertOf(i, v, s, t) == [id |-> i, severity |-> v, status |-> s, time |-> t]
RowOf(i, s, n, c) == [id |-> i, status |-> s, name |-> n, cpu |-> c]

\* Three pages, two, and none; equal shares of the CPU.
MCProcessList ==
  { <<ProcessOf(1, 2, "running"), ProcessOf(2, 1, "sleeping"), ProcessOf(3, 2, "sleeping"),
      ProcessOf(4, 1, "running"), ProcessOf(5, 1, "running")>>,
    <<ProcessOf(1, 1, "running"), ProcessOf(3, 1, "sleeping"), ProcessOf(2, 2, "running")>>,
    <<>> }

\* Alerts of the first and the last hour of a day, two of the same hour.
MCAlertList ==
  { <<AlertOf("a1", "critical", "active", 30), AlertOf("a2", "warning", "resolved", 24),
      AlertOf("a3", "info", "acknowledged", 24)>>,
    <<AlertOf("a4", "critical", "resolved", 48), AlertOf("a1", "critical", "active", 30),
      AlertOf("a5", "warning", "active", 50), AlertOf("a3", "info", "active", 20)>> }

MCServerList ==
  { <<RowOf("s1", "online", 2, 1), RowOf("s2", "offline", 1, 1), RowOf("s3", "degraded", 3, 0)>> }

MCSearch == {{}, {"a1", "a2", "s2"}, {"a2", "a3", "a4", "s1", "s3"}}

MCNeedle == {{1, 3, 4}, {2}}

MCPageCommands   == <<"p1", "p2", "p3">>
MCServerCommands == <<"s1", "s2">>
MCTexts          == {{"p2", "s1"}, {"s1", "s2"}, {}}

interface == <<part, vars, pagesVars, tableVars, listVars, paletteVars, overlayVars, timerVars, prefVars>>

-----------------------------------------------------------------------------
Part == {"dialog", "pages", "processes", "lists", "palette", "layers",
         "toasts", "motion", "hint", "settings", "connection"}

\* A part that does not move has one initial state.
MCInit ==
  /\ part \in Part
  /\ Init /\ PagesInit /\ TableInit /\ ListInit /\ PaletteInit /\ OverlayInit /\ TimerInit /\ PrefInit
  /\ part # "pages" => world = <<>>
  /\ part # "processes" => processes = <<>>
  /\ part # "layers" => path = "landing"
  /\ part # "motion" => motion
  /\ part # "settings" => kept = DEFAULT_SETTINGS /\ ~ light

MCNext ==
  /\ UNCHANGED part
  /\ IF part = "dialog" THEN Next ELSE UNCHANGED vars
  /\ IF part = "pages" THEN PagesNext ELSE UNCHANGED pagesVars
  /\ IF part = "processes" THEN TableNext ELSE UNCHANGED tableVars
  /\ IF part = "lists" THEN ListNext ELSE UNCHANGED listVars
  /\ IF part = "palette" THEN PaletteNext ELSE UNCHANGED paletteVars
  /\ IF part = "layers" THEN OverlayNext ELSE UNCHANGED overlayVars
  /\ CASE part = "toasts" -> ToastNext
       [] part = "motion" -> MotionNext
       [] part = "hint"   -> HintNext
       [] OTHER           -> UNCHANGED timerVars
  /\ CASE part = "settings"   -> SettingsNext
       [] part = "connection" -> ConnectionNext
       [] OTHER               -> UNCHANGED prefVars

\* The fairness of the parts, of the part that moves.
MCFairness ==
  /\ WF_vars(part = "dialog" /\ ReadStored) /\ WF_vars(part = "dialog" /\ ShowList)
  /\ \A c \in Call : WF_vars(part = "dialog" /\ Answer(c))
  /\ \A q \in BOOLEAN :
       /\ WF_pagesVars(part = "pages" /\ ~ crashed /\ list.ask = q /\ AnswerList)
       /\ WF_pagesVars(part = "pages" /\ ~ crashed /\ server.ask = q /\ AnswerServer)
       /\ WF_pagesVars(part = "pages" /\ ~ crashed /\ metrics.ask = q /\ AnswerMetrics)
  /\ WF_pagesVars(part = "pages" /\ ~ crashed /\ RestartAnswered)
  /\ WF_pagesVars(part = "pages" /\ ~ crashed /\ Redirect)
  /\ WF_timerVars(part = "toasts" /\ Dismiss)
  /\ WF_timerVars(part = "motion" /\ BootTimer)
  /\ WF_timerVars(part = "motion" /\ LastFrame)
  /\ \A t \in Tab : WF_prefVars(part = "connection" /\ Tested(t))

MCSpec     == MCInit /\ [][MCNext]_interface
MCFairSpec == MCSpec /\ MCFairness

-----------------------------------------------------------------------------
\* What the user waits for comes to an end, unless the user asks for it anew.
InterfaceSettles ==
  /\ SubmitSettles
  /\ part = "pages" => PagesSettle
  /\ TimersSettle
  /\ TestEnds
=============================================================================
