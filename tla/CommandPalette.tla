--------------------------- MODULE CommandPalette ---------------------------
(***************************************************************************)
(* The command palette: the pages of the console and the servers, filtered *)
(* by what is typed, with a cursor the keyboard and the pointer move. It   *)
(* is always mounted; Ctrl+K opens and closes it.                          *)
(*                                                                         *)
(* A rendering shows what was set before it, and its effects run after it: *)
(* opening clears the text and the cursor, another number of results       *)
(* brings the cursor back among them, and the listener of the keyboard is  *)
(* set anew with these results and this cursor. What an effect sets is     *)
(* rendered later. After a click or a key React renders at once and runs   *)
(* the effects too; after a movement of the pointer, an answer or what an  *)
(* effect set, the rendering and its effects are tasks of their own, and a *)
(* key may come before each of them (React 19 renders at once whatever was *)
(* set by then).                                                           *)
(*                                                                         *)
(* Data: a command is where it leads to; a text is the set of commands it  *)
(* matches.                                                                *)
(***************************************************************************)
EXTENDS Arrays

CONSTANTS
  PageCommands, ServerCommands,   \* the commands of NAV_GROUPS, and of the servers
  Texts                           \* what is typed, each as the set it matches

ASSUME CommandsAssumption == PageCommands \in Seq(STRING) /\ ServerCommands \in Seq(STRING)

VARIABLES
  state,    \* what was set last: a view of the palette, see View
  screen,   \* the view that is rendered
  heard,    \* the view whose effects ran last: what the listener works with
  went      \* where the last command led to

paletteVars == <<state, screen, heard, went>>

AnyCommand == {PageCommands[k] : k \in 1 .. Len(PageCommands)}
                \cup {ServerCommands[k] : k \in 1 .. Len(ServerCommands)}

\* The palette is open, what the text matches, the servers it was given (<<>>
\* until they are loaded), and the row of the cursor, from 0.
View == [shown : BOOLEAN, typed : Texts \cup {AnyCommand},
         servers : {<<>>, ServerCommands}, cursor : Nat]

\* Faulty variant: the servers come first.
ServersFirst(s) == s \o PageCommands
commands(s)     == PageCommands \o s

Results(s, text) == LET Typed(c) == c \in text IN Filter(commands(s), Typed)
results(v)       == Results(v.servers, v.typed)
Nowhere          == ""
Highlighted(v)   == IF v.cursor < Len(results(v)) THEN results(v)[v.cursor + 1] ELSE Nowhere

\* The cursor stays, unless there are too few results for it.
Clamped(c, r) == IF c < Len(r) THEN c ELSE IF r = <<>> THEN 0 ELSE Len(r) - 1

\* What is set after the effects of view v, when those of view u ran before.
Opened(s, u, v) ==
  IF v.shown /\ ~ u.shown THEN [s EXCEPT !.typed = AnyCommand, !.cursor = 0] ELSE s
AfterEffects(s, u, v) ==
  IF Len(results(v)) # Len(results(u))
    THEN [Opened(s, u, v) EXCEPT !.cursor = Clamped(@, results(v))] ELSE Opened(s, u, v)

PaletteInit ==
  /\ state = [shown |-> FALSE, typed |-> AnyCommand, servers |-> <<>>, cursor |-> 0]
  /\ screen = state /\ heard = state /\ went = Nowhere

-----------------------------------------------------------------------------
\* A click or a key that sets s: effects still to run, the rendering, its effects.
AtOnce(s) ==
  LET v == AfterEffects(s, heard, screen) IN
  /\ screen' = v /\ heard' = v /\ state' = AfterEffects(v, screen, v)

\* Opening clears the text and the cursor in an effect; closing leaves them.
Show ==
  /\ ~ screen.shown /\ AtOnce([state EXCEPT !.shown = TRUE])
  /\ UNCHANGED went

\* Ctrl+K, Escape, or a click outside.
Hide ==
  /\ screen.shown /\ AtOnce([state EXCEPT !.shown = FALSE])
  /\ UNCHANGED went

TypeText ==
  /\ screen.shown
  /\ \E text \in Texts \cup {AnyCommand} : AtOnce([state EXCEPT !.typed = text])
  /\ UNCHANGED went

\* The arrows go round the results that the listener knows.
Arrow ==
  LET n == Len(results(heard)) IN
  /\ heard.shown
  /\ AtOnce([state EXCEPT !.cursor = IF n = 0 THEN 0 ELSE (@ + 1) % n])
       \/ AtOnce([state EXCEPT !.cursor = IF n = 0 THEN 0 ELSE (@ + n - 1) % n])
  /\ UNCHANGED went

\* The pointer enters a row; the rendering is a task of its own.
Hover ==
  /\ screen.shown
  /\ \E k \in 0 .. Len(results(screen)) - 1 : state' = [state EXCEPT !.cursor = k]
  /\ UNCHANGED <<screen, heard, went>>

\* Enter leads where the listener believes the cursor to be.
Enter ==
  /\ heard.shown /\ heard.cursor < Len(results(heard))
  /\ went' = results(heard)[heard.cursor + 1]
  /\ AtOnce([state EXCEPT !.shown = FALSE])

Click ==
  /\ screen.shown /\ \E k \in 1 .. Len(results(screen)) : went' = results(screen)[k]
  /\ AtOnce([state EXCEPT !.shown = FALSE])

\* useServers of the layout is answered.
ServersArrive ==
  /\ state.servers = <<>> /\ state' = [state EXCEPT !.servers = ServerCommands]
  /\ UNCHANGED <<screen, heard, went>>

\* The task that renders what was set; effects still to run come first.
Commit ==
  /\ heard = screen /\ state # screen /\ screen' = state
  /\ UNCHANGED <<state, heard, went>>

\* The task that runs the effects of the last rendering.
Effects ==
  /\ heard # screen /\ heard' = screen /\ state' = AfterEffects(state, heard, screen)
  /\ UNCHANGED <<screen, went>>

PaletteNext ==
  \/ Show \/ Hide \/ TypeText \/ Arrow \/ Hover \/ Enter \/ Click
  \/ ServersArrive \/ Commit \/ Effects

PaletteSpec == PaletteInit /\ [][PaletteNext]_paletteVars

-----------------------------------------------------------------------------
NothingPending == state = screen /\ heard = screen

\* Enter may come before the effects of a rendering and then follows the one
\* before, but it always leads to a command that is on the screen, and to the
\* highlighted one unless the highlight was moved or the text cleared since; the
\* arrival of the servers alone does not mislead it, and moves the highlight to
\* no other command. When nothing is pending one of the results is highlighted.
EnterOpensDisplayed ==
  /\ [](NothingPending /\ results(screen) # <<>> => screen.cursor < Len(results(screen)))
  /\ [][ /\ Enter => /\ went' \in Elements(results(screen))
                     /\ heard.cursor = screen.cursor /\ heard.typed = screen.typed
                          => went' = Highlighted(screen)
         /\ /\ Commit /\ screen'.typed = screen.typed /\ screen'.cursor = screen.cursor
            /\ screen.cursor < Len(results(screen))
            => Highlighted(screen') = Highlighted(screen) ]_paletteVars

(***************************************************************************)
(* The inductive invariant: the three views differ by what may be pending, *)
(* so that what the listener knows is on the screen and what is on the     *)
(* screen stays; and once the effects ran the cursor is among the results. *)
(***************************************************************************)
Grows(u, v) ==
  /\ u.shown = v.shown
  /\ u.typed = v.typed \/ v.typed = AnyCommand
  /\ u.servers = v.servers \/ u.servers = <<>>
Fits(c, r) == c < Len(r) \/ c = 0
PaletteInv ==
  /\ state \in View /\ screen \in View /\ heard \in View
  /\ Grows(heard, screen) /\ Grows(screen, state)
  /\ Fits(AfterEffects(state, heard, screen).cursor, results(screen))
=============================================================================
