------------------------------- MODULE Timers -------------------------------
(***************************************************************************)
(* The parts of the console that timers and animation frames drive: the    *)
(* toasts, the splash screen, the counters and the tooltips. A timer ends  *)
(* at any time after it was set, so this says nothing of milliseconds, and *)
(* everything of timers that end early, late and in another order.         *)
(***************************************************************************)
EXTENDS Arrays

CONSTANTS
  Toast,      \* the ids of the toasts that are pushed
  Reading,    \* the values a counter is given
  MaxChanges  \* bound: times the counter's value changes

VARIABLES
  toasts,     \* the toasts that are shown, the newest last
  timers,     \* the toasts that a timer will dismiss
  pushed,     \* the toasts that were pushed so far
  boot,       \* the splash screen: off, held, leaving, done (booted)
  motion,     \* whether animations are wanted
  value,      \* what a counter is to show
  displayed,  \* what its node shows: between two values, or one of them
  frame,      \* a frame is requested, by the tween to this value; None for none
  changes,    \* how often the value changed
  over,       \* the pointer or the keyboard is on the tooltip's element
  hint        \* the tooltip: hidden, timed, visible

toastVars   == <<toasts, timers, pushed>>
bootVars    == <<boot>>
counterVars == <<value, displayed, frame, changes>>
hintVars    == <<over, hint>>
timerVars   == <<toastVars, bootVars, motion, counterVars, hintVars>>

None    == 0   \* no reading
Between == 0   \* what a tween writes on its way from one reading to another

ASSUME ReadingAssumption == None \notin Reading

\* toasts.slice(-2), and the new one.
LastTwo(s) == IF Len(s) <= 2 THEN s ELSE SubSeq(s, Len(s) - 1, Len(s))

TimerInit ==
  /\ toasts = <<>> /\ timers = {} /\ pushed = {}
  /\ boot = "off" /\ motion \in BOOLEAN
  /\ value = 0 /\ displayed = 0 /\ frame = None /\ changes = 0
  /\ over = FALSE /\ hint = "hidden"

-----------------------------------------------------------------------------
\* Faulty variant: one timer for all toasts, set anew by each of them.
PushOneTimer ==
  /\ \E t \in Toast \ pushed :
       /\ toasts' = Append(LastTwo(toasts), t)
       /\ timers' = {t} /\ pushed' = pushed \cup {t}
  /\ UNCHANGED <<bootVars, motion, counterVars, hintVars>>

\* A toast that is pushed out by the fourth leaves its timer behind.
Push ==
  /\ \E t \in Toast \ pushed :
       /\ toasts' = Append(LastTwo(toasts), t)
       /\ timers' = timers \cup {t} /\ pushed' = pushed \cup {t}
  /\ UNCHANGED <<bootVars, motion, counterVars, hintVars>>

\* The timer of a toast, or its button.
Dismiss ==
  /\ \E t \in timers :
       LET Other(x) == x # t IN toasts' = Filter(toasts, Other) /\ timers' = timers \ {t}
  /\ UNCHANGED <<pushed, bootVars, motion, counterVars, hintVars>>

-----------------------------------------------------------------------------
\* Entering the console for the first time in a session.
BootBegins ==
  /\ boot = "off" /\ boot' = IF motion THEN "held" ELSE "done"
  /\ UNCHANGED <<toastVars, motion, counterVars, hintVars>>

\* Faulty variant: the effect depends on the fading too, so its clean-up clears
\* the second timer with the first.
BootTimerOnce ==
  /\ boot = "held" /\ boot' = "leaving"
  /\ UNCHANGED <<toastVars, motion, counterVars, hintVars>>

\* The two timers of the splash screen; the second is set for later.
BootTimer ==
  /\ \/ boot = "held" /\ boot' = "leaving"
     \/ boot = "leaving" /\ boot' = "done"
  /\ UNCHANGED <<toastVars, motion, counterVars, hintVars>>

\* Back to the landing page before it ended: the timers are cleared.
BootLeft ==
  /\ boot \in {"held", "leaving"} /\ boot' = "off"
  /\ UNCHANGED <<toastVars, motion, counterVars, hintVars>>

\* The preference for less motion changes: the effects of the splash screen and
\* of the counter run anew.
SetMotion ==
  /\ motion' = ~ motion
  /\ boot' = IF boot \in {"held", "leaving"} /\ ~ motion' THEN "done" ELSE boot
  /\ IF motion' THEN frame' = value /\ UNCHANGED displayed
                ELSE frame' = None /\ displayed' = value
  /\ UNCHANGED <<toastVars, value, changes, hintVars>>

-----------------------------------------------------------------------------
\* Faulty variant: while a tween runs, another is not begun.
ChangeUnlessRunning ==
  /\ changes < MaxChanges /\ changes' = changes + 1
  /\ value' \in Reading \ {value}
  /\ frame' = IF frame # None THEN frame ELSE value'
  /\ UNCHANGED <<displayed, toastVars, bootVars, motion, hintVars>>

\* A counter is given another value: its effect cancels the frame that was
\* requested and begins a tween to the new value.
Change ==
  /\ changes < MaxChanges /\ changes' = changes + 1
  /\ value' \in Reading \ {value}
  /\ IF motion THEN frame' = value' /\ UNCHANGED displayed
               ELSE frame' = None /\ displayed' = value'
  /\ UNCHANGED <<toastVars, bootVars, motion, hintVars>>

\* A frame on the way, and the last one.
Frame ==
  /\ frame # None
  /\ \/ displayed' = Between /\ UNCHANGED frame
     \/ displayed' = frame /\ frame' = None
  /\ UNCHANGED <<value, changes, toastVars, bootVars, motion, hintVars>>

LastFrame == Frame /\ frame' = None

-----------------------------------------------------------------------------
\* The pointer or the focus comes, and a timer is set, anew if there was one.
HintComes ==
  /\ over' = TRUE /\ hint' = (IF hint = "visible" THEN hint ELSE "timed")
  /\ UNCHANGED <<toastVars, bootVars, motion, counterVars>>

\* Faulty variant: the timer is not cleared.
HintGoesLate ==
  /\ over /\ over' = FALSE /\ hint' = (IF hint = "timed" THEN hint ELSE "hidden")
  /\ UNCHANGED <<toastVars, bootVars, motion, counterVars>>

\* One of them goes, or the element is unmounted.
HintGoes ==
  /\ over /\ over' = FALSE /\ hint' = "hidden"
  /\ UNCHANGED <<toastVars, bootVars, motion, counterVars>>

HintTimer ==
  /\ hint = "timed" /\ hint' = "visible"
  /\ UNCHANGED <<over, toastVars, bootVars, motion, counterVars>>

ToastNext  == Push \/ Dismiss
MotionNext == BootBegins \/ BootTimer \/ BootLeft \/ SetMotion \/ Change \/ Frame
HintNext   == HintComes \/ HintGoes \/ HintTimer
TimerNext  == ToastNext \/ MotionNext \/ HintNext

\* Timers end and frames come; a tween is over after a while.
TimerFairness ==
  /\ WF_timerVars(Dismiss) /\ WF_timerVars(BootTimer) /\ WF_timerVars(LastFrame)

TimerSpec     == TimerInit /\ [][TimerNext]_timerVars
TimerFairSpec == TimerSpec /\ TimerFairness

-----------------------------------------------------------------------------
\* No toast is without a timer, so none stays; there are at most three, and the
\* newest is among them until it was dismissed. A counter that does not move
\* shows its value. A tooltip is seen on its element only.
TimersInv ==
  /\ Len(toasts) <= 3 /\ \A j, k \in 1 .. Len(toasts) : toasts[j] = toasts[k] => j = k
  /\ \A k \in 1 .. Len(toasts) : toasts[k] \in timers
  /\ frame = None => displayed = value
  /\ frame # None => frame = value
  /\ hint # "hidden" => over

\* Toasts go away, the splash screen ends or is left, and a counter shows its
\* value in the end, however often it changed on the way.
TimersSettle ==
  /\ pushed = Toast ~> toasts = <<>>
  /\ boot \in {"held", "leaving"} ~> boot \in {"off", "done"}
  /\ changes = MaxChanges ~> displayed = value

\* The inductive invariant: no toast is pushed twice, and those with a timer
\* were pushed.
ToastsInv ==
  /\ toasts \in Seq(Toast) /\ timers \subseteq pushed /\ pushed \subseteq Toast
  /\ TimersInv
=============================================================================
