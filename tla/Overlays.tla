------------------------------ MODULE Overlays ------------------------------
(***************************************************************************)
(* What lies over a page: the dialog of the page, the drawer with the      *)
(* navigation, and the menus (Dropdown and IconMenu of a page,             *)
(* NotificationsMenu and ProfileChip of the layout). Each listens to the   *)
(* document while it is open, so one Escape closes all of them, and a      *)
(* press of the pointer closes the menus it is not in. While the dialog is *)
(* open the body does not scroll.                                          *)
(*                                                                         *)
(* The content of the layout is keyed on the path: leaving the path        *)
(* unmounts the page with its dialog and its menus, whose effects clean up *)
(* after themselves.                                                       *)
(***************************************************************************)
EXTENDS Naturals, FiniteSets

CONSTANTS
  PageMenu, LayoutMenu   \* the menus of a page, and of the layout

VARIABLES
  path,        \* the path, "landing" outside the layout
  dialogOpen,  \* the dialog of the page is open
  drawerOpen,  \* the drawer with the navigation is open
  menus,       \* the menus that are open
  overflow,    \* document.body.style.overflow
  restores     \* what the clean-up of the dialog will set it to

overlayVars == <<path, dialogOpen, drawerOpen, menus, overflow, restores>>

Path == {"landing", "dashboard", "servers"}
Menu == PageMenu \cup LayoutMenu

\* The style of a body that scrolls.
Scrolls == ""

\* The clean-up of the dialog's effect, when it closes or is unmounted.
CleanUp == overflow' = IF dialogOpen THEN restores ELSE overflow

OverlayInit ==
  /\ path \in Path /\ dialogOpen = FALSE /\ drawerOpen = FALSE /\ menus = {}
  /\ overflow = Scrolls /\ restores = Scrolls

-----------------------------------------------------------------------------
\* "Add server". The button is behind the dialog, and the keyboard is kept in
\* it, so the dialog is not opened twice. The button is no part of a menu.
OpenDialog ==
  /\ path # "landing" /\ ~ dialogOpen
  /\ dialogOpen' = TRUE
  /\ restores' = overflow /\ overflow' = "hidden"
  /\ menus' \in {menus, {}}     \* with the keyboard, with the pointer
  /\ UNCHANGED <<path, drawerOpen>>

\* The buttons of the dialog, its backdrop, or the end of a submission.
CloseDialog ==
  /\ dialogOpen /\ dialogOpen' = FALSE
  /\ CleanUp
  /\ UNCHANGED <<path, drawerOpen, menus, restores>>

\* Every listener hears it; that the dialog stops the propagation is of no
\* effect on listeners of the same node.
Escape ==
  /\ dialogOpen' = FALSE /\ menus' = {}
  /\ CleanUp
  /\ UNCHANGED <<path, drawerOpen, restores>>

\* A press outside of every menu but perhaps one.
PointerDown ==
  /\ \E inside \in SUBSET menus : Cardinality(inside) <= 1 /\ menus' = inside
  /\ UNCHANGED <<path, dialogOpen, drawerOpen, overflow, restores>>

\* The button of a menu: with the pointer the others close first.
ToggleMenu ==
  /\ path # "landing" /\ ~ dialogOpen
  /\ \E m \in Menu, others \in {menus, {}} :
       menus' = IF m \in menus THEN others \ {m} ELSE others \cup {m}
  /\ UNCHANGED <<path, dialogOpen, drawerOpen, overflow, restores>>

\* An item of a menu is chosen.
Choose ==
  /\ \E m \in menus : menus' = menus \ {m}
  /\ UNCHANGED <<path, dialogOpen, drawerOpen, overflow, restores>>

SetDrawer ==
  /\ path # "landing" /\ drawerOpen' = ~ drawerOpen
  /\ UNCHANGED <<path, dialogOpen, menus, overflow, restores>>

\* Faulty variant: the effect of the dialog has no clean-up on unmounting.
GoWithoutCleanUp ==
  /\ \E p \in Path \ {path} :
       path' = p /\ menus' = (IF p = "landing" THEN {} ELSE menus \cap LayoutMenu)
  /\ drawerOpen' = FALSE /\ dialogOpen' = FALSE
  /\ UNCHANGED <<overflow, restores>>

\* Another path, by a link, the palette (which opens over a dialog) or the
\* history: the page is unmounted, with the landing page the layout as well.
Go ==
  /\ \E p \in Path \ {path} :
       path' = p /\ menus' = (IF p = "landing" THEN {} ELSE menus \cap LayoutMenu)
  /\ drawerOpen' = FALSE /\ dialogOpen' = FALSE
  /\ CleanUp
  /\ UNCHANGED restores

OverlayNext ==
  \/ OpenDialog \/ CloseDialog \/ Escape \/ PointerDown \/ ToggleMenu \/ Choose
  \/ SetDrawer \/ Go

OverlaySpec == OverlayInit /\ [][OverlayNext]_overlayVars

-----------------------------------------------------------------------------
\* "scroll locked behind it" (Modal.tsx:24): the body scrolls unless a dialog
\* is open, however it was closed or its page left; and nothing of the layout
\* stays open without the layout.
ScrollLockIsDialogs ==
  /\ overflow = (IF dialogOpen THEN "hidden" ELSE Scrolls)
  /\ path = "landing" => ~ dialogOpen /\ ~ drawerOpen /\ menus = {}

\* The inductive invariant: an open dialog will restore what a body without a
\* dialog has.
OverlayInv == ScrollLockIsDialogs /\ (dialogOpen => restores = Scrolls)
=============================================================================
