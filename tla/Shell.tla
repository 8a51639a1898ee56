------------------------------- MODULE Shell --------------------------------
(***************************************************************************)
(* The commands that rearrange the screen (internal/app: executeCommand,   *)
(* routeTerminalKey, handleMouseClick and the messages that open and close *)
(* panes), as sequences of the methods of Layout, and the size the remote  *)
(* shell of each embedded terminal was told last.                          *)
(*                                                                         *)
(* Where a command first looks at what is selected, or at which plugin a   *)
(* list shows, the model takes either answer.  A closed pane's name may be *)
(* used again for a new pane.                                              *)
(***************************************************************************)
EXTENDS Layout, FiniteSets

CONSTANTS
    Windows  \* the sizes the program's window can have, [w, h]

ASSUME WindowAssumption == Windows \subseteq [w : Nat \ {0}, h : Nat \ {0, 1}]

VARIABLES
    lay,     \* App.layout
    term,    \* per terminal: "none" (not in the layout), "preflight" (its
             \* placeholder pane waits for a debug container), "running",
             \* "closed" (session gone, pane left) or "exited"
    remote   \* the size Session.Resize passed on last

vars == <<lay, term, remote>>

Init ==
    /\ \E p \in Lists, win \in Windows : lay = NewLayout(p, win.w, win.h)
    /\ term = [t \in Terminals |-> "none"]
    /\ remote = [t \in Terminals |-> Nothing]

\* A pane's keys go to its shell, except the captured ones.
TakesKeys(p) == p \in Terminals /\ term[p] # "exited"
TrieReachable == ~TakesKeys(Focused(lay))

\* syncTerminalSizes: the registered sessions whose pane is in the layout and
\* not hidden are told the inner size of the pane.
Synced(l, tm) ==
    [t \in Terminals |->
        IF tm[t] = "running" /\ t \in Panes(l) /\ ~IsHidden(l, t)
        THEN InnerSize(l, t) ELSE remote[t]]

Rearranged(l) == lay' = l /\ UNCHANGED <<term, remote>>
RearrangedAndSynced(l) == lay' = l /\ remote' = Synced(l, term) /\ UNCHANGED term

Unzoomed(l) == IF AnyZoomed(l) THEN UnzoomAll(l) ELSE l
ResourcesIfShown(l) == IF l.shown THEN FocusResources(l) ELSE l

-----------------------------------------------------------------------------
(* Moving the focus.                                                       *)

\* focus-next-split, and the two directions along the orientation; captured.
FocusStepKey(d) == Rearranged(FocusStep(lay, d))

\* The terminal's prefix followed by a direction.
PrefixFocusStep(d) == TakesKeys(Focused(lay)) /\ RearrangedAndSynced(FocusStep(lay, d))

\* The captured directions across the orientation, and toggle-panel-focus.
EnterPanel == OnList(lay) /\ ~lay.onPanel /\ lay.shown /\ Rearranged(FocusDetails(lay))
LeavePanel ==
    /\ lay.onPanel
    /\ Rearranged(IF lay.panelZoom THEN ToggleZoomDetail(lay) ELSE FocusResources(lay))

\* A click lands in one of the cached rectangles.
Click(r) ==
    /\ r.w > 0 /\ r.h > 0
    /\ Rearranged(IF r.at = 0 THEN FocusDetails(lay) ELSE FocusSplitAt(lay, r.at))

\* Drilling in, and popping back, leaves the panel if there is one.
Drill == TrieReachable /\ OnList(lay) /\ Rearranged(ResourcesIfShown(lay))

-----------------------------------------------------------------------------
(* Order, orientation, zoom and the window.                                *)

MovePane(d) ==
    /\ TrieReachable
    /\ RearrangedAndSynced(IF CanMove(lay, d) THEN MoveFocusedSplit(lay, d) ELSE lay)

ToggleOrientationKey == TrieReachable /\ RearrangedAndSynced(ToggleOrientation(lay))

ZoomPanel == Rearranged(ToggleZoomDetail(lay))
ZoomSplit == RearrangedAndSynced(ToggleZoomSplit(lay))

\* toggle-zoom; captured.
ToggleZoom == IF lay.onPanel THEN ZoomPanel ELSE ZoomSplit

\* clear-overlay once there is nothing left to clear and no drill to pop.
ClearOverlay == TrieReachable /\ ~lay.onPanel /\ lay.splitZoom /\ ZoomSplit

WindowSize(win) == RearrangedAndSynced(Resize(lay, win.w, win.h))

-----------------------------------------------------------------------------
(* The right panel.                                                        *)

CloseRightPanel(l) == HideRightPanel(SetLogMode(l, FALSE))

\* view-yaml, view-describe, the helm values, and view-logs on a pod: with or
\* without the focus.
View(mode, focused) ==
    LET shown == ShowRightPanel(SetLogMode(lay, mode = "logs")) IN
    /\ TrieReachable /\ OnList(lay)
    /\ Rearranged(IF focused THEN FocusDetails(shown) ELSE shown)

\* A namespace switch leaves the log mode and, on a loggable plugin, takes it
\* up again; a context switch only leaves it.
NamespaceSwitch(loggable) ==
    LET off == SetLogMode(lay, FALSE) IN
    /\ TrieReachable /\ OnList(lay)
    /\ Rearranged(IF lay.log /\ loggable THEN SetLogMode(off, TRUE) ELSE off)

ContextSwitch == TrieReachable /\ OnList(lay) /\ Rearranged(SetLogMode(lay, FALSE))

ReloadAll ==
    LET root == FocusResources(Unzoomed(SetLogMode(lay, FALSE))) IN
    /\ TrieReachable
    /\ RearrangedAndSynced(IF lay.shown /\ lay.log THEN SetLogMode(root, TRUE) ELSE root)

-----------------------------------------------------------------------------
(* Opening and closing panes.                                              *)

\* goto-<resource>: the pane stays, the zoom ends.
Goto == TrieReachable /\ Rearranged(Unzoomed(lay))

\* gX: the contexts list on top of what the pane shows.
GotoContexts ==
    TrieReachable /\ OnList(lay) /\ Rearranged(ResourcesIfShown(Unzoomed(lay)))

\* split-<resource>, and the splits opened by a drill.
Split(p) ==
    /\ TrieReachable /\ p \in Lists \ Panes(lay)
    /\ Rearranged(AddSplit(Unzoomed(lay), p))

\* Exec starts its session at once; debug opens a placeholder pane.
OpenTerminal(t, status) ==
    LET l == AddSplit(lay, t)  tm == [term EXCEPT ![t] = status] IN
    /\ TrieReachable /\ OnList(lay) /\ t \notin Panes(lay)
    /\ lay' = l /\ term' = tm /\ remote' = Synced(l, tm)

OpenExec(t) == OpenTerminal(t, "running")
OpenDebug(t) == OpenTerminal(t, "preflight")

DebugReady(t) ==
    /\ term[t] = "preflight"
    /\ term' = [term EXCEPT ![t] = "running"]
    /\ remote' = Synced(lay, term') /\ UNCHANGED lay

\* failTerminalPane: the last pane is frozen, any other is focused and closed.
DebugFailed(t) ==
    LET at == IF Focused(lay) = t THEN lay ELSE FocusSplitAt(lay, IndexOf(lay, t)) IN
    /\ term[t] = "preflight"
    /\ IF CanClose(lay)
       THEN lay' = CloseCurrentSplit(at) /\ term' = [term EXCEPT ![t] = "none"]
       ELSE term' = [term EXCEPT ![t] = "exited"] /\ UNCHANGED lay
    /\ remote' = Synced(lay', term')

ShellExits(t) ==
    /\ term[t] \in {"running", "closed"}
    /\ term' = [term EXCEPT ![t] = IF @ = "running" THEN "exited" ELSE @]
    /\ UNCHANGED <<lay, remote>>

\* closeFocusedSplit: closing a terminal syncs the others, closing a list does not.
CloseFocusedSplit ==
    LET t == Focused(lay) IN
    /\ CanClose(lay)
    /\ lay' = CloseCurrentSplit(lay)
    /\ IF t \in Terminals
       THEN term' = [term EXCEPT ![t] = "none"] /\ remote' = Synced(lay', term')
       ELSE UNCHANGED <<term, remote>>

\* The terminal's prefix followed by x: a lone pane stays without its session.
PrefixClose ==
    LET t == Focused(lay) IN
    /\ TakesKeys(t)
    /\ \/ CloseFocusedSplit
       \/ /\ ~CanClose(lay)
          /\ term' = [term EXCEPT ![t] = "closed"] /\ UNCHANGED <<lay, remote>>

\* close-current-panel.
CloseCurrentPanel ==
    /\ TrieReachable
    /\ IF lay.onPanel /\ lay.shown THEN Rearranged(CloseRightPanel(lay)) ELSE CloseFocusedSplit

\* quit, as long as it only takes one thing away.
Quit ==
    /\ TrieReachable
    /\ CASE lay.panelZoom -> ZoomPanel
         [] ~lay.panelZoom /\ lay.splitZoom -> ZoomSplit
         [] ~AnyZoomed(lay) /\ lay.shown -> Rearranged(CloseRightPanel(lay))
         [] OTHER -> CloseFocusedSplit

Next ==
    \/ \E d \in {-1, 1} : FocusStepKey(d) \/ PrefixFocusStep(d) \/ MovePane(d)
    \/ EnterPanel \/ LeavePanel \/ Drill
    \/ \E r \in lay.rects : Click(r)
    \/ ToggleOrientationKey \/ ToggleZoom \/ ClearOverlay
    \/ \E win \in Windows : WindowSize(win)
    \/ \E mode \in {"yaml", "logs"}, focused \in BOOLEAN : View(mode, focused)
    \/ \E loggable \in BOOLEAN : NamespaceSwitch(loggable)
    \/ ContextSwitch \/ ReloadAll \/ Goto \/ GotoContexts
    \/ \E p \in Lists : Split(p)
    \/ \E t \in Terminals : \/ OpenExec(t) \/ OpenDebug(t)
                            \/ DebugReady(t) \/ DebugFailed(t) \/ ShellExits(t)
    \/ PrefixClose \/ CloseCurrentPanel \/ Quit

Spec == Init /\ [][Next]_vars

-----------------------------------------------------------------------------
(* Properties.                                                             *)

\* Types, and: no pane is in the layout twice, one of them is focused, and the
\* panel can be focused or zoomed only while it is there.
TypeOK ==
    /\ lay.splits \in Seq(Pane) /\ IsInjective(lay.splits)
    /\ lay.focus \in DOMAIN lay.splits
    /\ lay.onPanel => lay.shown
    /\ lay.panelZoom => lay.shown
    /\ term \in [Terminals -> {"none", "preflight", "running", "closed", "exited"}]
    /\ \A t \in Terminals : term[t] # "none" <=> t \in Panes(lay)

\* After every command, however panes were opened, moved and closed, there is
\* at most one cursor: only the focused pane is lit, and it is bright exactly
\* when the panel does not have the focus.
OneCursor ==
    \A p \in Panes(lay) :
        lay.look[p] = CASE p # Focused(lay) -> "blur"
                        [] p = Focused(lay) /\ ~lay.onPanel -> "focus"
                        [] p = Focused(lay) /\ lay.onPanel /\ p \in Lists -> "dim"
                        [] OTHER -> "blur"

\* A pane is drawn without a border exactly while it is the zoomed one.
BorderlessIsZoomed ==
    lay.bare \cap Panes(lay) = IF lay.splitZoom THEN {Focused(lay)} ELSE {}

\* What a click can hit is what is drawn: the cached rectangles are those of the
\* layout, do not overlap and cover the area, and every pane was last given the
\* size of its rectangle, or hidden if it has none.
Covers(r, x, y) == x \in r.x .. (r.x + r.w - 1) /\ y \in r.y .. (r.y + r.h - 1)
RectsTile ==
    /\ lay.rects = PaneRects(lay)
    /\ lay.w > 0 /\ lay.h > 0 =>
         \A x \in 0 .. lay.w - 1, y \in 0 .. lay.h - 1 :
             Cardinality({r \in lay.rects : Covers(r, x, y)}) = 1
    /\ \A i \in DOMAIN lay.splits :
         LET here == {r \in lay.rects : r.at = i}  size == lay.size[lay.splits[i]] IN
         IF here = {} THEN size = Nothing
         ELSE \E r \in here : size = Size(r.w, r.h + (IF lay.splitZoom THEN 1 ELSE 0))
=============================================================================
