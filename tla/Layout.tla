------------------------------- MODULE Layout -------------------------------
(***************************************************************************)
(* The layout of the screen (internal/layout): an ordered sequence of      *)
(* panes (the "splits"), and beside it a right panel that shows either the *)
(* detail view or the log view.  Every method of layout.Layout that        *)
(* changes it is an operator from one layout to the next; Shell.tla calls  *)
(* them as the program's commands do.                                      *)
(*                                                                         *)
(* A layout is a record:                                                   *)
(*   splits, focus     the panes in order, and the index of the focused one*)
(*   onPanel           focusTarget = FocusTargetDetails                    *)
(*   shown, log        rightVisible, logMode                               *)
(*   splitZoom, panelZoom, horizontal    the zoom flags and orientation    *)
(*   w, h              the area of the panes (the status bar is below it)  *)
(*   look              per pane: bright border and cursor ("focus"), dim   *)
(*                     border and cursor ("dim"), neither ("blur")         *)
(*   bare, size        the panes told to be borderless; the size each was  *)
(*                     given last                                          *)
(*   panelFocus, panelBare, panelSize    the same of the two views         *)
(*   rects             the cached paneRects                                *)
(***************************************************************************)
EXTENDS Integers, Sequences, SequencesExt

CONSTANTS
    Lists,     \* panes that are resource lists
    Terminals  \* panes that are embedded terminals

ASSUME PaneAssumption == Lists \cap Terminals = {}

Pane == Lists \cup Terminals
Panel == {"detail", "log"}

Focused(l) == l.splits[l.focus]
Panes(l) == ToSet(l.splits)
OnList(l) == Focused(l) \in Lists
ActivePanel(l) == IF l.log THEN "log" ELSE "detail"
AnyZoomed(l) == l.splitZoom \/ l.panelZoom
EffectiveZoom(l) ==
    CASE l.panelZoom /\ l.shown -> "panel"
      [] l.splitZoom /\ ~(l.panelZoom /\ l.shown) -> "split"
      [] OTHER -> "none"

-----------------------------------------------------------------------------
(* Geometry.                                                               *)

Size(w, h) == [w |-> w, h |-> h]
Nothing == Size(0, 0)

\* The sizes of the splits' part and of the panel's part along the axis they
\* share the screen on.
PanelSizes(l) ==
    LET whole == IF l.horizontal THEN l.h ELSE l.w
        first == IF l.shown THEN whole \div 2 ELSE whole
    IN  <<first, whole - first>>

\* Where the i-th of n strips of a length begins, and how long it is: the last
\* one takes what the division leaves.
StripAt(i, n, total) == (total \div n) * (i - 1)
StripLen(i, n, total) ==
    IF i = n THEN total - (total \div n) * (n - 1) ELSE total \div n

SplitRect(l, i) ==
    LET n == Len(l.splits)  p == PanelSizes(l)[1] IN
    IF l.horizontal
    THEN [x |-> StripAt(i, n, l.w), y |-> 0, w |-> StripLen(i, n, l.w), h |-> p, at |-> i]
    ELSE [x |-> 0, y |-> StripAt(i, n, l.h), w |-> p, h |-> StripLen(i, n, l.h), at |-> i]

PanelRect(l) ==
    LET p == PanelSizes(l) IN
    IF l.horizontal
    THEN [x |-> 0, y |-> p[1], w |-> l.w, h |-> p[2], at |-> 0]
    ELSE [x |-> p[1], y |-> 0, w |-> p[2], h |-> l.h, at |-> 0]

WholeRect(l, at) == [x |-> 0, y |-> 0, w |-> l.w, h |-> l.h, at |-> at]

\* A rectangle is at split "at", or at the right panel (at = 0); the kind of
\* panel it is cached with is left out: it follows logMode.
PaneRects(l) ==
    IF l.w <= 0 \/ l.h <= 0 THEN {}
    ELSE CASE EffectiveZoom(l) = "panel" -> {WholeRect(l, 0)}
           [] EffectiveZoom(l) = "split" -> {WholeRect(l, l.focus)}
           [] OTHER -> {SplitRect(l, i) : i \in DOMAIN l.splits}
                         \cup (IF l.shown THEN {PanelRect(l)} ELSE {})

RebuildPaneRects(l) == [l EXCEPT !.rects = PaneRects(l)]

\* The sizes recalcSizes gives out: the panes', and the active panel's.
PaneSize(l, i) ==
    CASE EffectiveZoom(l) = "panel" -> Nothing
      [] EffectiveZoom(l) = "split" ->
           IF i = l.focus THEN Size(l.w, l.h + 1) ELSE Nothing
      [] OTHER -> Size(SplitRect(l, i).w, SplitRect(l, i).h)

SizedPanel(l) ==
    CASE EffectiveZoom(l) = "panel" -> [l.panelSize EXCEPT ![ActivePanel(l)] = Size(l.w, l.h + 1)]
      [] EffectiveZoom(l) = "none" /\ l.shown ->
           [l.panelSize EXCEPT ![ActivePanel(l)] = Size(PanelRect(l).w, PanelRect(l).h)]
      [] OTHER -> l.panelSize

IndexOf(l, p) == CHOOSE i \in DOMAIN l.splits : l.splits[i] = p

RecalcSizes(l) ==
    RebuildPaneRects(
        [l EXCEPT !.size = [p \in Pane |-> IF p \in Panes(l) THEN PaneSize(l, IndexOf(l, p))
                                           ELSE l.size[p]],
                  !.panelSize = SizedPanel(l)])

\* The content area a terminal has inside its pane; never less than 1 by 1.
AtLeastOne(n) == IF n < 1 THEN 1 ELSE n
InnerSize(l, t) ==
    IF t \in l.bare
    THEN Size(AtLeastOne(l.size[t].w), AtLeastOne(l.size[t].h - 1))
    ELSE Size(AtLeastOne(l.size[t].w - 2), AtLeastOne(l.size[t].h - 2))
IsHidden(l, t) == l.size[t].w <= 0 \/ l.size[t].h <= 0

-----------------------------------------------------------------------------
(* Focus.                                                                  *)

\* The one place that lights and dims panes and the panel.
ReconcileFocus(l) ==
    LET toPanel == l.onPanel /\ l.shown
        lit == CASE ~toPanel -> "focus"
                 [] toPanel /\ OnList(l) -> "dim"
                 [] OTHER -> "blur"
    IN  [l EXCEPT !.look = [p \in Pane |-> CASE p = Focused(l) -> lit
                                             [] p # Focused(l) /\ p \in Panes(l) -> "blur"
                                             [] OTHER -> l.look[p]],
                  !.panelFocus = IF toPanel THEN @ \cup {ActivePanel(l)}
                                 ELSE @ \ {ActivePanel(l)}]

\* The borderless flag moves with the focus while a split is zoomed.
MoveBorderlessFlag(l, from) ==
    IF l.splitZoom
    THEN RecalcSizes([l EXCEPT !.bare = (@ \ {from}) \cup {Focused(l)}])
    ELSE l

\* Mutant: the looks are not reconciled.
FocusSplitAtUnlit(l, i) ==
    MoveBorderlessFlag([l EXCEPT !.focus = i, !.onPanel = FALSE], Focused(l))

FocusSplitAt(l, i) ==
    MoveBorderlessFlag(ReconcileFocus([l EXCEPT !.focus = i, !.onPanel = FALSE]), Focused(l))

Wrapped(l, i) == IF i > Len(l.splits) THEN 1 ELSE IF i < 1 THEN Len(l.splits) ELSE i

\* FocusNext and FocusPrev: a lone split keeps its flag and sizes as they are.
FocusStep(l, d) ==
    LET i == Wrapped(l, l.focus + d) IN
    IF i = l.focus THEN ReconcileFocus([l EXCEPT !.onPanel = FALSE]) ELSE FocusSplitAt(l, i)

FocusDetails(l) == IF l.shown THEN ReconcileFocus([l EXCEPT !.onPanel = TRUE]) ELSE l
FocusResources(l) == ReconcileFocus([l EXCEPT !.onPanel = FALSE])

-----------------------------------------------------------------------------
(* The sequence of panes.                                                  *)

\* AddSplit and AddTerminalSplit: a new pane, right of the focused one.
AddSplit(l, p) ==
    LET fresh == [l EXCEPT !.splits = InsertAt(@, l.focus + 1, p), !.focus = @ + 1,
                           !.onPanel = FALSE,
                           !.look[p] = "blur",
                           !.bare = IF l.splitZoom THEN @ \ {Focused(l), p} ELSE @ \ {p}]
        lit == ReconcileFocus(fresh)
    IN  RecalcSizes([lit EXCEPT !.bare = IF l.splitZoom THEN @ \cup {p} ELSE @])

CanClose(l) == Len(l.splits) > 1

FocusLeft(i, n) == IF i > n THEN n ELSE i

CloseCurrentSplit(l) ==
    LET left == RemoveAt(l.splits, l.focus)
        cut == [l EXCEPT !.splits = left,
                         !.focus = FocusLeft(@, Len(left)),
                         !.onPanel = FALSE, !.bare = @ \ {Focused(l)},
                         !.look[Focused(l)] = "blur", !.size[Focused(l)] = Nothing]
        lit == ReconcileFocus(cut)
    IN  RecalcSizes([lit EXCEPT !.bare = IF l.splitZoom THEN @ \cup {Focused(lit)} ELSE @])

CanMove(l, d) == l.focus + d \in DOMAIN l.splits

MoveFocusedSplit(l, d) ==
    RecalcSizes(ReconcileFocus(
        [l EXCEPT !.splits = [@ EXCEPT ![l.focus] = l.splits[l.focus + d],
                                       ![l.focus + d] = Focused(l)],
                  !.focus = @ + d, !.onPanel = FALSE]))

-----------------------------------------------------------------------------
(* The panel, zoom, orientation and the window.                            *)

ShowRightPanel(l) == RecalcSizes([l EXCEPT !.shown = TRUE])

UnbarePanel(l) == IF l.panelZoom THEN l.panelBare \ {ActivePanel(l)} ELSE l.panelBare

HideRightPanel(l) ==
    RecalcSizes(ReconcileFocus(
        [l EXCEPT !.panelBare = UnbarePanel(l), !.panelZoom = FALSE,
                  !.shown = FALSE, !.onPanel = FALSE]))

SetLogMode(l, on) == RebuildPaneRects([l EXCEPT !.log = on])

ToggleZoomSplit(l) ==
    RecalcSizes([l EXCEPT !.splitZoom = ~@,
                          !.bare = IF l.splitZoom THEN @ \ {Focused(l)} ELSE @ \cup {Focused(l)}])

ToggleZoomDetail(l) ==
    CASE l.panelZoom ->
           RecalcSizes([l EXCEPT !.panelZoom = FALSE, !.panelBare = @ \ {ActivePanel(l)}])
      [] ~l.panelZoom /\ l.shown ->
           RecalcSizes([l EXCEPT !.panelZoom = TRUE, !.panelBare = @ \cup {ActivePanel(l)}])
      [] OTHER -> l

UnzoomAll(l) ==
    RecalcSizes([l EXCEPT !.panelBare = UnbarePanel(l),
                          !.bare = IF l.splitZoom THEN @ \ {Focused(l)} ELSE @,
                          !.splitZoom = FALSE, !.panelZoom = FALSE])

ToggleOrientation(l) == RecalcSizes([l EXCEPT !.horizontal = ~@])
Resize(l, w, h) == RecalcSizes([l EXCEPT !.w = w, !.h = h - 1])

-----------------------------------------------------------------------------
\* New, with the first list in it; the two views have the height of the area.
NewLayout(p, w, h) ==
    RecalcSizes(ReconcileFocus(
        [splits |-> <<p>>, focus |-> 1, onPanel |-> FALSE, shown |-> FALSE, log |-> FALSE,
         splitZoom |-> FALSE, panelZoom |-> FALSE, horizontal |-> FALSE, w |-> w, h |-> h - 1,
         look |-> [q \in Pane |-> "blur"], bare |-> {}, size |-> [q \in Pane |-> Nothing],
         panelFocus |-> {}, panelBare |-> {}, panelSize |-> [v \in Panel |-> Size(0, h - 1)],
         rects |-> {}]))
=============================================================================
