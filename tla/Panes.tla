-------------------------------- MODULE Panes --------------------------------
(***************************************************************************)
(* The modules of the screen, together: the layout, the dialogs over it, a *)
(* table, the text of the detail panel and a terminal pane.  The four      *)
(* after the layout share no state with it or with each other, so that a   *)
(* behaviour is one of one of the five parts, chosen at the start; the     *)
(* variables of the other parts are 0 in it.                               *)
(***************************************************************************)
EXTENDS Shell

VARIABLES part

CONSTANTS None  \* no pattern, no action, no object

-----------------------------------------------------------------------------
(* The layout.                                                             *)

\* The state without what no guard and none of the invariants reads: the size
\* last told to a shell, and what the two views of the right panel were told.
WithoutHistory ==
    <<term, lay.splits, lay.focus, lay.onPanel, lay.shown, lay.log, lay.splitZoom,
      lay.panelZoom, lay.horizontal, lay.w, lay.h, lay.look, lay.bare, lay.size, lay.rects>>

-----------------------------------------------------------------------------
(* Overlays.  The dialogs see no more of a pane than what it shows, so     *)
(* that they need fewer panes than the layout.                             *)
CONSTANTS Below,  \* the panes under the dialogs
          Plugin, Local, Cluster, Connected, NoPlugin, Release, Plain, Forms,
          Pickers, MaxAnswers,
          MaxPending  \* bound: questions pending at once, which takes panes
                      \* that change under them

VARIABLES focus, target, overlay, about, pending, answers, histories, done, disturbed

O == INSTANCE Overlays WITH Pane <- Below

\* None stands for the absence of an action.
NoneIsNoAction ==
    \A k \in O!Confirmed : \A p \in Plugin \cup {NoPlugin} : \A c \in Cluster :
        [kind |-> k, plugin |-> p, cluster |-> c] # None

\* The dialogs are named apart.
OverlaysDiffer ==
    /\ {"none", "confirm"} \cap (Plain \cup Forms \cup Pickers) = {}
    /\ Forms \cap (Plain \cup Pickers \cup {"rollback"}) = {}

ASSUME OverlaysAssumption == NoneIsNoAction /\ OverlaysDiffer

Asked == Cardinality({k \in O!Confirmed : pending'[k] # None})

-----------------------------------------------------------------------------
(* A table.                                                                *)
CONSTANTS Object, NameOf, SortColumns, ValueOf, Pattern, Heights,
          Listed  \* the sets of objects a server lists

VARIABLES list, shifted, unpainted

T == INSTANCE Table WITH Column <- SortColumns

\* Names and values are compared, and a server lists finitely many objects.
ASSUME TableAssumption ==
    /\ NameOf \in [Object -> Int] /\ SortColumns # {} /\ ValueOf \in [SortColumns -> [Object -> Int]]
    /\ Heights \subseteq Int
    /\ \A objects \in Listed : objects \subseteq Object /\ IsFiniteSet(objects)

-----------------------------------------------------------------------------
(* A text.                                                                 *)
CONSTANTS Contents, WideChars, Searches, PanelWidths, PanelHeights, Step, ViewStep

VARIABLES raw, coloured, text, error, filter, search, positions, index, softWrap,
          wrapped, width, height, borderless, showHeader, marks, down, right

D == INSTANCE DetailText WITH
    Patterns <- Searches, Off <- None, Widths <- PanelWidths, Heights <- PanelHeights,
    lines <- text, rows <- wrapped, y <- down, x <- right

\* A text has a line, a line is of characters, a pattern has one, and sizes are numbers.
ASSUME TextAssumption ==
    /\ \A c \in Contents : c.text \in Seq(Seq(STRING)) /\ c.text # <<>> /\ c.coloured \in BOOLEAN
    /\ Searches \subseteq Seq(STRING) /\ <<>> \notin Searches
    /\ PanelWidths \subseteq Int /\ PanelHeights \subseteq Int /\ ViewStep \in Nat

-----------------------------------------------------------------------------
(* A terminal pane.                                                        *)
CONSTANTS Frames, Typed, Prefix, Captured, MaxBack, MaxLines

VARIABLES frame, zoomed, pane, emu, written, sent

E == INSTANCE TerminalPane WITH Keys <- Typed, lines <- written

\* The keys of a keyboard: one with a printable character, its text the character it
\* types, with shift maybe another, and with alt often none; the same with ctrl; and a
\* special key.  Each with shift and alt or without.
Character(k) ==
    /\ k.special = "none" /\ ~k.ctrl /\ k.rune \in 32 .. 126
    /\ k.text \in {<<>>} \cup {<<c>> : c \in 32 .. 126}
    /\ ~k.shift \/ k.rune = 32 => k.text \in {<<>>, <<k.rune>>}
ControlKey(k) == k.special = "none" /\ k.ctrl /\ k.rune \in 32 .. 126 /\ k.text = <<>>
Special(k) == k.special \in DOMAIN E!SpecialBytes /\ k.rune = 0 /\ k.text = <<>>

\* A terminal has a size, and those are the keys typed.
ASSUME TerminalAssumption ==
    /\ Frames \subseteq [w : Nat, h : Nat]
    /\ Typed \subseteq [rune : Nat, special : STRING, shift : BOOLEAN, ctrl : BOOLEAN,
                       alt : BOOLEAN, text : Seq(Nat)]
    /\ \A k \in Typed : Character(k) \/ ControlKey(k) \/ Special(k)

-----------------------------------------------------------------------------
(* The choice of a part, and its steps.                                    *)

overlaysVars == <<focus, target, overlay, about, pending, answers, histories, done, disturbed>>
tableVars == <<list, shifted, unpainted>>
textVars == <<raw, coloured, text, error, filter, search, positions, index, softWrap,
              wrapped, width, height, borderless, showHeader, marks, down, right>>
terminalVars == <<frame, zoomed, pane, emu, written, sent>>
panesVars == <<part, vars, overlaysVars, tableVars, textVars, terminalVars>>

NoShell == lay = 0 /\ term = 0 /\ remote = 0
NoOverlays ==
    /\ focus = 0 /\ target = 0 /\ overlay = 0 /\ about = 0 /\ pending = 0
    /\ answers = 0 /\ histories = 0 /\ done = 0 /\ disturbed = 0
NoTable == list = 0 /\ shifted = 0 /\ unpainted = 0
NoDetail ==
    /\ raw = 0 /\ coloured = 0 /\ text = 0 /\ error = 0 /\ filter = 0 /\ search = 0
    /\ positions = 0 /\ index = 0 /\ softWrap = 0 /\ wrapped = 0 /\ width = 0
    /\ height = 0 /\ borderless = 0 /\ showHeader = 0 /\ marks = 0 /\ down = 0 /\ right = 0
NoTerminal == frame = 0 /\ zoomed = 0 /\ pane = 0 /\ emu = 0 /\ written = 0 /\ sent = 0

PanesInit ==
    \/ part = "shell" /\ Init /\ NoOverlays /\ NoTable /\ NoDetail /\ NoTerminal
    \/ part = "overlays" /\ O!Init /\ NoShell /\ NoTable /\ NoDetail /\ NoTerminal
    \/ part = "table" /\ T!Init /\ NoShell /\ NoOverlays /\ NoDetail /\ NoTerminal
    \/ part = "text" /\ D!Init /\ NoShell /\ NoOverlays /\ NoTable /\ NoTerminal
    \/ part = "terminal" /\ E!Init /\ NoShell /\ NoOverlays /\ NoTable /\ NoDetail

ShellStep(A) ==
    part = "shell" /\ A /\ UNCHANGED <<part, overlaysVars, tableVars, textVars, terminalVars>>
OverlaysStep(A) ==
    part = "overlays" /\ A /\ UNCHANGED <<part, vars, tableVars, textVars, terminalVars>>
TableStep(A) ==
    part = "table" /\ A /\ UNCHANGED <<part, vars, overlaysVars, textVars, terminalVars>>
DetailTextStep(A) ==
    part = "text" /\ A /\ UNCHANGED <<part, vars, overlaysVars, tableVars, terminalVars>>
TerminalPaneStep(A) ==
    part = "terminal" /\ A /\ UNCHANGED <<part, vars, overlaysVars, tableVars, textVars>>

PanesNext ==
    \/ ShellStep(\E d \in {-1, 1} : FocusStepKey(d))
    \/ ShellStep(\E d \in {-1, 1} : PrefixFocusStep(d))
    \/ ShellStep(\E d \in {-1, 1} : MovePane(d))
    \/ ShellStep(EnterPanel)
    \/ ShellStep(LeavePanel)
    \/ ShellStep(Drill)
    \/ ShellStep(\E r \in lay.rects : Click(r))
    \/ ShellStep(ToggleOrientationKey)
    \/ ShellStep(ToggleZoom)
    \/ ShellStep(ClearOverlay)
    \/ ShellStep(\E win \in Windows : WindowSize(win))
    \/ ShellStep(\E mode \in {"yaml", "logs"}, focused \in BOOLEAN : View(mode, focused))
    \/ ShellStep(\E loggable \in BOOLEAN : NamespaceSwitch(loggable))
    \/ ShellStep(ContextSwitch)
    \/ ShellStep(ReloadAll)
    \/ ShellStep(Goto)
    \/ ShellStep(GotoContexts)
    \/ ShellStep(\E p \in Lists : Split(p))
    \/ ShellStep(\E t \in Terminals : OpenExec(t))
    \/ ShellStep(\E t \in Terminals : OpenDebug(t))
    \/ ShellStep(\E t \in Terminals : DebugReady(t))
    \/ ShellStep(\E t \in Terminals : DebugFailed(t))
    \/ ShellStep(\E t \in Terminals : ShellExits(t))
    \/ ShellStep(PrefixClose)
    \/ ShellStep(CloseCurrentPanel)
    \/ ShellStep(Quit)
    \/ OverlaysStep(\E o \in Plain \cup Pickers : O!OpenOther(o))
    \/ OverlaysStep(\E k \in O!Confirmed : O!Ask(k) /\ Asked <= MaxPending)
    \/ OverlaysStep(\E o \in Forms : O!OpenForm(o))
    \/ OverlaysStep(\E r \in Release : O!OpenRollback(r))
    \/ OverlaysStep(\E r \in Release : O!HistoryLoaded(r))
    \/ OverlaysStep(O!CtrlW)
    \/ OverlaysStep(O!Dismiss)
    \/ OverlaysStep(O!Submit)
    \/ OverlaysStep(O!SubmitRollback)
    \/ OverlaysStep(\E yes \in BOOLEAN : O!Answer(yes))
    \/ OverlaysStep(\E m \in answers : O!ConfirmResult(m))
    \/ OverlaysStep(\E m \in answers : O!Requested(m))
    \/ OverlaysStep(\E m \in answers : O!Picked(m))
    \/ OverlaysStep(\E p \in Below : O!MoveFocus(p))
    \/ OverlaysStep(\E p \in Below : O!DebugFailed(p))
    \/ OverlaysStep(\E t \in O!Target : O!Retarget(t))
    \/ OverlaysStep(O!ReloadAll)
    \/ TableStep(T!MoveKeys)
    \/ TableStep(T!Focus)
    \/ TableStep(T!SearchStep)
    \/ TableStep(T!Mark)
    \/ TableStep(T!MarkAll)
    \/ TableStep(T!Clear)
    \/ TableStep(T!Reload)
    \/ TableStep(\E line \in 0 .. 1 + T!Max(Heights) : T!Click(line))
    \/ TableStep(\E objects \in Listed : T!Refresh(objects))
    \/ TableStep(\E objects \in Listed : T!Goto(objects))
    \/ TableStep(\E c \in SortColumns : T!Sort(c))
    \/ TableStep(\E p \in Pattern \cup {None} : T!Search(p))
    \/ TableStep(\E p \in Pattern \cup {None} : T!Filter(p))
    \/ TableStep(\E h \in Heights : T!Resize(h))
    \/ TableStep(\E h \in Heights : T!ResizeUnfocused(h))
    \/ DetailTextStep(D!SetMode)
    \/ DetailTextStep(D!SetLoadError)
    \/ DetailTextStep(\E c \in Contents, refresh \in BOOLEAN : D!SetContent(c, refresh))
    \/ DetailTextStep(D!ClearContent)
    \/ DetailTextStep(\E p \in Searches : D!ApplySearch(p))
    \/ DetailTextStep(\E p \in Searches : D!ApplyFilter(p))
    \/ DetailTextStep(D!ClearSearch)
    \/ DetailTextStep(D!ClearFilter)
    \/ DetailTextStep(\E by \in {-1, 1} : D!SearchStep(by))
    \/ DetailTextStep(\E by \in {-D!ViewHeight, -1, 1, D!ViewHeight} : D!ScrollTo(down + by))
    \/ DetailTextStep(D!ScrollTo(0))
    \/ DetailTextStep(D!ScrollTo(D!LineCount))
    \/ DetailTextStep(\E by \in {-Step, Step, -right} : D!ScrollX(right + by))
    \/ DetailTextStep(D!ScrollEnd)
    \/ DetailTextStep(D!ToggleWrap)
    \/ DetailTextStep(\E w \in PanelWidths, h \in PanelHeights, b \in BOOLEAN : D!SetSize(w, h, b))
    \/ DetailTextStep(D!ToggleHeader)
    \/ TerminalPaneStep(E!PressPrefix)
    \/ TerminalPaneStep(\E k \in Typed : E!Type(k))
    \/ TerminalPaneStep(\E k \in Typed : E!Command(k))
    \/ TerminalPaneStep(\E up \in BOOLEAN : E!Wheel(up))
    \/ TerminalPaneStep(\E up \in BOOLEAN : E!Page(up))
    \/ TerminalPaneStep(E!MoveFocus)
    \/ TerminalPaneStep(E!Zoom)
    \/ TerminalPaneStep(\E f \in Frames : E!WindowSize(f))
    \/ TerminalPaneStep(E!WriteLine)
    \/ TerminalPaneStep(E!ClearHistory)
    \/ TerminalPaneStep(E!MoveCursor)
    \/ TerminalPaneStep(E!Exit)

PanesSpec == PanesInit /\ [][PanesNext]_panesVars

-----------------------------------------------------------------------------
(* The properties, each of its part.                                       *)

\* What is lit, bordered and hit by a click is what the layout says.
ShellIsDrawn == part = "shell" => OneCursor /\ BorderlessIsZoomed /\ RectsTile

\* What waits for a yes has the dialog that asks for it.
PendingIsAsked == part = "overlays" => O!PendingIsAsked

\* A yes does what was asked, to what it was asked about, unless panes or keys came
\* between the answer and its handling.
AnswerIsOfItsQuestion == [][part = "overlays" => O!AnswerStep]_panesVars

\* The cursor is on the screen, and the matches there are painted.
TableIsDrawn == part = "table" => T!CursorIsOnScreen /\ T!MatchesArePainted

\* A refresh or another order leaves the selected object selected.
SelectionFollows == [][part = "table" => T!SelectionStep]_panesVars

\* The characters painted are those of the matches, and n and N show them.
TextMatchesAreShown ==
    /\ [](part = "text" => D!MatchesAreExact)
    /\ [][part = "text" => D!GoToStep]_panesVars

\* The pane shows the lines its title says and the cursor on its cell, the
\* prefix ends with the focus; and two keys look alike to the shell only if they have
\* the same name (tab, up), control code or character, both with alt or both without:
\* the shift and ctrl of a key with a name are not told.
TerminalIsTrue ==
    /\ [](part = "terminal" => E!ScreenIsTrue /\ E!PrefixEndsWithFocus)
    /\ [][part = "terminal" => E!KeyStep]_panesVars
=============================================================================
