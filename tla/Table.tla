------------------------------- MODULE Table --------------------------------
(***************************************************************************)
(* The list of a pane (internal/ui: ResourceList over internal/table): its *)
(* rows, sorted and filtered, its cursor and marks, its search, and the    *)
(* part of the rows that is on the screen.  The table renders a window of  *)
(* rows around the cursor, [Start, End), and a viewport shows height lines *)
(* of it, from yOff on; both move with the cursor.  Matches of a search    *)
(* are painted into the rows of the window only.                           *)
(*                                                                         *)
(* A list is a record; every method of ResourceList that changes it is an  *)
(* operator from one list to the next.  Rows are counted from 0, as in the *)
(* code.  A pattern is the set of names it matches.                        *)
(***************************************************************************)
EXTENDS Integers, Sequences, FiniteSets, SequencesExt, FiniteSetsExt

CONSTANTS
    Object,    \* incarnations of objects: each has a UID of its own
    NameOf,    \* their names; one list has one object of a name
    Column,    \* columns a list is sorted by
    ValueOf,   \* what an object has in each column
    Pattern,   \* the patterns of searches and filters
    Heights,   \* heights of the viewport; a hidden pane has a negative one
    None

VARIABLES
    list,      \* the ResourceList
    shifted,   \* history: rows came, went or moved and the view did not follow
    unpainted  \* history: the window or the marks changed and nothing was painted

vars == <<list, shifted, unpainted>>

AtMost(n, high) == IF n > high THEN high ELSE n
AtLeast(n, low) == IF n < low THEN low ELSE n
Clamp(n, low, high) == AtMost(AtLeast(n, low), high)

Rows(l) == 0 .. Len(l.display) - 1
At(l, i) == l.display[i + 1]
LastRow(l) == AtLeast(Len(l.display) - 1, 0)

-----------------------------------------------------------------------------
(* The table.                                                              *)

Start(l) == Clamp(l.cursor - l.height, 0, l.cursor)
End(l) == Clamp(l.cursor + l.height, l.cursor, Len(l.display))

\* The viewport does not scroll past its last line.
MaxOffset(l) == AtLeast((End(l) - Start(l)) - l.height, 0)
UpdateViewport(l) == [l EXCEPT !.yOff = AtMost(@, MaxOffset(l))]
SetYOffset(l, n) == [l EXCEPT !.yOff = Clamp(n, 0, MaxOffset(l))]

Top(l) == Start(l) + l.yOff
OnScreen(l) == {i \in Top(l) .. Top(l) + l.height - 1 : i \in Start(l) .. End(l) - 1}

SetCursor(l, n) == UpdateViewport([l EXCEPT !.cursor = Clamp(n, 0, LastRow(l))])

\* The cursor in the middle, if it is not on the screen.
EnsureCursorVisible(l) ==
    LET u == UpdateViewport(l)  line == u.cursor - Start(u) IN
    IF line >= u.yOff /\ line < u.yOff + u.height THEN u
    ELSE SetYOffset(u, AtLeast(line - u.height \div 2, 0))

\* Mutant: one line too many counts as visible.
ScrollToCursorLate(l, top) ==
    LET to == CASE l.cursor < top -> l.cursor
                [] l.cursor > top + l.height -> l.cursor - l.height + 1
                [] OTHER -> top
    IN  IF l.height <= 0 THEN UpdateViewport(l)
        ELSE SetYOffset(UpdateViewport(l), AtLeast(to - Start(l), 0))

\* The least scrolling that shows the cursor, from the row that was at the top.
ScrollToCursor(l, top) ==
    LET to == CASE l.cursor < top -> l.cursor
                [] l.cursor > top + l.height - 1 -> l.cursor - l.height + 1
                [] OTHER -> top
    IN  IF l.height <= 0 THEN UpdateViewport(l)
        ELSE SetYOffset(UpdateViewport(l), AtLeast(to - Start(l), 0))

\* MoveUp and MoveDown
Move(l, n) == ScrollToCursor([l EXCEPT !.cursor = Clamp(@ + n, 0, LastRow(l))], Top(l))

\* The row a click on a line of the table hits; the header is line 0.
RowAtY(l, y) ==
    LET i == Start(l) + l.yOff + y - 1 IN
    IF y - 1 < 0 \/ y - 1 >= l.height \/ i \notin Rows(l) THEN -1 ELSE i

-----------------------------------------------------------------------------
(* Rows, and what is painted into them.                                    *)

\* sortObjects: by the column, up or down, and then by name.
Sorted(objects, sort) ==
    LET v(o) == ValueOf[sort.column][o]
        Before(a, b) == \/ IF sort.up THEN v(a) < v(b) ELSE v(b) < v(a)
                        \/ v(a) = v(b) /\ NameOf[a] < NameOf[b]
    IN  CHOOSE s \in [1 .. Cardinality(objects) -> objects] :
            \A i, j \in DOMAIN s : i < j => Before(s[i], s[j])

\* The rows whose name a pattern matches, in their order.
Kept(s, p) ==
    LET kept[n \in 0 .. Len(s)] ==
            IF n = 0 THEN <<>>
            ELSE IF NameOf[s[n]] \in p THEN Append(kept[n - 1], s[n]) ELSE kept[n - 1]
    IN  kept[Len(s)]

Matching(l, i) == l.search # None /\ NameOf[At(l, i)] \in l.search
MarkedRows(l) == {i \in Rows(l) : At(l, i) \in l.marks}

\* applyVisibleHighlights: the window, after the view was brought to the cursor.
ApplyHighlights(l) ==
    IF l.search = None THEN l
    ELSE LET u == EnsureCursorVisible(l)
             in == Start(u) .. End(u) - 1
             hits == {i \in in : Matching(u, i)}
             inverse == hits \cap ({u.cursor} \cup MarkedRows(u))
         IN  [u EXCEPT !.inverse = (@ \ in) \cup inverse,
                       !.colored = (@ \ in) \cup (hits \ inverse)]

\* SetColumnsAndRows
SetRows(l, rows) ==
    LET u == [l EXCEPT !.display = rows, !.inverse = {}, !.colored = {}] IN
    UpdateViewport([u EXCEPT !.cursor = AtMost(@, LastRow(u))])

\* rebuildDisplay and renderRows
RebuildDisplay(l) ==
    ApplyHighlights(SetRows(l, IF l.filter = None THEN l.all ELSE Kept(l.all, l.filter)))

Selected(l) == IF l.cursor \in Rows(l) THEN At(l, l.cursor) ELSE None

\* Mutant: the cursor stays on its row.
SetObjectsInPlace(l, objects) ==
    LET u == RebuildDisplay([l EXCEPT !.all = Sorted(objects, l.sort), !.marks = @ \cap objects])
    IN  IF u.display = <<>> THEN u ELSE ApplyHighlights(SetCursor(u, AtMost(u.cursor, LastRow(u))))

\* SetObjects: marks of objects that are gone go, and the cursor looks for its
\* object by name.
SetObjects(l, objects) ==
    LET u == RebuildDisplay([l EXCEPT !.all = Sorted(objects, l.sort), !.marks = @ \cap objects])
        same == {i \in Rows(u) : Selected(l) # None /\ NameOf[At(u, i)] = NameOf[Selected(l)]}
    IN  IF same # {} THEN ApplyHighlights(SetCursor(u, Min(same)))
        ELSE IF u.display # <<>> THEN ApplyHighlights(SetCursor(u, AtMost(u.cursor, LastRow(u))))
        ELSE u

Objects(l) == ToSet(l.all)

\* SortState.Toggle, and SetSort
Toggled(sort, c) == [column |-> c, up |-> IF sort.column = c THEN ~sort.up ELSE TRUE]
SetSort(l, c) == SetObjects([l EXCEPT !.sort = Toggled(@, c)], Objects(l))

-----------------------------------------------------------------------------
(* Search and filter.                                                      *)

Hits(l) == {i \in Rows(l) : Matching(l, i)}

ApplyFilter(l, p) == RebuildDisplay([l EXCEPT !.filter = p])

\* The cursor goes to the first match.
ApplySearch(l, p) ==
    LET u == [l EXCEPT !.search = p] IN
    RebuildDisplay(IF Hits(u) = {} THEN u ELSE SetCursor(u, Min(Hits(u))))

\* SearchNext and SearchPrev, round the ends.
NextHit(l) ==
    LET after == {i \in Hits(l) : i > l.cursor} IN IF after = {} THEN Min(Hits(l)) ELSE Min(after)
PrevHit(l) ==
    LET before == {i \in Hits(l) : i < l.cursor} IN IF before = {} THEN Max(Hits(l)) ELSE Max(before)
SearchTo(l, i) == ApplyHighlights(SetCursor(l, i))

-----------------------------------------------------------------------------
(* Marks, sizes, other resources.                                          *)

ToggleSelect(l) ==
    LET o == Selected(l) IN
    IF o = None THEN l
    ELSE UpdateViewport([l EXCEPT !.marks = IF o \in @ THEN @ \ {o} ELSE @ \cup {o}])

SelectAll(l) ==
    IF l.display = <<>> THEN l
    ELSE UpdateViewport([l EXCEPT !.marks = IF ToSet(l.display) \subseteq @ THEN {} ELSE ToSet(l.display)])

ClearSelection(l) == IF l.marks = {} THEN l ELSE UpdateViewport([l EXCEPT !.marks = {}])

SetSize(l, h) == UpdateViewport([l EXCEPT !.height = h])

DefaultSort == [column |-> CHOOSE c \in Column : TRUE, up |-> TRUE]

\* SetPlugin, of a pane that goes to another resource.
SetPlugin(l) ==
    SetRows([l EXCEPT !.sort = DefaultSort, !.filter = None, !.search = None, !.marks = {}, !.all = <<>>], <<>>)

\* ResetForReload: without rows, filter and search, but in the same order.
ResetForReload(l) ==
    SetRows([l EXCEPT !.filter = None, !.search = None, !.marks = {}, !.all = <<>>], <<>>)

-----------------------------------------------------------------------------
Init ==
    /\ shifted = FALSE /\ unpainted = FALSE
    /\ \E h \in Heights :
         list = [all |-> <<>>, display |-> <<>>, cursor |-> 0, yOff |-> 0,
                 height |-> h, marks |-> {}, search |-> None, filter |-> None,
                 sort |-> DefaultSort, colored |-> {}, inverse |-> {}]

\* Sets of objects an API server can have: one of each name.
Listable(objects) == \A a, b \in objects : NameOf[a] = NameOf[b] => a = b

\* The view follows, and so does the paint.
Follows == shifted' = FALSE /\ unpainted' = FALSE
\* The rows are painted anew; the view follows only where a search paints it.
Repaints == shifted' = (list'.search = None) /\ unpainted' = FALSE

\* cursor-up and -down, the wheel, page-up and -down, cursor-top and -bottom.
MoveKey(n) == list' = ApplyHighlights(Move(list, n)) /\ Follows
MoveKeys == \E n \in {1, -1, list.height, -list.height, Len(list.display), -list.cursor} : MoveKey(n)

\* A click focuses the pane, which brings the view to the cursor, and then hits.
Focus == list' = EnsureCursorVisible(list) /\ shifted' = FALSE /\ UNCHANGED unpainted
Clicked(l, y) ==
    LET u == EnsureCursorVisible(l) IN
    IF RowAtY(u, y) < 0 THEN u ELSE ApplyHighlights(SetCursor(u, RowAtY(u, y)))
Click(y) ==
    /\ list' = Clicked(list, y)
    /\ shifted' = (shifted /\ list.height <= 0) /\ unpainted' = (unpainted /\ list'.cursor = list.cursor)
   

Refresh(objects) ==
    /\ Listable(objects) /\ list' = SetObjects(list, objects) /\ Repaints
Sort(c) == list' = SetSort(list, c) /\ Repaints

Search(p) == list' = ApplySearch(list, p) /\ Repaints
Filter(p) == list' = ApplyFilter(list, p) /\ Repaints
SearchStep ==
    /\ Hits(list) # {} /\ Follows
    /\ \/ list' = SearchTo(list, NextHit(list))
       \/ list' = SearchTo(list, PrevHit(list))

\* toggle-select marks and moves down.
Mark == list' = ApplyHighlights(Move(ToggleSelect(list), 1)) /\ Follows
MarkAll == list' = SelectAll(list) /\ unpainted' = TRUE /\ UNCHANGED shifted

\* clear-overlay: marks first, then the search, then the filter.
Clear ==
    \/ /\ list.marks # {} /\ list' = ClearSelection(list)
       /\ unpainted' = TRUE /\ UNCHANGED shifted
    \/ /\ list.marks = {} /\ list.search # None /\ Search(None)
    \/ /\ list.marks = {} /\ list.search = None /\ list.filter # None /\ Filter(None)

Resize(h) ==
    /\ list' = EnsureCursorVisible(SetSize(list, h))
    /\ shifted' = FALSE /\ unpainted' = TRUE

\* A pane without the focus, or with another one zoomed, keeps its view.
ResizeUnfocused(h) == list' = SetSize(list, h) /\ shifted' = TRUE /\ unpainted' = TRUE

Goto(objects) ==
    Listable(objects) /\ list' = SetObjects(SetPlugin(list), objects) /\ Repaints
\* Its informers start anew, so that nothing is listed yet.
Reload == list' = SetObjects(ResetForReload(list), {}) /\ Repaints

Next ==
    \/ MoveKeys \/ Focus \/ SearchStep \/ Mark \/ MarkAll \/ Clear \/ Reload
    \/ \E y \in 0 .. 1 + Max(Heights) : Click(y)
    \/ \E objects \in SUBSET Object : Refresh(objects) \/ Goto(objects)
    \/ \E c \in Column : Sort(c)
    \/ \E p \in Pattern \cup {None} : Search(p) \/ Filter(p)
    \/ \E h \in Heights : Resize(h) \/ ResizeUnfocused(h)

Spec == Init /\ [][Next]_vars

-----------------------------------------------------------------------------
(* Properties.                                                             *)

\* However far a key moves it and whatever the window around it, the cursor is
\* on the screen, except where rows changed under it and no key came since.
CursorIsOnScreen ==
    list.height > 0 /\ list.display # <<>> /\ ~shifted => list.cursor \in OnScreen(list)

\* A refresh or another order never changes which object is selected, as long as
\* it is listed: delete, exec and drill act on it.
SelectionStep ==
    \A o \in {Selected(list)} \ {None} :
        /\ \E i \in Rows(list') : NameOf[At(list', i)] = NameOf[o]
        /\ NameOf[Selected(list')] # NameOf[o]
        => ~ (Refresh(Objects(list')) \/ Sort(list'.sort.column))
SelectionFollows == [][SelectionStep]_vars

\* Every match on the screen is painted, the one at the cursor and those that
\* are marked in inverse, and nothing else is.  Not so after the window or the
\* marks changed, until the next key.
MatchesArePainted ==
    ~unpainted =>
        \A i \in OnScreen(list) :
            /\ i \in list.inverse <=> Matching(list, i) /\ i \in {list.cursor} \cup MarkedRows(list)
            /\ i \in list.colored <=> Matching(list, i) /\ i \notin {list.cursor} \cup MarkedRows(list)
=============================================================================
