------------------------------ MODULE LogView ------------------------------
(***************************************************************************)
(* The log panel, LogView of internal/ui: a ring buffer of lines, a filter *)
(* that keeps the indices of the lines it lets through, a search that      *)
(* keeps the positions of its matches, and a viewport that scrolls by      *)
(* lines or, when long lines wrap, by rows.  Every method runs on the      *)
(* Update goroutine; what is hard is that each updates these lists, which  *)
(* are all views of one buffer, incrementally.                             *)
(*                                                                         *)
(* A pattern is the set of lines it matches, once each.  Indices count     *)
(* from 0 as in the code.                                                  *)
(***************************************************************************)
EXTENDS RingBuffer, FiniteSets, SequencesExt

CONSTANTS
    Marker,     \* the line InsertMarker adds; no server sends it
    LineWidth,  \* display width of each line
    Column,     \* where a match starts in each line
    Pattern,    \* search and filter patterns
    Off,        \* no pattern
    Width, Height, \* sizes of the viewport
    MaxDropped  \* bound on the lines evicted

ASSUME LogViewAssumption ==
    /\ Marker \in Line
    /\ LineWidth \in [Line -> Nat \ {0}]
    /\ Column \in [Line -> Nat] /\ \A l \in Line : Column[l] < LineWidth[l]
    /\ Pattern \subseteq SUBSET Line /\ Off \notin Pattern
    /\ Width \subseteq Nat \ {0} /\ Height \subseteq Nat \ {0}
    /\ MaxDropped \in Nat

VARIABLES
    filter,              \* filterState
    filteredIndices,     \* lines let through, counted from the first line ever
    filteredIndexOffset, \* what to subtract to get an index of the buffer
    search,              \* searchState
    matchPositions,      \* in display lines: the indicator, if any, is line 0
    matchIndex,          \* the selected match, or -1
    autoscroll, softWrap,
    scrollOffset,        \* first display line shown, unwrapped
    wrapYOffset,         \* first row shown, wrapped
    totalWrappedRows,
    width, height,
    crashed              \* index out of range

filterVars == <<filter, filteredIndices, filteredIndexOffset>>
searchVars == <<search, matchPositions, matchIndex>>
scrollVars == <<scrollOffset, wrapYOffset>>
sizeVars == <<width, height>>
vars == <<ringVars, filterVars, searchVars, autoscroll, softWrap, scrollVars,
          totalWrappedRows, sizeVars, crashed>>

-----------------------------------------------------------------------------
\* The lines on display, without the indicator "n lines dropped" above them.
Shown == IF filter = Off THEN All
         ELSE [n \in DOMAIN filteredIndices |-> Get(filteredIndices[n] - filteredIndexOffset)]

Indicator == IF dropped > 0 THEN 1 ELSE 0

TotalDisplayLines == Len(Shown) + Indicator

AtLeast0(x) == IF x < 0 THEN 0 ELSE x

Clamp(x, top) == IF x > top THEN top ELSE AtLeast0(x)

MaxScroll == AtLeast0(TotalDisplayLines - height)
MaxWrapScroll == AtLeast0(totalWrappedRows - height)

\* continuationWidth: rows after the first have a prefix of two columns.
ContinuationWidth == IF width > 2 THEN width - 2 ELSE 1

\* wrapHeight; WidthGet of no line is 0.
WrapHeight(l) ==
    IF l = NoLine \/ LineWidth[l] <= width THEN 1
    ELSE 1 + (LineWidth[l] - width + ContinuationWidth - 1) \div ContinuationWidth

\* The rows of lines: each is of a line and the r-th of it.
RowsIn(s) == UNION {{n} \X (1..WrapHeight(s[n])) : n \in DOMAIN s}

RowsOf(s) == Cardinality(RowsIn(s))

\* recomputeTotalWrappedRows.
WrappedRows == RowsOf(Shown) + Indicator

IsAscending(s) == \A j, k \in DOMAIN s : j < k => s[j] < s[k]

\* Numbers one after the other, as a loop over the lines finds them.
Ascending(S) == CHOOSE s \in [1..Cardinality(S) -> S] : IsAscending(s)

LineMatches(l, n) ==
    IF l \in search THEN <<[line |-> n, col |-> Column[l]]>> ELSE <<>>

\* rebuildMatchPositions.
RebuiltMatches ==
    IF search = Off THEN <<>>
    ELSE LET hits == Ascending({n \in DOMAIN Shown : Shown[n] \in search})
         IN  [k \in DOMAIN hits |-> [line |-> hits[k] - 1 + Indicator,
                                    col |-> Column[Shown[hits[k]]]]]

\* updateViewport highlights the matches in the window and, when there are some,
\* indexes the matches with the selected one.
Panics ==
    /\ ~softWrap /\ search # Off
    /\ matchIndex >= Len(matchPositions)
    /\ \E k \in DOMAIN matchPositions :
          LET line == matchPositions[k].line
          IN  scrollOffset <= line /\ line < scrollOffset + height /\ line < TotalDisplayLines

\* updateViewport and updateViewportWrapped, once everything else is decided.
UpdateViewport(scroll, row) ==
    /\ IF softWrap'
         THEN /\ scrollOffset' = scroll
              /\ wrapYOffset' = IF autoscroll' THEN MaxWrapScroll' ELSE Clamp(row, MaxWrapScroll')
         ELSE /\ scrollOffset' = Clamp(scroll, MaxScroll')
              /\ wrapYOffset' = row
    /\ crashed' = Panics'

\* What autoscroll asks of the unwrapped view; the wrapped one follows by itself.
FollowedScroll ==
    IF autoscroll' /\ ~softWrap' THEN TotalDisplayLines' - height' ELSE scrollOffset

Recount == totalWrappedRows' = IF softWrap' THEN WrappedRows' ELSE totalWrappedRows

Init ==
    /\ RingInit
    /\ filter = Off /\ filteredIndices = <<>> /\ filteredIndexOffset = 0
    /\ search = Off /\ matchPositions = <<>> /\ matchIndex = 0
    /\ autoscroll = TRUE /\ softWrap = FALSE
    /\ scrollOffset = 0 /\ wrapYOffset = 0 /\ totalWrappedRows = 0
    /\ width \in Width /\ height \in Height
    /\ crashed = FALSE

-----------------------------------------------------------------------------
\* Lines arrive.

Evicting == count = Capacity

\* The lines let through once the oldest has gone and the new one has come.
TrackFilter(included) ==
    /\ filteredIndexOffset' = filteredIndexOffset + (IF filter # Off /\ Evicting THEN 1 ELSE 0)
    /\ filteredIndices' =
          IF filter = Off THEN filteredIndices
          ELSE LET offset == filteredIndexOffset'
                   old == {n \in DOMAIN filteredIndices : \A m \in 1..n : filteredIndices[m] < offset}
                   kept == SubSeq(filteredIndices, Cardinality(old) + 1, Len(filteredIndices))
               IN  IF included THEN Append(kept, offset + count' - 1) ELSE kept

\* Mutant: the row of the indicator is not counted when it appears.
TrackRowsWithoutIndicator(l, included) ==
    totalWrappedRows' =
        CASE ~softWrap -> totalWrappedRows
          [] softWrap /\ filter = Off ->
                totalWrappedRows + WrapHeight(l) - (IF Evicting THEN WrapHeight(Get(0)) ELSE 0)
          [] softWrap /\ filter # Off ->
                IF included \/ Evicting THEN WrappedRows' ELSE totalWrappedRows

\* The incremental count of rows, recounted only under a filter.
TrackRows(l, included) ==
    totalWrappedRows' =
        CASE ~softWrap -> totalWrappedRows
          [] softWrap /\ filter = Off ->
                totalWrappedRows + WrapHeight(l)
                    - (IF Evicting THEN WrapHeight(Get(0)) ELSE 0)
                    + (IF Evicting /\ dropped = 0 THEN 1 ELSE 0)
          [] softWrap /\ filter # Off ->
                IF included \/ Evicting THEN WrappedRows' ELSE totalWrappedRows

Track(l, included) ==
    /\ Evicting => dropped < MaxDropped
    /\ Add(l)
    /\ UNCHANGED <<filter, search, matchIndex, autoscroll, softWrap, sizeVars>>
    /\ TrackFilter(included)
    /\ TrackRows(l, included)

\* Mutant: the matches of the new line are added even when all lines have moved.
AppendLineWithoutRebuild(l) ==
    LET included == filter = Off \/ l \in filter
    IN  /\ ~crashed /\ l # Marker
        /\ Track(l, included)
        /\ IF included \/ Evicting
             THEN /\ matchPositions' =
                        IF search = Off \/ ~included THEN matchPositions
                        ELSE matchPositions \o LineMatches(l, TotalDisplayLines' - 1)
                  /\ UpdateViewport(FollowedScroll, wrapYOffset)
             ELSE UNCHANGED <<matchPositions, scrollVars, crashed>>

\* AppendLine: a line the filter holds back changes nothing on display unless the
\* oldest line has gone.
AppendLine(l) ==
    LET included == filter = Off \/ l \in filter
    IN  /\ ~crashed /\ l # Marker
        /\ Track(l, included)
        /\ IF included \/ Evicting
             THEN /\ matchPositions' =
                        CASE search = Off -> matchPositions
                          [] search # Off /\ Evicting -> RebuiltMatches'
                          [] search # Off /\ ~Evicting ->
                                matchPositions \o LineMatches(l, TotalDisplayLines' - 1)
                  /\ UpdateViewport(FollowedScroll, wrapYOffset)
             ELSE UNCHANGED <<matchPositions, scrollVars, crashed>>

\* InsertMarker: the filter always lets a marker through; without an eviction the
\* search does not see it.
InsertMarker ==
    /\ ~crashed
    /\ Track(Marker, TRUE)
    /\ matchPositions' = IF search # Off /\ Evicting THEN RebuiltMatches' ELSE matchPositions
    /\ UpdateViewport(FollowedScroll, wrapYOffset)

\* ClearAndRestart, before a new stream of lines.
ClearAndRestart ==
    /\ ~crashed
    /\ RingReset
    /\ filter' = Off /\ filteredIndices' = <<>> /\ filteredIndexOffset' = 0
    /\ search' = Off /\ matchPositions' = <<>> /\ matchIndex' = -1
    /\ autoscroll' = TRUE
    /\ scrollOffset' = 0 /\ wrapYOffset' = 0 /\ totalWrappedRows' = 0
    /\ UNCHANGED <<softWrap, sizeVars, crashed>>

-----------------------------------------------------------------------------
\* Search and filter.

\* rebuildViewportContent.
RebuildViewportContent ==
    /\ matchPositions' = RebuiltMatches'
    /\ matchIndex' = IF matchPositions' = <<>> THEN -1 ELSE 0
    /\ Recount
    /\ UpdateViewport(scrollOffset, wrapYOffset)

\* ApplySearch(p, SearchModeFilter).
ApplyFilter(p) ==
    /\ ~crashed
    /\ filter' = p
    /\ filteredIndices' =
          LET hits == {n \in DOMAIN All : All[n] \in p \cup {Marker}}
          IN  Ascending({filteredIndexOffset + n - 1 : n \in hits})
    /\ UNCHANGED <<ringVars, filteredIndexOffset, search, autoscroll, softWrap, sizeVars>>
    /\ RebuildViewportContent

\* ApplySearch(p, SearchModeSearch).
ApplySearch(p) ==
    /\ ~crashed
    /\ search' = p
    /\ UNCHANGED <<ringVars, filterVars, autoscroll, softWrap, sizeVars>>
    /\ RebuildViewportContent

ClearSearch ==
    /\ ~crashed
    /\ search' = Off /\ matchPositions' = <<>> /\ matchIndex' = -1
    /\ UNCHANGED <<ringVars, filterVars, autoscroll, softWrap, totalWrappedRows, sizeVars>>
    /\ UpdateViewport(scrollOffset, wrapYOffset)

\* The search keeps the positions it had among the filtered lines.
ClearFilter ==
    /\ ~crashed
    /\ filter' = Off /\ filteredIndices' = <<>> /\ filteredIndexOffset' = 0
    /\ UNCHANGED <<ringVars, searchVars, autoscroll, softWrap, sizeVars>>
    /\ Recount
    /\ UpdateViewport(scrollOffset, wrapYOffset)

\* The row at which a match begins, counted by ensureMatchVisible.
VisualRow(pos) ==
    LET above == AtLeast0(pos.line - Indicator)
        lines == SubSeq(Shown, 1, IF above < Len(Shown) THEN above ELSE Len(Shown))
    IN  Indicator + RowsOf(lines)
        + (IF pos.col >= width THEN 1 + (pos.col - width) \div ContinuationWidth ELSE 0)

\* Mutant: the last line of the window is taken for one below it.
BringLate(x, top) ==
    IF x < top THEN x ELSE IF x > top + height THEN x - height + 1 ELSE top

\* The least scroll that shows x.
Bring(x, top) ==
    IF x < top THEN x ELSE IF x >= top + height THEN x - height + 1 ELSE top

\* ensureMatchVisible, then updateViewport.
GoToMatch(index) ==
    /\ matchIndex' = index
    /\ UNCHANGED <<ringVars, filterVars, search, matchPositions, softWrap,
                   totalWrappedRows, sizeVars>>
    /\ IF index \in 0..(Len(matchPositions) - 1)
         THEN LET pos == matchPositions[index + 1]
              IN  /\ autoscroll' = FALSE
                  /\ IF softWrap
                       THEN UpdateViewport(scrollOffset, Bring(VisualRow(pos), wrapYOffset))
                       ELSE UpdateViewport(Bring(pos.line, scrollOffset), wrapYOffset)
         ELSE /\ UNCHANGED autoscroll
              /\ UpdateViewport(scrollOffset, wrapYOffset)

SearchNext ==
    /\ ~crashed /\ search # Off /\ matchPositions # <<>>
    /\ GoToMatch((matchIndex + 1) % Len(matchPositions))

SearchPrev ==
    /\ ~crashed /\ search # Off /\ matchPositions # <<>>
    /\ GoToMatch(IF matchIndex < 1 THEN Len(matchPositions) - 1 ELSE matchIndex - 1)

-----------------------------------------------------------------------------
\* Scrolling and layout.

contentVars == <<ringVars, filterVars, searchVars>>

\* ScrollUp, PageUp.
ScrollUp(n) ==
    /\ ~crashed
    /\ autoscroll' = FALSE
    /\ UNCHANGED <<contentVars, softWrap, totalWrappedRows, sizeVars>>
    /\ IF softWrap THEN UpdateViewport(scrollOffset, wrapYOffset - n)
                   ELSE UpdateViewport(scrollOffset - n, wrapYOffset)

\* ScrollDown, PageDown: reaching the end turns autoscroll on.
ScrollDown(n) ==
    /\ ~crashed
    /\ autoscroll' =
          \/ autoscroll
          \/ IF softWrap THEN wrapYOffset + n >= MaxWrapScroll
                         ELSE scrollOffset + n >= TotalDisplayLines - height
    /\ UNCHANGED <<contentVars, softWrap, totalWrappedRows, sizeVars>>
    /\ IF softWrap THEN UpdateViewport(scrollOffset, wrapYOffset + n)
                   ELSE UpdateViewport(scrollOffset + n, wrapYOffset)

GotoTop ==
    /\ ~crashed
    /\ autoscroll' = FALSE
    /\ UNCHANGED <<contentVars, softWrap, totalWrappedRows, sizeVars>>
    /\ IF softWrap THEN UpdateViewport(scrollOffset, 0) ELSE UpdateViewport(0, wrapYOffset)

GotoBottom ==
    /\ ~crashed
    /\ autoscroll' = TRUE
    /\ UNCHANGED <<contentVars, softWrap, totalWrappedRows, sizeVars>>
    /\ UpdateViewport(FollowedScroll, wrapYOffset)

ToggleAutoscroll ==
    /\ ~crashed
    /\ autoscroll' = ~autoscroll
    /\ UNCHANGED <<contentVars, softWrap, totalWrappedRows, sizeVars>>
    /\ IF autoscroll' THEN UpdateViewport(FollowedScroll, wrapYOffset)
                      ELSE UNCHANGED <<scrollVars, crashed>>

ToggleWrap ==
    /\ ~crashed
    /\ softWrap' = ~softWrap
    /\ UNCHANGED <<contentVars, autoscroll, sizeVars>>
    /\ Recount
    /\ UpdateViewport(FollowedScroll, IF softWrap' THEN 0 ELSE wrapYOffset)

\* ToggleSyntax restyles every line and leaves its text and its width.
ToggleSyntax ==
    /\ ~crashed
    /\ UNCHANGED <<ringVars, filterVars, search, autoscroll, softWrap, sizeVars>>
    /\ IF search # Off
         THEN RebuildViewportContent
         ELSE /\ UNCHANGED <<matchPositions, matchIndex>>
              /\ Recount
              /\ UpdateViewport(scrollOffset, wrapYOffset)

\* SetSize, and ToggleHeader, which gives or takes a line.
SetSize(w, h) ==
    /\ ~crashed
    /\ width' = w /\ height' = h
    /\ UNCHANGED <<contentVars, autoscroll, softWrap>>
    /\ Recount
    /\ UpdateViewport(scrollOffset, wrapYOffset)

Arrive == InsertMarker \/ ClearAndRestart \/ \E l \in Line : AppendLine(l)

Find ==
    \/ \E p \in Pattern : ApplyFilter(p) \/ ApplySearch(p)
    \/ ClearSearch \/ ClearFilter \/ SearchNext \/ SearchPrev

Look ==
    \/ \E n \in {1, height} : ScrollUp(n) \/ ScrollDown(n)
    \/ GotoTop \/ GotoBottom
    \/ ToggleAutoscroll \/ ToggleWrap \/ ToggleSyntax
    \/ \E w \in Width, h \in Height : SetSize(w, h)

Next == Arrive \/ Find \/ Look

Spec == Init /\ [][Next]_vars

-----------------------------------------------------------------------------
\* Properties.

\* The type of the state; scrolling and stepping through matches never leaves the
\* display, above or on the left.
TypeOK ==
    /\ RingTypeOK
    /\ filter \in Pattern \cup {Off} /\ search \in Pattern \cup {Off}
    /\ filteredIndexOffset \in Nat
    /\ filteredIndices \in Seq(Nat)
    /\ matchPositions \in Seq([line : Nat, col : Nat])
    /\ matchIndex \in Nat \cup {-1}
    /\ {autoscroll, softWrap, crashed} \subseteq BOOLEAN
    /\ {scrollOffset, wrapYOffset, totalWrappedRows} \subseteq Nat
    /\ width \in Width /\ height \in Height

\* The filter shows the lines of the buffer it matches, and the markers, in order,
\* although AppendLine only moves an offset and drops indices when a line goes.
FilterIsExact ==
    filter # Off =>
        /\ IsAscending(filteredIndices)
        /\ {filteredIndices[k] - filteredIndexOffset + 1 : k \in DOMAIN filteredIndices}
              = {n \in DOMAIN All : All[n] \in filter \cup {Marker}}

\* The count of rows AppendLine and InsertMarker maintain by differences is the
\* number of rows there are: the wrapped view can scroll to the last and no further.
RowsAreCounted == softWrap => totalWrappedRows = Cardinality(RowsIn(Shown)) + Indicator

\* The lines on display a search finds: markers are never highlighted.
FoundLines == {n \in DOMAIN Shown : Shown[n] \in search \ {Marker}}
MatchAt(n) == [line |-> n - 1 + Indicator, col |-> Column[Shown[n]]]
OnMarker(pos) ==
    LET n == pos.line - Indicator + 1 IN n \in DOMAIN Shown /\ Shown[n] = Marker

\* The matches, but for those on markers, are those of the lines on display, from the
\* first to the last.
MatchesAreExact ==
    search # Off =>
        /\ \A j, k \in DOMAIN matchPositions :
              j < k => matchPositions[j].line < matchPositions[k].line
        /\ {pos \in ToSet(matchPositions) : ~OnMarker(pos)} = {MatchAt(n) : n \in FoundLines}

\* The two together: what the panel shows is the buffer, to the last row.
ViewIsExact == FilterIsExact /\ RowsAreCounted

\* Whatever the buffer evicts and the filter hides, the matches a search found stay
\* the matches of the lines on display.  Only ClearFilter loses them: it moves
\* every line and looks for no match.
MatchesStayExact == [][MatchesAreExact => MatchesAreExact' \/ ClearFilter]_vars

\* The columns a row of a line holds, and its place among the rows on display.
HoldsColumn(r, col) ==
    /\ r > 1 => width + (r - 2) * ContinuationWidth <= col
    /\ col < width + (r - 1) * ContinuationWidth
RowNumber(n, r) ==
    Indicator + Cardinality({x \in RowsIn(Shown) : x[1] < n \/ (x[1] = n /\ x[2] < r)})

\* The line on display a match is in, and whether it is in one.
LineOf(pos) == pos.line - Indicator + 1
InALine(pos) == LineOf(pos) \in DOMAIN Shown /\ pos.col < LineWidth[Shown[LineOf(pos)]]

SelectedIsShown ==
    LET pos == matchPositions[matchIndex + 1]
        n == LineOf(pos)
    IN  IF softWrap
          THEN \E r \in 1..WrapHeight(Shown[n]) :
                  /\ HoldsColumn(r, pos.col)
                  /\ RowNumber(n, r) \in wrapYOffset..(wrapYOffset + height - 1)
          ELSE pos.line \in scrollOffset..(scrollOffset + height - 1)

\* Stepping to a match brings the row it begins at into the window, wrapped or not,
\* even to one ClearFilter left behind, if there is such a row.
ShowsMatch ==
    /\ SearchNext \/ SearchPrev
    /\ matchIndex' \in 0..(Len(matchPositions) - 1)
    /\ InALine(matchPositions[matchIndex' + 1])
MatchIsShown == [][ShowsMatch => SelectedIsShown']_vars

\* "Display indices shifted -- full rebuild keeps everything in sync"
\* (logview.go:1036): with everything in sync no method indexes past the end.
NeverPanics == ~crashed
=============================================================================
