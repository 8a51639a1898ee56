------------------------------ MODULE DetailText ------------------------------
(* The text of the detail panel, DetailView of internal/ui: its content, the *)
(* filter and the search over it, the wrapping of long lines (wrapLines of   *)
(* ansisplit.go) and what the view scrolls to. Every method runs on the      *)
(* update loop; what is hard is that a match has three positions: bytes of   *)
(* the whole text, columns of its line, and columns of a wrapped row.        *)
(*                                                                           *)
(* A text is a sequence of lines, a line one of characters. A pattern is a   *)
(* sequence of characters and line ends. Positions count from 0 as in the    *)
(* code, and so do lines, rows and columns.                                  *)
EXTENDS Integers, Sequences, SequencesExt, FiniteSetsExt, TLC

CONSTANTS Contents,   \* each a text and whether its display has colours
          WideChars,  \* characters two columns wide
          Patterns,   \* filters and searches
          Off,        \* no pattern
          Widths, Heights, \* sizes of the panel
          Step,       \* hScrollStep
          ViewStep    \* the step of the viewport itself

LineEnd == "/"
NoText == << <<>> >>

VARIABLES
  raw,        \* rawContent; displayContent has the same characters
  coloured,   \* displayContent is not rawContent
  lines,      \* what the viewport holds, before it is wrapped
  error,      \* the viewport holds the error instead
  filter, search,
  positions,  \* matchPositions
  index,      \* matchIndex
  softWrap,
  rows,       \* wrapMapping
  width, height, borderless, showHeader,  \* of the panel
  marks,      \* the viewport's own highlights and its index of them
  y, x        \* the viewport's offsets

content == <<raw, coloured>>
patterns == <<filter, search>>
matches == <<positions, index>>
size == <<width, height, borderless, showHeader>>
vars == <<content, lines, error, patterns, matches, softWrap, rows, size, marks, y, x>>

----------------------------------------------------------------------------
(* Characters, columns and matches.                                          *)

CharWidth(c) == IF c \in WideChars THEN 2 ELSE 1
Columns(line, n) ==
  LET w[k \in 0..Len(line)] == IF k = 0 THEN 0 ELSE w[k - 1] + CharWidth(line[k]) IN w[n]
Width(line) == Columns(line, Len(line))

Join(text) == FlattenSeq([k \in DOMAIN text |-> IF k = 1 THEN text[k] ELSE <<LineEnd>> \o text[k]])

(* FindAllStringIndex: from the left, without overlap.                       *)
FindAll(pattern, bytes) ==
  LET n == Len(pattern)
      Matches(found, i) == /\ i + n <= Len(bytes) /\ SubSeq(bytes, i + 1, i + n) = pattern
                           /\ found = <<>> \/ Last(found)[2] <= i
      With(found, i) == IF Matches(found, i) THEN Append(found, <<i, i + n>>) ELSE found
      before[i \in 0..Len(bytes)] == IF i = 0 THEN <<>> ELSE With(before[i - 1], i - 1)
  IN  before[Len(bytes)]

(* filteredContent, filterDisplayContent.                                   *)
Matching(text, f) ==
  LET With(kept, line) == IF FindAll(f, line) = <<>> THEN kept ELSE Append(kept, line)
      kept[k \in 0..Len(text)] == IF k = 0 THEN <<>> ELSE With(kept[k - 1], text[k])
  IN  kept[Len(text)]
Filtered(text, f) ==
  IF f = Off THEN text ELSE IF Matching(text, f) = <<>> THEN NoText ELSE Matching(text, f)

LineStart(text, n) ==
  LET s[k \in 0..Len(text)] == IF k = 0 THEN 0 ELSE s[k - 1] + Len(text[k]) + 1 IN s[n]

(* computeMatchPositions: one position for each line a match spans. The      *)
(* match that takes a line end has one, empty, on the next line.             *)
MatchLines(text, match) ==
  {n \in 0..(Len(text) - 1) :
     /\ match[1] < LineStart(text, n + 1)
     /\ n > 0 => match[2] > LineStart(text, n) - 1 \/ match[1] >= LineStart(text, n)}

(* A slip: the line end is not counted among the bytes before a line.        *)
SegmentNoEnds(text, match, n) ==
  LET start == LineStart(text, n) - n
      from  == IF match[1] - start > 0 THEN match[1] - start ELSE 0
      to    == Min({match[2] - start, Len(text[n + 1])})
  IN  [line |-> n, colStart |-> Columns(text[n + 1], from), colEnd |-> Columns(text[n + 1], to)]

Segment(text, match, n) ==
  LET start == LineStart(text, n)
      from  == IF match[1] > start THEN match[1] - start ELSE 0
      to    == Min({match[2] - start, Len(text[n + 1])})
  IN  [line |-> n, colStart |-> Columns(text[n + 1], from), colEnd |-> Columns(text[n + 1], to)]

Segments(text, match) ==
  FlattenSeq([k \in DOMAIN text |->
    IF k - 1 \in MatchLines(text, match) THEN << Segment(text, match, k - 1) >> ELSE <<>>])
MatchPositions(text, found) == FlattenSeq([k \in DOMAIN found |-> Segments(text, found[k])])
MatchStarts(text, found) == FlattenSeq([k \in DOMAIN found |-> << Head(Segments(text, found[k])) >>])

----------------------------------------------------------------------------
(* Wrapping.                                                                 *)

Indicator == 2
ContinuationWidth(w) == IF w > Indicator THEN w - Indicator ELSE 1

(* wrapLines: a row takes characters while they fit, and one at least.       *)
WrapLine(n, line, w) ==
  LET Row(k) == [line |-> n, offset |-> Columns(line, k)]
      Room(offset) == IF offset = 0 THEN w ELSE ContinuationWidth(w)
      Fits(offset, k) == Columns(line, k - 1) = offset \/ Columns(line, k) - offset <= Room(offset)
      With(taken, k) == IF Fits(Last(taken).offset, k) THEN taken ELSE Append(taken, Row(k - 1))
      taken[k \in 0..Len(line)] == IF k = 0 THEN << Row(0) >> ELSE With(taken[k - 1], k)
  IN  IF w <= 0 \/ Width(line) <= w THEN << Row(0) >> ELSE taken[Len(line)]

WrapLines(text, w) == FlattenSeq([k \in DOMAIN text |-> WrapLine(k - 1, text[k], w)])

Past(row, pos) == IF row.line # pos.line THEN row.line > pos.line ELSE row.offset > pos.colStart

(* logicalToVisual: the last row that begins at or before the match.         *)
ToVisual(mapping, pos) ==
  LET past  == {i \in DOMAIN mapping : Past(mapping[i], pos)}
      best  == (IF past = {} THEN Len(mapping) + 1 ELSE Min(past)) - 1
      shift == IF mapping[best].offset > 0 THEN Indicator - mapping[best].offset ELSE 0
  IN  IF best = 0 \/ mapping[best].line # pos.line THEN pos
      ELSE [line |-> best - 1, colStart |-> pos.colStart + shift, colEnd |-> pos.colEnd + shift]

----------------------------------------------------------------------------
(* The viewport, of a library: it holds lines, clamps its offsets, drops its *)
(* highlights when its lines are set, and scrolls no more than it must.      *)

ViewWidth == IF borderless THEN width ELSE width - 2
ViewHeight == IF borderless THEN (IF showHeader THEN height - 1 ELSE height) ELSE height - 2

Wrapped == softWrap /\ ~error /\ lines # <<>>
LineCount == IF Wrapped THEN Len(rows) ELSE Len(lines)
RowWidth(k) ==
  LET row == rows[k]
      end == IF k < Len(rows) /\ rows[k + 1].line = row.line
             THEN rows[k + 1].offset ELSE Width(lines[row.line + 1])
  IN  end - row.offset + (IF row.offset > 0 THEN Indicator ELSE 0)
Longest == IF Wrapped THEN Max({RowWidth(k) : k \in DOMAIN rows})
           ELSE Max({0} \cup {Width(line) : line \in ToSet(lines)})

Between0(a, top) == IF a > top THEN (IF top > 0 THEN top ELSE 0) ELSE IF a < 0 THEN 0 ELSE a
ClampY(a) == Between0(a, LineCount' - ViewHeight')
ClampX(a) == Between0(a, Longest' - ViewWidth')

(* What EnsureVisible makes of the offsets, once the lines are set.          *)
VisibleX(pos) == IF pos.colEnd <= ViewWidth' THEN 0 ELSE ClampX(pos.colStart - ViewStep)
Nearest(at, from) == LET near == {k \in DOMAIN at : at[k].line >= from}
                     IN  IF near = {} THEN -1 ELSE Min(near) - 1
VisibleY(line, from) == IF line < from \/ line >= from + ViewHeight' THEN ClampY(line) ELSE from

(* setViewportContent.                                                       *)
Show(text) == /\ lines' = IF text = NoText THEN <<>> ELSE text
              /\ error' = FALSE
              /\ rows' = IF softWrap' THEN WrapLines(text, ViewWidth') ELSE <<>>

----------------------------------------------------------------------------
(* reapplySearch. Plain text that does not wrap is left to the viewport's    *)
(* highlights, which scroll to the first match from the first row shown;     *)
(* y0 and x0 are the offsets before, and reset says the caller puts them     *)
(* back afterwards.                                                          *)
Reapply(y0, x0, reset) ==
  \E text \in {Filtered(raw', filter')} :
  \E found \in {IF search' = Off THEN <<>> ELSE FindAll(search', Join(text))} :
  \E first \in {MatchStarts(text, found)} :
    LET plain == search' # Off /\ ~softWrap' /\ ~coloured'
    IN  /\ Show(text)
        /\ positions' = IF plain THEN <<>> ELSE MatchPositions(text, found)
        /\ index' = IF positions' = <<>> THEN -1 ELSE 0
        /\ marks' = IF plain /\ text # NoText
                    THEN [at |-> first, index |-> Nearest(first, ClampY(y0))]
                    ELSE [at |-> <<>>, index |-> -1]
        /\ IF marks'.index = -1 \/ reset
           THEN y' = ClampY(y0) /\ x' = IF reset THEN ClampX(x0) ELSE x0
           ELSE LET pos == first[marks'.index + 1]
                IN  y' = VisibleY(pos.line, ClampY(y0)) /\ x' = VisibleX(pos)

----------------------------------------------------------------------------
(* Content.                                                                  *)

Init ==
  /\ raw = NoText /\ coloured = FALSE /\ lines = <<>> /\ error = FALSE
  /\ filter = Off /\ search = Off /\ positions = <<>> /\ index = 0
  /\ softWrap = FALSE /\ rows = <<>>
  /\ width \in Widths /\ height \in Heights /\ borderless = FALSE /\ showHeader = TRUE
  /\ marks = [at |-> <<>>, index |-> -1]
  /\ y = 0 /\ x = 0

Blank == raw' = NoText /\ coloured' = FALSE /\ lines' = <<>> /\ error' = FALSE

SetMode ==
  /\ Blank
  /\ filter' = Off /\ search' = Off /\ positions' = <<>> /\ index' = -1
  /\ marks' = [at |-> <<>>, index |-> -1]
  /\ y' = 0 /\ x' = 0
  /\ UNCHANGED <<softWrap, rows, size>>

(* The message takes the place of the text; the matches of the text stay.    *)
SetLoadError ==
  /\ error' = TRUE /\ lines' = << <<>> >>
  /\ marks' = [at |-> <<>>, index |-> -1]
  /\ y' = 0 /\ x' = x
  /\ UNCHANGED <<content, patterns, matches, softWrap, rows, size>>

SetContent(c, refresh) ==
  /\ raw' = c.text /\ coloured' = c.coloured
  /\ UNCHANGED <<patterns, softWrap, size>>
  /\ IF refresh THEN Reapply(0, 0, FALSE) ELSE Reapply(y, x, TRUE)

ClearContent ==
  /\ Blank
  /\ rows' = <<>> /\ marks' = [at |-> <<>>, index |-> -1]
  /\ y' = 0 /\ x' = x
  /\ UNCHANGED <<patterns, matches, softWrap, size>>

----------------------------------------------------------------------------
(* Search.                                                                   *)

ApplySearch(p) == /\ search' = p
                  /\ UNCHANGED <<content, filter, softWrap, size>>
                  /\ Reapply(y, x, FALSE)
ApplyFilter(p) == /\ filter' = p
                  /\ UNCHANGED <<content, search, softWrap, size>>
                  /\ Reapply(y, x, FALSE)
ClearSearch == search # Off /\ ApplySearch(Off)
ClearFilter == filter # Off /\ ApplyFilter(Off)

Place(pos) == IF softWrap THEN ToVisual(rows', pos) ELSE pos

(* SearchNext and SearchPrev: the text is highlighted anew, with its offsets *)
(* put back, and the view goes to the match.                                 *)
GoTo(k) ==
  LET pos == Place(positions[k + 1])
  IN  /\ UNCHANGED <<content, patterns, positions, softWrap, size>>
      /\ index' = k
      /\ Show(Filtered(raw, filter))
      /\ y' = VisibleY(pos.line, ClampY(y))
      /\ x' = VisibleX(pos)
      /\ marks' = [at |-> <<>>, index |-> -1]

(* HighlightNext and HighlightPrevious of the viewport.                      *)
GoToMark(k) ==
  LET pos == marks.at[k + 1]
  IN  /\ UNCHANGED <<content, lines, error, patterns, matches, softWrap, rows, size>>
      /\ marks' = [marks EXCEPT !.index = k]
      /\ y' = VisibleY(pos.line, y) /\ x' = VisibleX(pos)

Turn(k, by, n) == (k + by + n) % n

SearchStep(by) ==
  /\ search # Off
  /\ \/ positions # <<>> /\ GoTo(Turn(index, by, Len(positions)))
     \/ positions = <<>> /\ marks.at # <<>> /\ GoToMark(Turn(marks.index, by, Len(marks.at)))

----------------------------------------------------------------------------
(* Scrolling and size.                                                       *)

Scrolled == UNCHANGED <<content, lines, error, patterns, matches, softWrap, rows, size>>

(* Lines, pages, the top, the bottom and the wheel.                          *)
ScrollTo(a) == /\ Scrolled
               /\ y' = ClampY(a) /\ UNCHANGED x
               /\ marks' = [marks EXCEPT !.index = Nearest(marks.at, y')]
ScrollX(a) == ~softWrap /\ Scrolled /\ x' = ClampX(a) /\ UNCHANGED <<y, marks>>

(* ScrollEnd: the end of the longest line among those shown.                 *)
ScrollEnd ==
  LET seen == {k \in DOMAIN lines : y < k /\ k <= y + ViewHeight}
  IN  ScrollX(Max({0} \cup {Width(lines[k]) : k \in seen}) - ViewWidth)

ToggleWrap ==
  /\ softWrap' = ~softWrap
  /\ UNCHANGED <<content, patterns, size>>
  /\ Reapply(y, IF softWrap' THEN 0 ELSE x, FALSE)

(* SetSize: only a wrapped text has to be laid out again.                    *)
Resize(w, h, b, header) ==
  /\ width' = w /\ height' = h /\ borderless' = b /\ showHeader' = header
  /\ UNCHANGED <<content, patterns, softWrap>>
  /\ IF softWrap THEN Reapply(y, x, FALSE)
     ELSE UNCHANGED <<lines, error, matches, rows, marks, y, x>>

SetSize(w, h, b) == Resize(w, h, b, showHeader)
ToggleHeader == Resize(width, height, borderless, ~showHeader)

Next ==
  \/ SetMode
  \/ SetLoadError
  \/ \E c \in Contents, refresh \in BOOLEAN : SetContent(c, refresh)
  \/ ClearContent
  \/ \E p \in Patterns : ApplySearch(p) \/ ApplyFilter(p)
  \/ ClearSearch
  \/ ClearFilter
  \/ \E by \in {-1, 1} : SearchStep(by)
  \/ \E by \in {-ViewHeight, -1, 1, ViewHeight} : ScrollTo(y + by)
  \/ ScrollTo(0)
  \/ ScrollTo(LineCount)
  \/ \E by \in {-Step, Step, -x} : ScrollX(x + by)
  \/ ScrollEnd
  \/ ToggleWrap
  \/ \E w \in Widths, h \in Heights, b \in BOOLEAN : SetSize(w, h, b)
  \/ ToggleHeader

Spec == Init /\ [][Next]_vars

----------------------------------------------------------------------------
(* The characters painted are those of the matches: a position on each line  *)
(* a match touches, over exactly its columns, whatever wraps and is hidden.  *)
Text == Filtered(raw, filter)
Characters == UNION {{<<n, j>> : j \in DOMAIN Text[n]} : n \in DOMAIN Text}
Column(n, j) == Columns(Text[n], j - 1)

Painted == {c \in Characters : \E k \in DOMAIN positions :
                /\ positions[k].line = c[1] - 1
                /\ positions[k].colStart <= Column(c[1], c[2])
                /\ Column(c[1], c[2]) < positions[k].colEnd}
Matched == LET found == FindAll(search, Join(Text))
           IN  {c \in Characters : \E k \in DOMAIN found :
                  LineStart(Text, c[1] - 1) + c[2] - 1 \in found[k][1]..(found[k][2] - 1)}

MatchesAreExact ==
  (raw # NoText /\ search # Off /\ (softWrap \/ coloured)) => Painted = Matched

(* Going to a match shows it: the row that draws its first character is in   *)
(* the window afterwards, and so is the column it is drawn in. A match that   *)
(* begins with a line end has no character there, and in a panel no wider     *)
(* than the viewport's step the column may be missed.                         *)
Drawn(pos) ==
  LET mine == {k \in DOMAIN rows : rows[k].line = pos.line /\ rows[k].offset <= pos.colStart}
      k    == Max(mine)
  IN  IF ~softWrap THEN [row |-> pos.line, col |-> pos.colStart]
      ELSE [row |-> k - 1,
            col |-> pos.colStart - rows[k].offset + (IF k = Min(mine) THEN 0 ELSE Indicator)]
InWindow(pos) ==
  LET at == Drawn(pos)
  IN  /\ 0 < ViewHeight => y <= at.row /\ at.row < y + ViewHeight
      /\ ViewStep < ViewWidth /\ pos.colStart < pos.colEnd => x <= at.col /\ at.col < x + ViewWidth
GoToStep ==
  (raw # NoText /\ positions # <<>> /\ \E by \in {-1, 1} : SearchStep(by))
    => InWindow(positions[index + 1])'
GoesToMatch == [][GoToStep]_vars
=============================================================================
