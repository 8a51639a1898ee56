SPECIFICATION Spec
CONSTANTS
  short = short
  long = long
  marker = marker
  Line <- MCLine
  NoLine = NoLine
  Capacity = 2
  Marker = marker
  LineWidth <- MCLineWidth
  Column <- MCColumn
  Pattern <- MCPattern
  Off = Off
  Width = {4, 8}
  Height = {2}
  MaxDropped = 2
INVARIANT ViewIsExact
PROPERTY KeepsTheLast
PROPERTY MatchesStayExact
PROPERTY MatchIsShown
CHECK_DEADLOCK FALSE
