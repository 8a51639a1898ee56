----------------------------- MODULE MCLogView -----------------------------
(***************************************************************************)
(* A buffer of two lines: a line that fits the narrow viewport, one that   *)
(* wraps to three rows there and matches on its last, and the marker.      *)
(***************************************************************************)
EXTENDS LogView

CONSTANTS short, long, marker

MCLine == {short, long, marker}
MCLineWidth == [l \in MCLine |-> CASE l = short -> 2 [] l = long -> 7 [] l = marker -> 4]
MCColumn == [l \in MCLine |-> IF l = long THEN 6 ELSE 0]
MCPattern == {{long}, {short, marker}}
=============================================================================
