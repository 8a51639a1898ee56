----------------------------- MODULE LastLines -----------------------------
(***************************************************************************)
(* What a bounded log buffer promises: it holds the last Capacity lines in *)
(* the order they came, and counts those it has dropped.                   *)
(***************************************************************************)
EXTENDS Naturals, Sequences

CONSTANTS Line, Capacity

VARIABLES lines, dropped

Init == lines = <<>> /\ dropped = 0

Kept == IF Len(lines) = Capacity THEN Tail(lines) ELSE lines

Add(l) ==
    /\ lines' = Append(Kept, l)
    /\ dropped' = dropped + (Len(lines) - Len(Kept))

Reset == lines' = <<>> /\ dropped' = 0

Next == Reset \/ \E l \in Line : Add(l)

Spec == Init /\ [][Next]_<<lines, dropped>>
=============================================================================
