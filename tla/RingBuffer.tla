----------------------------- MODULE RingBuffer -----------------------------
(***************************************************************************)
(* DualRingBuffer of internal/ui: a circular array of log lines.  Its      *)
(* parallel arrays (raw, colored, stripped, widths) are written at one     *)
(* index together and are one array of lines here; SetColored and          *)
(* SetStripped, which restyle a line in place, leave it the same line.     *)
(***************************************************************************)
EXTENDS Integers, Sequences

CONSTANTS
    Line,
    NoLine,     \* the zero value of a slot
    Capacity

ASSUME RingAssumption == Capacity \in Nat \ {0} /\ NoLine \notin Line

VARIABLES
    slots,
    head,       \* next write position
    count,      \* lines stored
    dropped     \* lines evicted since the last reset

ringVars == <<slots, head, count, dropped>>

Slot == 0..(Capacity - 1)

RingInit ==
    /\ slots = [s \in Slot |-> NoLine]
    /\ head = 0 /\ count = 0 /\ dropped = 0

\* Mutant: the head runs one slot over the end of the array before it wraps.
AddWithoutWrap(l) ==
    /\ dropped' = IF count = Capacity THEN dropped + 1 ELSE dropped
    /\ slots' = [slots EXCEPT ![head] = l]
    /\ head' = (head + 1) % (Capacity + 1)
    /\ count' = IF count < Capacity THEN count + 1 ELSE count

\* Append: the oldest line is overwritten when the buffer is full.
Add(l) ==
    /\ dropped' = IF count = Capacity THEN dropped + 1 ELSE dropped
    /\ slots' = [slots EXCEPT ![head] = l]
    /\ head' = (head + 1) % Capacity
    /\ count' = IF count < Capacity THEN count + 1 ELSE count

RingReset ==
    /\ slots' = [s \in Slot |-> NoLine]
    /\ head' = 0 /\ count' = 0 /\ dropped' = 0

RingNext == RingReset \/ \E l \in Line : Add(l)

RingSpec == RingInit /\ [][RingNext]_ringVars

-----------------------------------------------------------------------------
\* physIdx: the slot of the i-th line, the oldest being the 0th.
PhysIdx(i) == (head - count + Capacity + i) % Capacity

\* RawGet, ColoredGet, StrippedGet, WidthGet.
Get(i) == IF 0 <= i /\ i < count THEN slots[PhysIdx(i)] ELSE NoLine

\* copySlice of [start, end): one copy, or two when it runs over the end of the
\* array.
Slice(start, end) ==
    LET from == IF start < 0 THEN 0 ELSE start
        to == IF end > count THEN count ELSE end
        first == PhysIdx(from)
    IN  IF from >= to THEN <<>>
        ELSE [n \in 1..(to - from) |->
                IF first + n <= Capacity THEN slots[first + n - 1]
                                         ELSE slots[first + n - 1 - Capacity]]

\* RawAll, ColoredAll.
All == Slice(0, count)

RingTypeOK ==
    /\ slots \in [Slot -> Line \cup {NoLine}]
    /\ head \in Slot
    /\ count \in 0..Capacity
    /\ dropped \in Nat

Log == INSTANCE LastLines WITH lines <- All

\* The ring is a buffer of the last lines: whatever the head and the eviction do,
\* a reader sees the last Capacity lines in order, and the number of the others.
KeepsTheLast == Log!Spec
=============================================================================
