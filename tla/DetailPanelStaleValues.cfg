SPECIFICATION Spec
CONSTANTS
    p1 = p1
    p2 = p2
    a = a
    b = b
    c = c
    None = none
    Elsewhere = elsewhere
    Pane = {p1, p2}
    Row = {a, b, c}
    RowsOf <- MCRowsOf
    KeyOf <- MCKeyOf
    Slot = {f1, f2}
    f1 = f1
    f2 = f2
    MaxLate = 1
    MaxEvents = 5
INVARIANT StaleValuesAreDropped
CHECK_DEADLOCK FALSE
