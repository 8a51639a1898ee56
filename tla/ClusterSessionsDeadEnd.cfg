SPECIFICATION Spec
CONSTANTS
    Pane = {p1, p2}
    p1 = p1
    p2 = p2
    a = a
    b = b
    manifests = manifests
    none = none
    Context = {a, b}
    Pinned = {manifests}
    Startup = a
    KubeCurrent = a
    Lacking = {b}
    NoContext = none
    MaxDials = 2
    MaxBeats = 2
SYMMETRY Symmetry
INVARIANT EmptyPaneCanRetry
