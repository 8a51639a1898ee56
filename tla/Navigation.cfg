SPECIFICATION Spec
CONSTANTS
    p1 = p1
    p2 = p2
    a = a
    b = b
    n1 = n1
    All = all
    deploys = deploys
    pods = pods
    contexts = contexts
    Pane = {p1, p2}
    Context = {a, b}
    Kind = {deploys, pods, contexts}
    ClusterScoped = {contexts}
    Synthetic = {contexts}
    Contexts = contexts
    Home = pods
    Ns = {n1}
    DefaultNs <- MCDefaultNs
    Children <- MCChildren
    Parents <- MCParents
    MaxDepth = 1
    MaxDials = 1
SYMMETRY Symmetry
INVARIANT LevelsAreFed
INVARIANT BackStaysHere
PROPERTY LeftIsReleased
