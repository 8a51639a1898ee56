SPECIFICATION Spec
CONSTANTS
    Key = {pods}
    pods = pods
    EventKey = {pods}
    Object = {x}
    x = x
    Pane = {p1, p2}
    p1 = p1
    p2 = p2
    Informer = {i1, i2}
    i1 = i1
    i2 = i2
    NoKey = nokey
    NoInformer = noinformer
    MaxQueue = 2
    MaxMail = 1
    nokey = nokey
    noinformer = noinformer
INVARIANT NoInformerOutlivesItsCluster
