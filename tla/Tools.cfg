SPECIFICATION ToolsSpec
CONSTANTS
    sh = sh
    node = node
    Exec = {sh}
    PodDebug = {}
    NodeDebug = {node}
    OutCap = 2
    KeyList <- KeysOfAll
    MaxChord = 3
    KeyPlaces <- FourPlaces
    Moves = {"focus"}
    ScreenHeights = {14, 17}
    HelpQueries = {"env", "quit", "zzz"}
    Absent = Absent
    Searched <- TwoPanes
    BarPatterns = {"a"}
    BrokenTexts = {"x"}
    BarModes <- SearchAndFilter
    MaxKeys = 3
    Burst = 2
    ItemLists <- SomeLists
    Query = {"a", "z"}
    EmptyInput = EmptyInput
    How <- HowItMatches
    Long <- Lengths
    ListHeight = 2
    FormPorts <- ContainerPorts
    PortTexts = {0, 3, 80, 81}
    MaxPort = 80
    Counts = {0, 2, 3, 5, 9}
    NaN = 9
    MaxReplicas = 2
    MaxInt = 4
    Images = {"v1", "v2"}
    NoImage = NoImage
    Policies <- ThreePolicies
    Containers <- TwoContainers
    Requests = {"f1", "f2"}
    LocalPorts = {"p", "q"}
    Capacity = 2
    MaxToasts = 1
    TTL <- Lifetimes
    MaxAdded = 3
    MaxTime = 4
    Bodies = {"a", "b", "none"}
    NoValues = "none"
    MaxVersion = 3
    Contexts = {"one", "two"}
    Builtins <- StartupPlugins
    Served <- ServedBy
    MaxRefresh = 1
INVARIANT NothingLeaks
INVARIANT OutputIsPumped
PROPERTY ClosedSessionsEnd
PROPERTY ExitIsShown
INVARIANT KeysAndHelpAgree
INVARIANT BarIsApplied
INVARIANT DialogsAreTrue
INVARIANT ForwardsAreKept
PROPERTY EndedForwardGoes
PROPERTY NoticesAreTrue
PROPERTY ToastsLeave
PROPERTY EditsAreSafe
PROPERTY CatalogIsTrue
CHECK_DEADLOCK FALSE
