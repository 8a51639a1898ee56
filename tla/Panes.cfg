SPECIFICATION PanesSpec
CONSTANTS
    None = None
    Lists = {l1, l2, l3}
    Terminals = {sh}
    Windows <- ScreenSizes
    p1 = p1
    p2 = p2
    Below <- TwoPanes
    Plugin = {"pods", "forwards"}
    Local = {"forwards"}
    Cluster = {"live", "other"}
    Connected = {"live"}
    NoPlugin = "terminal"
    Release = {"r1"}
    Plain = {"help"}
    Forms = {"scale", "chartInput"}
    Pickers = {"resource"}
    MaxAnswers = 1
    MaxPending = 2
    Object <- Objects4
    NameOf <- Names
    SortColumns = {"NAME", "AGE"}
    ValueOf <- Values
    Pattern <- OneAndThree
    Heights <- HiddenOrTwo
    Listed <- Lists4
    Contents <- Texts
    WideChars = {"W"}
    Searches <- TextSearches
    PanelWidths = {2, 6, 8}
    PanelHeights = {3}
    Step = 2
    ViewStep = 1
    Frames <- FrameSizes
    Typed <- TypedKeys
    Prefix <- CtrlA
    Captured <- Kept
    MaxBack = 1
    MaxLines = 2
VIEW WithoutEffects
SYMMETRY Symmetry
INVARIANT ShellIsDrawn
INVARIANT PendingIsAsked
INVARIANT TableIsDrawn
PROPERTY AnswerIsOfItsQuestion
PROPERTY SelectionFollows
PROPERTY TextMatchesAreShown
PROPERTY TerminalIsTrue
CHECK_DEADLOCK FALSE
