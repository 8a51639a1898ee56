------------------------------- MODULE Tools --------------------------------
(***************************************************************************)
(* The modules around the panes, together: terminal sessions, the search   *)
(* bar, the dialogs, port forwards, notices, $EDITOR, the catalog of       *)
(* resources, and the keys.  They share no state, so that a behaviour is   *)
(* one of one of these parts, chosen at the start; the variables of the    *)
(* other parts are 0 in it.                                                *)
(***************************************************************************)
EXTENDS Integers, Sequences, FiniteSets

CONSTANTS Absent  \* no dialog, no message sent, no port

VARIABLES part

-----------------------------------------------------------------------------
(* Terminal sessions.                                                      *)
CONSTANTS Exec, PodDebug, NodeDebug, OutCap

VARIABLES status, lists, layout, exited, terminals, termCleanup, named, preflight,
          pod, stream, out, read, closer

TS == INSTANCE TerminalSessions

\* A terminal is of one kind, and a session's channel has room for a chunk.
ASSUME TerminalsAssumption ==
    /\ Exec \cap PodDebug = {} /\ Exec \cap NodeDebug = {}
    /\ PodDebug \cap NodeDebug = {}
    /\ OutCap \in Nat \ {0}

-----------------------------------------------------------------------------
(* The search bar over panes.                                              *)
CONSTANTS Searched, BarPatterns, BrokenTexts, BarModes, MaxKeys, Burst

VARIABLES bar, target, seq, pressed, taken, handled, pattern

B == INSTANCE SearchBar WITH
    Panes <- Searched, Patterns <- BarPatterns, Broken <- BrokenTexts,
    Modes <- BarModes, focus <- target, keys <- pressed, inbox <- taken

\* A text is of one sort, and panes are searched and filtered.
ASSUME BarAssumption ==
    /\ B!Blank \notin BarPatterns \cup BrokenTexts /\ BarPatterns \cap BrokenTexts = {}
    /\ BarModes = {"search", "filter"}

-----------------------------------------------------------------------------
(* Dialogs.                                                                *)
CONSTANTS ItemLists, Query, EmptyInput, How, Long, ListHeight, FormPorts,
          PortTexts, MaxPort, Counts, NaN, MaxReplicas, MaxInt, Images, NoImage,
          Policies, Containers

VARIABLES form, given, sent

F == INSTANCE Forms WITH
    Lists <- ItemLists, Blank <- EmptyInput, MaxVisible <- ListHeight,
    Ports <- FormPorts, Locals <- PortTexts, None <- Absent

\* Items and ports are numbers, a list has room for a row, a pod has a container, and a
\* policy is listed once.
ASSUME FormsAssumption ==
    /\ \A items \in ItemLists : items \in Seq(Int)
    /\ FormPorts \in Seq(Int)
    /\ ListHeight \in Nat \ {0}
    /\ Counts \subseteq Int /\ EmptyInput \notin Int
    /\ MaxInt \in Nat /\ MaxReplicas \in Nat
    /\ DOMAIN Containers = 1..Len(Containers) /\ Len(Containers) \in Nat \ {0}
    /\ DOMAIN Policies = 1..Len(Policies) /\ Len(Policies) \in Nat \ {0}
    /\ \A j, k \in DOMAIN Policies : Policies[j] = Policies[k] => j = k

-----------------------------------------------------------------------------
(* Port forwards.                                                          *)
CONSTANTS Requests, LocalPorts

VARIABLES local, command, forward, failed, stop, entries, handles, watch, inbox, blocked

P == INSTANCE PortForwards WITH Locals <- LocalPorts, None <- Absent

ASSUME ForwardsAssumption == Absent \notin LocalPorts

-----------------------------------------------------------------------------
(* Notices.                                                                *)
CONSTANTS Capacity, MaxToasts, TTL, MaxAdded, MaxTime

VARIABLES store, nextID, now, arriving, ticks, dismissed, drawn, listed

N == INSTANCE Notices WITH MaxVisible <- MaxToasts

\* The store holds a message, and a level has a lifetime (or is sticky).
ASSUME NoticesAssumption == Capacity \in Nat \ {0} /\ TTL \in [DOMAIN TTL -> Nat]

-----------------------------------------------------------------------------
(* Edits.                                                                  *)
CONSTANTS Bodies, NoValues, MaxVersion

VARIABLES kind, server, cached, phase, base, hash, file, submitted, note

E == INSTANCE Edits WITH sent <- submitted

-----------------------------------------------------------------------------
(* The catalog.                                                            *)
CONSTANTS Contexts, Builtins, Served, MaxRefresh

VARIABLES ordered, byName, byShort, index, refreshed, results, focus, resources,
          rows, opened

C == INSTANCE Catalog WITH inbox <- results, listed <- resources

\* Types have names, a server serves finitely many, and the plugins registered at
\* startup are of different types.
ASSUME CatalogAssumption ==
    /\ DOMAIN Builtins = 1..Len(Builtins) /\ Len(Builtins) \in Nat
    /\ \A t \in C!Known : t.name \in Nat \ {0} /\ t.builtin \in BOOLEAN
    /\ \A j, k \in DOMAIN Builtins : C!GVR(Builtins[j]) = C!GVR(Builtins[k]) => j = k
    /\ \A c \in Contexts : IsFiniteSet(Served[c])

-----------------------------------------------------------------------------
(* The keys.                                                               *)
CONSTANTS KeyList, MaxChord, KeyPlaces, Moves, ScreenHeights, HelpQueries

VARIABLES place, compiled, typed, began, hints, ran, help

K == INSTANCE Keys WITH
    Bindings <- KeyList, Places <- KeyPlaces, Heights <- ScreenHeights, Queries <- HelpQueries

\* A list of bindings ends, and so do those nested in it; no chord is longer than MaxChord.
ASSUME KeysAssumption ==
    /\ MaxChord \in Nat \ {0} /\ ScreenHeights \subseteq Int
    /\ \A l \in K!Lists : DOMAIN l = 1..Len(l) /\ Len(l) \in Nat
    /\ \A l \in K!ListsAt(MaxChord) : l = <<>>

-----------------------------------------------------------------------------
(* The choice of a part, and its steps.                                    *)

terminalsVars == <<status, lists, layout, exited, terminals, termCleanup, named, preflight,
                   pod, stream, out, read, closer>>
barVars == <<bar, target, seq, pressed, taken, handled, pattern>>
formsVars == <<form, given, sent>>
forwardsVars == <<local, command, forward, failed, stop, entries, handles, watch,
                  inbox, blocked>>
noticesVars == <<store, nextID, now, arriving, ticks, dismissed, drawn, listed>>
editsVars == <<kind, server, cached, phase, base, hash, file, submitted, note>>
catalogVars == <<ordered, byName, byShort, index, refreshed, results, focus, resources,
                 rows, opened>>
keysVars == <<place, compiled, typed, began, hints, ran, help>>
toolsVars == <<part, terminalsVars, barVars, formsVars, forwardsVars, noticesVars,
               editsVars, catalogVars, keysVars>>

NoTerminals ==
    /\ status = 0 /\ lists = 0 /\ layout = 0 /\ exited = 0 /\ terminals = 0
    /\ termCleanup = 0 /\ named = 0 /\ preflight = 0 /\ pod = 0 /\ stream = 0
    /\ out = 0 /\ read = 0 /\ closer = 0
NoBar ==
    /\ bar = 0 /\ target = 0 /\ seq = 0 /\ pressed = 0 /\ taken = 0 /\ handled = 0
    /\ pattern = 0
NoForms ==
    /\ form = 0 /\ given = 0 /\ sent = 0
NoForwards ==
    /\ local = 0 /\ command = 0 /\ forward = 0 /\ failed = 0 /\ stop = 0
    /\ entries = 0 /\ handles = 0 /\ watch = 0 /\ inbox = 0 /\ blocked = 0
NoNotices ==
    /\ store = 0 /\ nextID = 0 /\ now = 0 /\ arriving = 0 /\ ticks = 0
    /\ dismissed = 0 /\ drawn = 0 /\ listed = 0
NoEdits ==
    /\ kind = 0 /\ server = 0 /\ cached = 0 /\ phase = 0 /\ base = 0 /\ hash = 0
    /\ file = 0 /\ submitted = 0 /\ note = 0
NoCatalog ==
    /\ ordered = 0 /\ byName = 0 /\ byShort = 0 /\ index = 0 /\ refreshed = 0
    /\ results = 0 /\ focus = 0 /\ resources = 0 /\ rows = 0 /\ opened = 0
NoKeys ==
    /\ place = 0 /\ compiled = 0 /\ typed = 0 /\ began = 0 /\ hints = 0 /\ ran = 0
    /\ help = 0

ToolsInit ==
    \/ /\ part = "terminals" /\ TS!Init
       /\ NoBar /\ NoForms /\ NoForwards /\ NoNotices /\ NoEdits /\ NoCatalog /\ NoKeys
    \/ /\ part = "bar" /\ B!Init
       /\ NoTerminals /\ NoForms /\ NoForwards /\ NoNotices /\ NoEdits /\ NoCatalog /\ NoKeys
    \/ /\ part = "forms" /\ F!Init
       /\ NoTerminals /\ NoBar /\ NoForwards /\ NoNotices /\ NoEdits /\ NoCatalog /\ NoKeys
    \/ /\ part = "forwards" /\ P!Init
       /\ NoTerminals /\ NoBar /\ NoForms /\ NoNotices /\ NoEdits /\ NoCatalog /\ NoKeys
    \/ /\ part = "notices" /\ N!Init
       /\ NoTerminals /\ NoBar /\ NoForms /\ NoForwards /\ NoEdits /\ NoCatalog /\ NoKeys
    \/ /\ part = "edits" /\ E!Init
       /\ NoTerminals /\ NoBar /\ NoForms /\ NoForwards /\ NoNotices /\ NoCatalog /\ NoKeys
    \/ /\ part = "catalog" /\ C!Init
       /\ NoTerminals /\ NoBar /\ NoForms /\ NoForwards /\ NoNotices /\ NoEdits /\ NoKeys
    \/ /\ part = "keys" /\ K!Init
       /\ NoTerminals /\ NoBar /\ NoForms /\ NoForwards /\ NoNotices /\ NoEdits /\ NoCatalog

TerminalsStep(A) ==
    /\ part = "terminals" /\ A
    /\ UNCHANGED <<part, barVars, formsVars, forwardsVars, noticesVars, editsVars, catalogVars,
                   keysVars>>
SearchBarStep(A) ==
    /\ part = "bar" /\ A
    /\ UNCHANGED <<part, terminalsVars, formsVars, forwardsVars, noticesVars, editsVars,
                  catalogVars, keysVars>>
FormsStep(A) ==
    /\ part = "forms" /\ A
    /\ UNCHANGED <<part, terminalsVars, barVars, forwardsVars, noticesVars, editsVars, catalogVars, keysVars>>
PortForwardsStep(A) ==
    /\ part = "forwards" /\ A
    /\ UNCHANGED <<part, terminalsVars, barVars, formsVars, noticesVars, editsVars, catalogVars, keysVars>>
NoticesStep(A) ==
    /\ part = "notices" /\ A
    /\ UNCHANGED <<part, terminalsVars, barVars, formsVars, forwardsVars, editsVars, catalogVars, keysVars>>
EditsStep(A) ==
    /\ part = "edits" /\ A
    /\ UNCHANGED <<part, terminalsVars, barVars, formsVars, forwardsVars, noticesVars, catalogVars, keysVars>>
CatalogStep(A) ==
    /\ part = "catalog" /\ A
    /\ UNCHANGED <<part, terminalsVars, barVars, formsVars, forwardsVars, noticesVars, editsVars, keysVars>>
KeysStep(A) ==
    /\ part = "keys" /\ A
    /\ UNCHANGED <<part, terminalsVars, barVars, formsVars, forwardsVars, noticesVars, editsVars,
                  catalogVars>>

ToolsNext ==
    \/ TerminalsStep(\E t \in Exec : TS!OpenExec(t))
    \/ TerminalsStep(\E t \in TS!Debug : TS!OpenDebug(t))
    \/ TerminalsStep(\E t \in TS!Debug : TS!ContainerRuns(t))
    \/ TerminalsStep(\E t \in TS!Debug : TS!WaitFailed(t))
    \/ TerminalsStep(\E t \in TS!Debug : TS!DebugFailed(t))
    \/ TerminalsStep(\E t \in TS!Debug : TS!DebugReady(t))
    \/ TerminalsStep(\E t \in TS!Debug : TS!DebugReadyLate(t))
    \/ TerminalsStep(\E t \in TS!Debug : TS!AttachFailed(t))
    \/ TerminalsStep(\E t \in TS!Debug : TS!DebugReadyWithoutMeta(t))
    \/ TerminalsStep(\E t \in NodeDebug : TS!PodCreated(t))
    \/ TerminalsStep(\E t \in NodeDebug : TS!CreateFailed(t))
    \/ TerminalsStep(\E t \in TS!Terminal : TS!CloseTerminal(t))
    \/ TerminalsStep(\E t \in TS!Terminal : TS!CloseLastTerminal(t))
    \/ TerminalsStep(\E t \in TS!Terminal : TS!Output(t))
    \/ TerminalsStep(\E t \in TS!Terminal : TS!StreamReturns(t))
    \/ TerminalsStep(\E t \in TS!Terminal : TS!Read(t))
    \/ TerminalsStep(\E t \in TS!Terminal : TS!TermBytes(t))
    \/ TerminalsStep(\E t \in TS!Terminal : TS!TermExit(t))
    \/ TerminalsStep(\E t \in TS!Terminal : TS!Closed(t))
    \/ TerminalsStep(TS!ToggleList)
    \/ TerminalsStep(TS!Quit)
    \/ TerminalsStep(TS!Exit)
    \/ SearchBarStep(\E mode \in BarModes : B!Open(mode))
    \/ SearchBarStep(\E text \in B!Texts : B!Type(text))
    \/ SearchBarStep(B!Enter)
    \/ SearchBarStep(B!Cancel)
    \/ SearchBarStep(B!CtrlW)
    \/ SearchBarStep(\E m \in taken : B!Changed(m))
    \/ SearchBarStep(\E m \in taken : B!Submitted(m))
    \/ SearchBarStep(\E m \in taken : B!Cleared(m))
    \/ SearchBarStep(\E m \in taken : B!Applied(m))
    \/ SearchBarStep(\E p \in Searched : B!MoveFocus(p))
    \/ SearchBarStep(B!ClearOverlay)
    \/ FormsStep(\E fuzzy \in BOOLEAN : F!OpenPicker(fuzzy))
    \/ FormsStep(\E items \in ItemLists : F!Given(items))
    \/ FormsStep(\E d \in {-1, 1} : F!PickerMove(d))
    \/ FormsStep(\E q \in F!Texts : F!PickerType(q))
    \/ FormsStep(F!PickerEnter)
    \/ FormsStep(F!OpenForward)
    \/ FormsStep(\E d \in {-1, 1} : F!ForwardMove(d))
    \/ FormsStep(\E q \in F!Texts, t \in PortTexts : F!ForwardType(q, t))
    \/ FormsStep(\E key \in F!Bar : F!ForwardKey(key))
    \/ FormsStep(\E n \in 0..MaxReplicas : F!OpenScale(n))
    \/ FormsStep(\E d \in {-1, 1} : F!ScaleMove(d))
    \/ FormsStep(\E n \in Counts : F!ScaleType(n))
    \/ FormsStep(\E key \in F!Bar : F!ScaleKey(key))
    \/ FormsStep(F!OpenImage)
    \/ FormsStep(\E v \in Images \cup {NoImage} : F!ImageType(v))
    \/ FormsStep(\E key \in F!Bar \cup {"shift+tab"} : F!ImageKey(key))
    \/ FormsStep(\E ref \in F!Texts : F!OpenChart(ref))
    \/ FormsStep(\E ref \in F!Texts : F!ChartType(ref))
    \/ FormsStep(F!ChartEnter)
    \/ FormsStep(F!Escape)
    \/ PortForwardsStep(\E r \in Requests, p \in LocalPorts : P!Request(r, p))
    \/ PortForwardsStep(\E r \in Requests : P!Step(r))
    \/ PortForwardsStep(\E r \in Requests : P!Ready(r))
    \/ PortForwardsStep(\E r \in Requests, error \in BOOLEAN : P!Ends(r, error))
    \/ PortForwardsStep(\E r \in Requests : P!Delete(r))
    \/ NoticesStep(\E level \in N!Levels : N!Add(level))
    \/ NoticesStep(\E a \in arriving : N!Arrives(a))
    \/ NoticesStep(\E tick \in ticks : N!Expires(tick))
    \/ NoticesStep(N!ClearNotifications)
    \/ NoticesStep(N!Clock)
    \/ EditsStep(E!EditObject)
    \/ EditsStep(E!EditValues)
    \/ EditsStep(E!EditorFails)
    \/ EditsStep(\E text \in E!Typed : E!Cancel(text))
    \/ EditsStep(\E text \in E!Typed : E!Misparse(text))
    \/ EditsStep(\E text \in E!Typed : E!Send(text))
    \/ EditsStep(E!Update)
    \/ EditsStep(E!Refuse)
    \/ EditsStep(E!Refetch)
    \/ EditsStep(\E body \in Bodies : E!OtherWrites(body))
    \/ EditsStep(E!Watch)
    \/ CatalogStep(\E c \in Contexts : C!Refresh(c))
    \/ CatalogStep(\E m \in results : C!Discovered(m))
    \/ CatalogStep(\E c \in Contexts : C!Focus(c))
    \/ CatalogStep(\E i \in DOMAIN rows : C!Pick(i))
    \/ CatalogStep(\E i \in DOMAIN resources : C!GoTo(i))
    \/ KeysStep(\E nodes \in {K!Nodes}, key \in K!AllKeys : K!Descend(key, nodes))
    \/ KeysStep(\E nodes \in {K!Nodes}, key \in K!AllKeys : K!Swallow(key, nodes))
    \/ KeysStep(\E nodes \in {K!Nodes}, key \in K!AllKeys : K!Execute(key, nodes))
    \/ KeysStep(\E p \in KeyPlaces : K!Click(p))
    \/ KeysStep(K!DoubleClick)
    \/ KeysStep(\E p \in KeyPlaces : K!PaneRemoved(p))
    \/ KeysStep(K!ScrollDown)
    \/ KeysStep(K!ScrollUp)
    \/ KeysStep(K!OpenSearch)
    \/ KeysStep(\E q \in HelpQueries : K!TypeQuery(q))
    \/ KeysStep(K!EraseQuery)
    \/ KeysStep(K!CancelSearch)
    \/ KeysStep(K!ApplySearch)
    \/ KeysStep(K!CloseHelp)
    \/ KeysStep(\E h \in ScreenHeights : K!WindowSize(h))

Fairness ==
    /\ \A t \in TS!Terminal : /\ WF_toolsVars(TerminalsStep(TS!Reads(t)))
                            /\ WF_toolsVars(TerminalsStep(TS!Ends(t)))
    /\ \A r \in Requests : /\ WF_toolsVars(PortForwardsStep(P!Step(r)))
                          /\ WF_toolsVars(PortForwardsStep(P!StoppedEnds(r)))
    /\ WF_toolsVars(NoticesStep(N!Clock))
    /\ WF_toolsVars(NoticesStep(\E a \in arriving : N!Arrives(a)))
    /\ WF_toolsVars(NoticesStep(\E tick \in ticks : N!Expires(tick)))

ToolsSpec == ToolsInit /\ [][ToolsNext]_toolsVars /\ Fairness

-----------------------------------------------------------------------------
(* The properties, each of its part.                                       *)

\* No debug pod and no shell is out of reach of what would end it, but for a pod the
\* program had not been told of when it ended.
NothingLeaks == part = "terminals" => TS!NothingLeaks

\* The output of a registered session keeps flowing to its pane.
OutputIsPumped == part = "terminals" => TS!OutputIsPumped

\* The stream of a closed session ends, though nobody reads its output any more.
ClosedSessionsEnd ==
    \A t \in TS!Terminal :
        (part = "terminals" /\ TS!Unregistered(t)) ~> (part = "terminals" /\ TS!StreamEnded(t))

\* The end of a shell reaches its pane.
ExitIsShown ==
    \A t \in TS!Terminal :
        (part = "terminals" /\ TS!EndedUnseen(t)) ~> (part = "terminals" /\ TS!EndSeen(t))

\* The pane is searched for what the open bar shows, once the message of its last key
\* was the last one handled.
BarIsApplied == part = "bar" => B!BarIsApplied

\* Keys go where a dialog shows its focus, and it sends what it showed.
DialogsAreTrue == part = "forms" => F!FocusIsDrawn /\ F!SentIsShown

\* One forward for a local port, and somebody who reports the end of each.
ForwardsAreKept == part = "forwards" => P!OneForwardPerPort /\ P!EveryForwardIsWatched

\* A forward that has ended leaves the list and gives its port back.
EndedForwardGoes ==
    \A r \in Requests :
        (part = "forwards" /\ P!ForwardEnded(r)) ~> (part = "forwards" /\ P!ForwardGone(r))

\* A toast that is gone stays gone, what is remembered about it is bounded, and
\* the list of messages becomes that of the store.
NoticesAreTrue ==
    /\ [](part = "notices" => N!DismissedIsBounded /\ N!SettledListIsCurrent)
    /\ [][part = "notices" => N!GoneStep]_toolsVars

\* A toast leaves the screen without another message.
ToastsLeave ==
    \A id \in 1..MaxAdded :
        (part = "notices" /\ N!ToastShown(id)) ~> (part = "notices" /\ N!ToastGone(id))

\* Only what the user changed is sent, and an object whose version the user left in the
\* text replaces only what the user saw.
EditsAreSafe ==
    /\ [](part = "edits" => E!OnlyChangesAreSent)
    /\ [][part = "edits" => E!ReplaceStep]_toolsVars

\* A row of the picker opens what it says, and names keep their meaning.
CatalogIsTrue ==
    /\ [](part = "catalog" => C!RowsSayWhatTheyOpen)
    /\ [][part = "catalog" => C!NameStep]_toolsVars

\* A key does what the bindings say, and the help lists what the keys can do.
KeysAndHelpAgree == part = "keys" => K!KeysMeanTheirBindings /\ K!HelpShowsEveryKey
=============================================================================
