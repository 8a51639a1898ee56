------------------------- MODULE DetailPanel_proofs -------------------------
(***************************************************************************)
(* The log streams of the right panel are never lost, for any panes,       *)
(* objects and bounds: a stream that is opening or open can be cancelled,  *)
(* and the log view is on the screen.                                      *)
(*                                                                         *)
(* The invariant is inductive once the flags are known to be Boolean and a *)
(* log view is known to be shown.  Every handler that touches the stream   *)
(* does so through stopLogStream or startLogStream, so the proof is one    *)
(* lemma for each of the helpers and one step for each action.             *)
(***************************************************************************)
EXTENDS DetailPanel, TLAPS

StreamTyped ==
    /\ stream \in {"none", "opening", "open", "ended"}
    /\ cancel \in BOOLEAN /\ ch \in BOOLEAN /\ orphan \in BOOLEAN
    /\ log \in BOOLEAN /\ shown \in BOOLEAN

\* The log view is a mode of a panel that is on the screen.
LogIsShown == log => shown

IInv == StreamTyped /\ LogIsShown /\ StreamsAreOwned

\* What an action leaves of the panel's mode.
ViewTyped == log \in BOOLEAN /\ shown \in BOOLEAN /\ (log => shown)

streamVars == <<stream, cancel, ch, orphan>>

\* What the helpers do to the stream: nothing, stop it, or start it in a log
\* view.
StreamStep == (UNCHANGED streamVars /\ (log => log')) \/ StopStream \/ (StartStream /\ log')

-----------------------------------------------------------------------------
\* Stopping a stream that could be cancelled loses nothing.
LEMMA StoppingOwns ==
  ASSUME IInv, StopStream, ViewTyped' PROVE IInv'
BY DEF IInv, StopStream, ViewTyped, StreamTyped, LogIsShown, StreamsAreOwned, Live

\* Neither does a start, which stops what ran before.
LEMMA StartingOwns ==
  ASSUME IInv, StartStream, log', ViewTyped' PROVE IInv'
BY DEF IInv, StartStream, StopStream, ViewTyped, StreamTyped, LogIsShown, StreamsAreOwned, Live

\* A stream that is left alone stays owned while the log view stays.
LEMMA LeavingOwns ==
  ASSUME IInv, UNCHANGED streamVars, log => log', ViewTyped' PROVE IInv'
BY DEF IInv, streamVars, ViewTyped, StreamTyped, LogIsShown, StreamsAreOwned, Live

LEMMA StepOwns ==
  ASSUME IInv, StreamStep, ViewTyped' PROVE IInv'
BY StoppingOwns, StartingOwns, LeavingOwns DEF StreamStep

\* The mode stays what it is where an action does not name it.
LEMMA ViewKept ==
  ASSUME IInv, UNCHANGED <<log, shown>> PROVE ViewTyped' /\ (log => log')
BY DEF IInv, StreamTyped, LogIsShown, ViewTyped

\* restartLogForCursor, where the log view is shown.
LEMMA RestartSteps ==
  ASSUME RestartLog, log', log => log' PROVE StreamStep
BY DEF RestartLog, StreamStep, streamVars

\* syncLogPanel in log mode.
LEMMA SyncSteps ==
  ASSUME SyncLog, log', log => log' PROVE StreamStep
BY RestartSteps DEF SyncLog, StreamStep, streamVars, logs

\* refreshDetailPanel and syncLogPanel.
LEMMA RefreshAndSyncSteps ==
  ASSUME RefreshAndSync, log => log' PROVE StreamStep
BY SyncSteps DEF RefreshAndSync, StreamStep, streamVars, logs

\* refreshDetailPanelOrLog.
LEMMA RefreshOrLogSteps ==
  ASSUME NEW k, NEW f, NEW r, RefreshOrLog(k, f, r), log => log' PROVE StreamStep
BY DEF RefreshOrLog, StreamStep, streamVars, logs

-----------------------------------------------------------------------------
\* At the start there is no stream and no log view.
LEMMA InitOwns == ASSUME Init PROVE IInv
BY DEF Init, IInv, StreamTyped, LogIsShown, StreamsAreOwned, Live

\* Every step of the panel keeps the invariant.
LEMMA NextOwns == ASSUME IInv, [Next]_vars PROVE IInv'
<1> USE DEF view
<1>1. CASE UNCHANGED vars
  BY <1>1, ViewKept, LeavingOwns DEF vars, logs, streamVars
<1>2. ASSUME NEW p \in Pane, NEW r \in RowsOf[p], Choose(p, r) PROVE IInv'
  BY <1>2, ViewKept, RefreshOrLogSteps, StepOwns DEF Choose
<1>3. ASSUME NEW p \in Pane, NEW r \in RowsOf[p], Wheel(p, r) PROVE IInv'
  BY <1>3, ViewKept, LeavingOwns DEF Wheel, logs, streamVars
<1>4. ASSUME NEW r, Search(r) PROVE IInv'
  BY <1>4, ViewKept, LeavingOwns DEF Search, logs, streamVars
<1>5. ASSUME NEW p, FocusPane(p) PROVE IInv'
  BY <1>5, ViewKept, RefreshAndSyncSteps, StepOwns DEF FocusPane
<1>6. ASSUME NEW p, Stray(p) PROVE IInv'
  BY <1>6, ViewKept, LeavingOwns DEF Stray, logs, streamVars
<1>7. ASSUME NEW p, NEW r, ClusterReady(p, r) PROVE IInv'
  BY <1>7, ViewKept, LeavingOwns DEF ClusterReady, logs, streamVars
<1>8. ASSUME NEW p, NEW r, NEW changed, NEW related, NEW searching,
             ResourceUpdated(p, r, changed, related, searching)
      PROVE  IInv'
  <2>1. ViewTyped' /\ (log => log')
    BY <1>8, ViewKept DEF ResourceUpdated
  <2>2. log \in BOOLEAN /\ log' = log
    BY <1>8 DEF ResourceUpdated, IInv, StreamTyped
  <2>3. StreamStep
    BY <1>8, <2>1, <2>2, RefreshOrLogSteps, SyncSteps
    DEF ResourceUpdated, StreamStep, logs, streamVars
  <2> QED BY <2>1, <2>3, StepOwns
<1>9. ASSUME NEW r, NamespaceSwitch(r) PROVE IInv'
  <2>1. ViewTyped'
    BY <1>9 DEF NamespaceSwitch, IInv, StreamTyped, LogIsShown, ViewTyped
  <2> QED BY <1>9, <2>1, StoppingOwns DEF NamespaceSwitch
<1>10. ASSUME NEW k, NEW r, Goto(k, r) PROVE IInv'
  BY <1>10, ViewKept, RefreshAndSyncSteps, StepOwns DEF Goto
<1>11. ASSUME NEW k, NEW r, Drill(k, r) PROVE IInv'
  BY <1>11, ViewKept, RefreshOrLogSteps, StepOwns DEF Drill
<1>12. ASSUME NEW m, View(m) PROVE IInv'
  BY <1>12, StoppingOwns DEF View, ViewTyped
<1>13. CASE ViewLogs
  <2>1. CASE kind[focus] = "pods"
    <3>1. log' /\ ViewTyped' /\ RestartLog
      BY <1>13, <2>1 DEF ViewLogs, ViewTyped
    <3> QED BY <3>1, RestartSteps, StepOwns
  <2>2. CASE kind[focus] # "pods"
    <3>1. UNCHANGED <<log, shown>> /\ UNCHANGED streamVars
      BY <1>13, <2>2 DEF ViewLogs, streamVars
    <3> QED BY <3>1, ViewKept, LeavingOwns
  <2> QED BY <2>1, <2>2
<1>14. CASE ClosePanel
  BY <1>14, StoppingOwns DEF ClosePanel, IInv, ViewTyped
<1>15. CASE Pick
  <2>1. ViewTyped' /\ log' /\ (log => log')
    BY <1>15, ViewKept DEF Pick
  <2>2. StreamStep
    BY <1>15, <2>1 DEF Pick, StreamStep, streamVars
  <2> QED BY <2>1, <2>2, StepOwns
<1>16. CASE RefreshKey
  BY <1>16, ViewKept, LeavingOwns DEF RefreshKey, logs, streamVars
<1>17. CASE ContextSwitch
  BY <1>17, StoppingOwns DEF ContextSwitch, IInv, StreamTyped, ViewTyped
<1>18. ASSUME NEW rows, ReloadAll(rows) PROVE IInv'
  <2>1. ViewTyped'
    BY <1>18 DEF ReloadAll, IInv, StreamTyped, ViewTyped
  <2> QED BY <1>18, <2>1, StoppingOwns DEF ReloadAll
<1>19. ASSUME NEW s, HelmValuesLoaded(s) PROVE IInv'
  BY <1>19, ViewKept, LeavingOwns DEF HelmValuesLoaded, logs, streamVars
<1>20. CASE DescribeLoaded
  BY <1>20, ViewKept, LeavingOwns DEF DescribeLoaded, logs, streamVars
<1>21. CASE DescribeDiscarded
  BY <1>21, ViewKept, LeavingOwns DEF DescribeDiscarded, logs, streamVars
<1>22. CASE DescribeDebounceFired
  BY <1>22, ViewKept, LeavingOwns DEF DescribeDebounceFired, logs, streamVars
<1>23. ASSUME NEW ok \in BOOLEAN, LogStreamReady(ok) PROVE IInv'
  BY <1>23 DEF LogStreamReady, IInv, StreamTyped, LogIsShown, StreamsAreOwned, Live
<1>24. CASE LogStreamEnded
  BY <1>24 DEF LogStreamEnded, IInv, StreamTyped, LogIsShown, StreamsAreOwned, Live
<1>25. CASE LogDebounceFired
  <2>1. ViewTyped' /\ (log => log')
    BY <1>25, ViewKept DEF LogDebounceFired
  <2>2. StreamStep
    BY <1>25, <2>1, RestartSteps DEF LogDebounceFired, StreamStep, streamVars
  <2> QED BY <2>1, <2>2, StepOwns
<1> QED
  BY <1>1, <1>2, <1>3, <1>4, <1>5, <1>6, <1>7, <1>8, <1>9, <1>10, <1>11, <1>12, <1>13, <1>14,
     <1>15, <1>16, <1>17, <1>18, <1>19, <1>20, <1>21, <1>22, <1>23, <1>24, <1>25
  DEF Next

\* A log stream that is opening or open can always be cancelled, is only there
\* while the log view is on the screen, and none was ever replaced uncancelled
\* (App.startLogStream, stopLogStream and all that call them).
THEOREM StreamsStayOwned == Spec => []StreamsAreOwned
<1>1. Init => IInv
  BY InitOwns
<1>2. IInv /\ [Next /\ Bounded]_vars => IInv'
  BY NextOwns
<1>3. IInv => StreamsAreOwned
  BY DEF IInv
<1> QED BY <1>1, <1>2, <1>3, PTL DEF Spec

-----------------------------------------------------------------------------
(* What the panel shows.                                                   *)

PanelTyped ==
    /\ sel \in [Pane -> Row \cup {None}]
    /\ log \in BOOLEAN /\ shown \in BOOLEAN
    /\ debounce \in BOOLEAN /\ strayed \in BOOLEAN /\ frozen \in BOOLEAN

Newest(s) == fetch[s] # None /\ fetch[s].newest

\* One fetch at most is the newest.
FetchTyped ==
    /\ fetch \in [Slot -> Request \cup {None}]
    /\ \A s, t \in Slot : Newest(s) /\ Newest(t) => s = t

Due == shown /\ ~log /\ Selected # None /\ ~strayed /\ ~frozen /\ ~debounce

OnValues == mode \in ValuesModes /\ kind[focus] = "helm"

Awaited(s) == Newest(s) /\ fetch[s].current /\ fetch[s].of = Selected /\ fetch[s].mode = mode

IsShown ==
    /\ content # None /\ KeyOf[content] = KeyOf[Selected]
    /\ overtaken \/ (content = Selected /\ "content" \in fresh)

\* The selected object is described by what is in flight, the newest fetch is of its
\* values, or it is shown, and no describe or newer fetch will replace it.
Follows ==
    Due => \/ mode = "describe" /\ describe = Selected /\ "describe" \in fresh
           \/ OnValues /\ \E s \in Slot : Awaited(s)
           \/ /\ IsShown
              /\ mode = "describe" => describe = None
              /\ OnValues => \A s \in Slot : ~Newest(s)

ShownInv == PanelTyped /\ FetchTyped /\ Follows

\* What an action does to the fetches: it leaves them, outdates them, or asks for one
\* more.
AskStep ==
    \/ fetch' \in {fetch, Outdated}
    \/ /\ \E before \in {fetch, Outdated} : fetch' = Asked(before)
       /\ Selected1 # None /\ mode' \in ValuesModes /\ InFlight # Slot

\* Fetches that are outdated keep their slots, and what they are of.
LEMMA OutdatedTyped ==
  ASSUME FetchTyped
  PROVE  /\ Outdated \in [Slot -> Request \cup {None}]
         /\ \A s \in Slot : /\ fetch[s] = None => Outdated[s] = None
                            /\ fetch[s] # None => Outdated[s].newest = fetch[s].newest
<1>1. ASSUME NEW s \in Slot, fetch[s] # None
      PROVE  Outdated[s] \in Request /\ Outdated[s].newest = fetch[s].newest
  <2>1. fetch[s] \in Request
    BY <1>1 DEF FetchTyped
  <2> QED BY <1>1, <2>1 DEF Outdated, Request
<1>2. \A s \in Slot : fetch[s] = None => Outdated[s] = None
  BY DEF Outdated
<1> QED BY <1>1, <1>2, DetailAssumption DEF Outdated

\* The slot of a new fetch, and what it holds.
LEMMA AskedHolds ==
  ASSUME FetchTyped, NEW before \in {fetch, Outdated}, fetch' = Asked(before),
         Selected1 \in Row, mode' \in ValuesModes, InFlight # Slot
  PROVE  /\ FetchTyped'
         /\ \E s \in Slot : /\ Newest(s)' /\ fetch'[s].current
                           /\ fetch'[s].of = Selected1 /\ fetch'[s].mode = mode'
<1> DEFINE free == CHOOSE s \in Slot : fetch[s] = None
           new == [of |-> Selected1, mode |-> mode', current |-> TRUE, newest |-> TRUE]
<1>1. free \in Slot /\ fetch[free] = None
  BY DEF InFlight
<1>2. before \in [Slot -> Request \cup {None}]
  BY OutdatedTyped DEF FetchTyped
<1>3. new \in Request /\ new # None /\ new.newest /\ new.current /\ new.of = Selected1
      /\ new.mode = mode'
  <2>1. TRUE \in BOOLEAN
    OBVIOUS
  <2>2. new \in Request
    BY <2>1, Zenon DEF Request
  <2>3. new # None
    BY <2>2, DetailAssumption
  <2> QED BY <2>2, <2>3
<1>4. fetch'[free] = new
  BY <1>1 DEF Asked
<1>5. ASSUME NEW s \in Slot, s # free
      PROVE  fetch'[s] \in Request \cup {None} /\ ~Newest(s)'
  <2>1. CASE before[s] = None
    BY <1>5, <2>1 DEF Asked, Newest
  <2>2. CASE before[s] # None
    <3>1. before[s] \in Request
      BY <1>2, <2>2
    <3>2. fetch'[s] = [before[s] EXCEPT !.newest = FALSE]
      BY <1>5, <2>2 DEF Asked
    <3> QED BY <3>1, <3>2 DEF Request, Newest
  <2> QED BY <2>1, <2>2
<1>6. fetch' \in [Slot -> Request \cup {None}]
  <2>1. \A s \in Slot : fetch'[s] \in Request \cup {None}
    BY <1>3, <1>4, <1>5
  <2>2. fetch' = [s \in Slot |-> fetch'[s]]
    BY DEF Asked
  <2> QED BY <2>1, <2>2
<1> HIDE DEF new, free
<1> QED BY <1>1, <1>3, <1>4, <1>5, <1>6 DEF FetchTyped, Newest

\* Each of these steps keeps the fetches well formed.
LEMMA AskKeeps ==
  ASSUME FetchTyped, AskStep, Selected1 \in Row \cup {None} PROVE FetchTyped'
<1>1. CASE fetch' = fetch
  BY <1>1 DEF FetchTyped, Newest
<1>2. CASE fetch' = Outdated
  <2>1. \A s \in Slot : /\ fetch[s] = None => Outdated[s] = None
                        /\ fetch[s] # None => Outdated[s].newest = fetch[s].newest
    BY OutdatedTyped
  <2>2. ASSUME NEW s \in Slot, Newest(s)' PROVE Newest(s)
    BY <1>2, <2>1, <2>2 DEF Newest
  <2>3. Outdated \in [Slot -> Request \cup {None}]
    BY OutdatedTyped
  <2>4. fetch' \in [Slot -> Request \cup {None}]
    BY <1>2, <2>3
  <2> QED BY <2>2, <2>4 DEF FetchTyped
<1>3. CASE fetch' \notin {fetch, Outdated}
  BY <1>3, AskedHolds DEF AskStep
<1> QED BY <1>1, <1>2, <1>3

LEMMA RefreshAsks ==
  ASSUME NEW key, NEW before, NEW known, NEW asked \in {fetch, Outdated},
         RefreshFrom(key, before, known, asked)
  PROVE  AskStep
BY DEF RefreshFrom, AskStep

\* A refresh shows what is selected, or asks for it, whatever it starts from.
LEMMA RefreshFollows ==
  ASSUME FetchTyped, Selected1 \in Row \cup {None},
         NEW key, NEW before, NEW known, NEW asked \in {fetch, Outdated},
         RefreshFrom(key, before, known, asked)
  PROVE  Follows'
<1>1. Selected' = Selected1
  BY DEF Selected, Selected1
<1>2. CASE log' \/ ~shown' \/ Selected1 = None
  BY <1>1, <1>2 DEF Follows, Due
<1>3. CASE ~(log' \/ ~shown' \/ Selected1 = None)
  <2>1. CASE mode' = "yaml" \/ (mode' \in ValuesModes /\ kind'[focus'] # "helm")
    <3>1. content' = Selected1 /\ "content" \in fresh' /\ mode' # "describe" /\ ~OnValues'
      BY <1>3, <2>1 DEF RefreshFrom, ValuesModes, OnValues
    <3> QED BY <1>1, <1>3, <3>1 DEF Follows, IsShown
  <2>2. CASE mode' \in ValuesModes /\ kind'[focus'] = "helm"
    <3>1. fetch' = Asked(asked) /\ InFlight # Slot /\ Selected1 \in Row /\ OnValues'
      BY <1>3, <2>2 DEF RefreshFrom, ValuesModes, OnValues
    <3>2. \E s \in Slot : /\ Newest(s)' /\ fetch'[s].current
                         /\ fetch'[s].of = Selected1 /\ fetch'[s].mode = mode'
      BY <2>2, <3>1, AskedHolds
    <3> QED BY <1>1, <3>1, <3>2 DEF Follows, Awaited
  <2>3. CASE mode' = "describe"
    BY <1>1, <1>3, <2>3 DEF RefreshFrom, Follows, ValuesModes
  <2> QED BY <1>3, <2>1, <2>2, <2>3 DEF RefreshFrom
<1> QED BY <1>2, <1>3

LEMMA RefreshAndSyncFollows ==
  ASSUME FetchTyped, Selected1 \in Row \cup {None}, RefreshAndSync PROVE Follows'
BY RefreshFollows DEF RefreshAndSync, Refresh, Follows, Due

LEMMA RefreshOrLogFollows ==
  ASSUME FetchTyped, Selected1 \in Row \cup {None},
         NEW key, NEW known, NEW asked \in {fetch, Outdated}, RefreshOrLog(key, known, asked)
  PROVE  Follows'
BY RefreshFollows DEF RefreshOrLog, Follows, Due

\* What neither moves the selection nor touches the detail view changes nothing.
LEMMA QuietFollows ==
  ASSUME Follows, Selected' = Selected, Due' => Due,
         UNCHANGED <<focus, kind, mode, content, describe, fetch, fresh, overtaken>>
  PROVE  Follows'
BY DEF Follows, OnValues, Awaited, Newest, IsShown

LEMMA StillSelected == ASSUME UNCHANGED <<focus, sel>> PROVE Selected' = Selected
BY DEF Selected

LEMMA InitFollows == ASSUME Init PROVE ShownInv
BY DEF Init, ShownInv, PanelTyped, FetchTyped, Newest, Follows, Due

LEMMA NextTyped == ASSUME PanelTyped, Next PROVE PanelTyped'
<1> USE DetailAssumption DEF PanelTyped, Settled
<1>1. ASSUME NEW p \in Pane, NEW r \in RowsOf[p],
             Choose(p, r) \/ Wheel(p, r) \/ (p = focus /\ Search(r))
      PROVE  PanelTyped'
  BY <1>1 DEF Choose, Wheel, Search, OnList, view, timers, RefreshOrLog, history
<1>2. ASSUME NEW p, FocusPane(p) \/ Stray(p) PROVE PanelTyped'
  BY <1>2 DEF FocusPane, Stray, view, timers
<1>3. ASSUME NEW p \in Pane, NEW r \in RowsOf[p] \cup {None}, ClusterReady(p, r) PROVE PanelTyped'
  BY <1>3 DEF ClusterReady, view, timers, history
<1>4. ASSUME NEW p \in Pane, NEW r \in RowsOf[p] \cup {None}, NEW changed \in BOOLEAN,
             NEW related \in BOOLEAN, NEW searching \in BOOLEAN,
             ResourceUpdated(p, r, changed, related, searching)
      PROVE  PanelTyped'
  <2>1. sel' = [sel EXCEPT ![p] = r] /\ UNCHANGED view
    BY <1>4 DEF ResourceUpdated
  <2>2. frozen' \in BOOLEAN /\ debounce' \in BOOLEAN /\ strayed' \in BOOLEAN
    <3> HIDE DetailAssumption
    <3>1. \/ UNCHANGED <<timers, history>>
          \/ UNCHANGED debounce /\ Settled
          \/ debounce' = TRUE /\ UNCHANGED history
          \/ Settled /\ UNCHANGED timers
          \/ frozen' = (frozen \/ (OnList /\ (p = focus \/ related))) /\ UNCHANGED <<timers, strayed>>
      BY <1>4 DEF ResourceUpdated
    <3> QED BY <3>1 DEF timers, history, OnList
  <2> QED BY <2>1, <2>2 DEF view
<1>5. ASSUME NEW r \in RowsOf[focus] \cup {None}, focus \in Pane, NEW k,
             NamespaceSwitch(r) \/ Goto(k, r) \/ Drill(k, r)
      PROVE  PanelTyped'
  <2>1. sel' = [sel EXCEPT ![focus] = r] /\ shown' = shown /\ debounce' = debounce /\ Settled
    BY <1>5 DEF NamespaceSwitch, Goto, Drill, view, timers
  <2>2. log' \in {log, log /\ kind[focus] = "pods"}
    BY <1>5 DEF NamespaceSwitch, Goto, Drill, view
  <2>3. sel' \in [Pane -> Row \cup {None}]
    BY <1>5, <2>1
  <2> HIDE DetailAssumption
  <2> QED BY <2>1, <2>2, <2>3
<1>6. ASSUME NEW m, View(m) PROVE PanelTyped'
  BY <1>6 DEF View, panes, timers
<1>7. CASE ViewLogs \/ ClosePanel \/ Pick \/ RefreshKey \/ ContextSwitch
  BY <1>7 DEF ViewLogs, ClosePanel, Pick, RefreshKey, ContextSwitch, panes, view, timers, history,
              OnList
<1>8. ASSUME NEW rows \in [Pane -> Row \cup {None}], ReloadAll(rows) PROVE PanelTyped'
  BY <1>8 DEF ReloadAll, timers, history, OnList
<1>9. ASSUME NEW s, HelmValuesLoaded(s) PROVE PanelTyped'
  BY <1>9 DEF HelmValuesLoaded, panes, view, timers, history
<1>10. CASE DescribeLoaded \/ DescribeDiscarded \/ DescribeDebounceFired \/ LogStreamEnded
            \/ LogDebounceFired
  BY <1>10 DEF DescribeLoaded, DescribeDiscarded, DescribeDebounceFired, LogStreamEnded,
               LogDebounceFired, panes, view, timers, history, OnList
<1>11. ASSUME NEW ok, LogStreamReady(ok) PROVE PanelTyped'
  BY <1>11 DEF LogStreamReady, panes, view, timers, history
<1> QED BY <1>1, <1>2, <1>3, <1>4, <1>5, <1>6, <1>7, <1>8, <1>9, <1>10, <1>11 DEF Next

\* What is selected after a step is a row or nothing.
LEMMA SelectionTyped == ASSUME PanelTyped' PROVE Selected1 \in Row \cup {None}
BY DEF PanelTyped, Selected1, Selection

\* Every action leaves, outdates or adds to the fetches, or takes an answer.
LEMMA NextAsks == ASSUME Next PROVE AskStep \/ \E s \in Slot : HelmValuesLoaded(s)
<1>1. ASSUME NEW p, NEW r, Choose(p, r) \/ Wheel(p, r) \/ Search(r) \/ ClusterReady(p, r)
      PROVE  AskStep
  BY <1>1, RefreshAsks DEF Choose, Wheel, Search, ClusterReady, RefreshOrLog, Refresh, detail, AskStep
<1>2. ASSUME NEW p, FocusPane(p) \/ Stray(p) PROVE AskStep
  BY <1>2, RefreshAsks DEF FocusPane, Stray, RefreshAndSync, Refresh, detail, showing, AskStep
<1>3. ASSUME NEW p, NEW r, NEW changed, NEW related, NEW searching,
             ResourceUpdated(p, r, changed, related, searching)
      PROVE  AskStep
  <2> DEFINE asked == IF changed THEN Outdated ELSE fetch
             before == IF changed THEN {} ELSE fresh
             key == KeyOrNone(Selected1)
  <2>1. \/ fetch' = asked
        \/ RefreshOrLog(key, before, asked)
        \/ RefreshFrom(lastKey, content, before, asked)
    BY <1>3 DEF ResourceUpdated
  <2>2. asked \in {fetch, Outdated}
    OBVIOUS
  <2> HIDE DEF asked, before, key
  <2> QED BY <2>1, <2>2, RefreshAsks DEF RefreshOrLog, AskStep
<1>4. ASSUME NEW k, NEW r, NamespaceSwitch(r) \/ Goto(k, r) \/ Drill(k, r) PROVE AskStep
  BY <1>4, RefreshAsks
  DEF NamespaceSwitch, Goto, Drill, RefreshAndSync, RefreshOrLog, Refresh, showing, AskStep
<1>5. ASSUME NEW m, NEW rows, View(m) \/ ReloadAll(rows) PROVE AskStep
  BY <1>5, RefreshAsks DEF View, ReloadAll
<1>6. CASE ViewLogs \/ ClosePanel \/ Pick \/ RefreshKey \/ ContextSwitch
  BY <1>6, RefreshAsks
  DEF ViewLogs, ClosePanel, Pick, RefreshKey, ContextSwitch, Refresh, showing, detail, AskStep
<1>7. CASE DescribeLoaded \/ DescribeDiscarded \/ DescribeDebounceFired \/ LogStreamEnded
           \/ LogDebounceFired \/ \E ok \in BOOLEAN : LogStreamReady(ok)
  BY <1>7, RefreshAsks
  DEF DescribeLoaded, DescribeDiscarded, DescribeDebounceFired, LogStreamEnded, LogDebounceFired,
      LogStreamReady, Refresh, showing, detail, AskStep
<1> QED BY <1>1, <1>2, <1>3, <1>4, <1>5, <1>6, <1>7 DEF Next

\* The fetches stay well formed: an answer frees its slot.
LEMMA NextFetches == ASSUME ShownInv, Next, PanelTyped' PROVE FetchTyped'
<1> USE DEF ShownInv
<1>1. CASE AskStep
  BY <1>1, AskKeeps, SelectionTyped
<1>2. ASSUME NEW s \in Slot, HelmValuesLoaded(s) PROVE FetchTyped'
  <2>1. fetch' = [fetch EXCEPT ![s] = None]
    BY <1>2 DEF HelmValuesLoaded
  <2> QED BY <2>1 DEF FetchTyped, Newest
<1> QED BY <1>1, <1>2, NextAsks

LEMMA NextFollows == ASSUME ShownInv, [Next]_vars, PanelTyped' PROVE Follows'
<1> USE DEF ShownInv
<1>0. Selected1 \in Row \cup {None}
  BY SelectionTyped
<1> USE <1>0
<1>1. CASE UNCHANGED vars
  BY <1>1, QuietFollows, StillSelected DEF vars, panes, view, detail, timers, history, Due
<1>2. ASSUME NEW p \in Pane, NEW r \in RowsOf[p], Choose(p, r) PROVE Follows'
  BY <1>2, RefreshOrLogFollows DEF Choose
<1>3. ASSUME NEW p \in Pane, NEW r \in RowsOf[p], Wheel(p, r) PROVE Follows'
  <2>1. CASE p = focus
    BY <1>3, <2>1 DEF Wheel, Follows, Due
  <2>2. CASE p # focus
    <3>1. Selected' = Selected
      BY <1>3, <2>2 DEF Wheel, Selected, Selection, PanelTyped
    <3> QED BY <1>3, <2>2, <3>1, QuietFollows DEF Wheel, view, detail, timers, Due, PanelTyped
  <2> QED BY <2>1, <2>2
<1>4. ASSUME NEW r, Search(r) PROVE Follows'
  BY <1>4, RefreshFollows DEF Search, Refresh
<1>5. ASSUME NEW p, FocusPane(p) PROVE Follows'
  BY <1>5, RefreshAndSyncFollows DEF FocusPane
<1>6. ASSUME NEW p, Stray(p) PROVE Follows'
  BY <1>6 DEF Stray, Follows, Due
<1>7. ASSUME NEW p, NEW r, ClusterReady(p, r) PROVE Follows'
  BY <1>7, RefreshFollows DEF ClusterReady, Refresh
<1>8. ASSUME NEW p \in Pane, NEW r \in RowsOf[p] \cup {None}, NEW changed, NEW related,
             NEW searching, ResourceUpdated(p, r, changed, related, searching)
      PROVE  Follows'
  <2> DEFINE key == KeyOrNone(Selected1)
             moved == shown /\ OnList /\ key # lastKey
             matches == OnList /\ (p = focus \/ related)
             before == IF changed THEN {} ELSE fresh
             asked == IF changed THEN Outdated ELSE fetch
  <2>1. UNCHANGED <<focus, kind, view>> /\ (changed => p = focus) /\ sel' = [sel EXCEPT ![p] = r]
    BY <1>8 DEF ResourceUpdated
  <2>2. CASE moved /\ key = None
    <3>1. Selected1 \in Row \cup {None}
      BY <2>1, <2>2, DetailAssumption DEF Selected1, Selection, PanelTyped
    <3>2. Selected1 = None
      BY <2>2, <3>1, DetailAssumption DEF KeyOrNone
    <3> QED BY <3>2 DEF Follows, Due, Selected, Selected1
  <2>3. CASE moved /\ key # None
    <3>1. RefreshOrLog(key, before, asked) /\ asked \in {fetch, Outdated}
      BY <1>8, <2>3 DEF ResourceUpdated
    <3> HIDE DEF key, before, asked
    <3> QED BY <3>1, RefreshOrLogFollows
  <2>4. CASE ~moved /\ ~log /\ ~searching /\ matches /\ mode = "describe"
    BY <1>8, <2>4 DEF ResourceUpdated, Follows, Due
  <2>5. CASE ~moved /\ ~log /\ ~searching /\ matches /\ mode # "describe"
    <3>1. RefreshFrom(lastKey, content, before, asked) /\ asked \in {fetch, Outdated}
      BY <1>8, <2>5 DEF ResourceUpdated
    <3> HIDE DEF before, asked
    <3> QED BY <3>1, RefreshFollows
  <2>6. CASE ~moved /\ ~log /\ (searching \/ ~matches)
    <3>1. CASE matches
      BY <1>8, <2>6, <3>1 DEF ResourceUpdated, Follows, Due
    <3>2. CASE ~matches
      <4>1. Selected' = Selected
        BY <2>1, <3>2 DEF Selected, Selection, OnList, PanelTyped
      <4>2. ~OnList => Selected = None
        BY DEF OnList, Selected, Selection
      <4>3. Due' => Due /\ OnList
        BY <1>8, <2>6, <3>2, <4>1, <4>2 DEF ResourceUpdated, Due, view, timers, PanelTyped
      <4>4. OnList => ~changed
        BY <2>1, <3>2
      <4>5. /\ UNCHANGED <<content, describe, overtaken>>
            /\ OnList => fresh' = fresh /\ fetch' = fetch
        BY <1>8, <2>6, <3>2, <4>4 DEF ResourceUpdated
      <4> QED BY <2>1, <4>1, <4>3, <4>5 DEF Follows, view, OnValues, Awaited, Newest, IsShown
    <3> QED BY <3>1, <3>2
  <2>7. CASE ~moved /\ log
    BY <2>1, <2>7 DEF Follows, Due, view
  <2> QED BY <2>2, <2>3, <2>4, <2>5, <2>6, <2>7 DEF PanelTyped
<1>9. ASSUME NEW r, NamespaceSwitch(r) PROVE Follows'
  BY <1>9, RefreshFollows DEF NamespaceSwitch
<1>10. ASSUME NEW k, NEW r, Goto(k, r) PROVE Follows'
  BY <1>10, RefreshAndSyncFollows DEF Goto
<1>11. ASSUME NEW k, NEW r, Drill(k, r) PROVE Follows'
  BY <1>11, RefreshOrLogFollows DEF Drill
<1>12. ASSUME NEW m, View(m) PROVE Follows'
  BY <1>12, RefreshFollows DEF View
<1>13. CASE ViewLogs
  <2>1. CASE kind[focus] = "pods"
    BY <1>13, <2>1 DEF ViewLogs, Follows, Due
  <2>2. CASE kind[focus] # "pods"
    BY <1>13, <2>2, QuietFollows, StillSelected
    DEF ViewLogs, panes, showing, timers, history, Due
  <2> QED BY <2>1, <2>2
<1>14. CASE ClosePanel
  BY <1>14 DEF ClosePanel, Follows, Due
<1>15. CASE Pick
  BY <1>15, QuietFollows, StillSelected DEF Pick, panes, view, detail, timers, history, Due
<1>16. CASE RefreshKey
  BY <1>16, RefreshFollows DEF RefreshKey, Refresh
<1>17. CASE ContextSwitch
  <2>1. Selected' = None
    BY <1>17 DEF ContextSwitch, Selected, Selection, OnList, PanelTyped
  <2> QED BY <2>1 DEF Follows, Due
<1>18. ASSUME NEW rows, ReloadAll(rows) PROVE Follows'
  BY <1>18, RefreshFollows DEF ReloadAll
<1>19. ASSUME NEW s \in Slot, HelmValuesLoaded(s) PROVE Follows'
  <2> DEFINE r == fetch[s]
  <2>1. /\ UNCHANGED <<focus, kind, mode, describe>> /\ (Due' => Due)
        /\ Selected' = Selected
        /\ fetch' = [fetch EXCEPT ![s] = None] /\ r # None /\ r \in Request
    BY <1>19, StillSelected
    DEF HelmValuesLoaded, panes, view, timers, history, Due, InFlight, FetchTyped
  <2>2. /\ \A t \in Slot \ {s} : fetch'[t] = fetch[t]
        /\ fetch'[s] = None
    BY <2>1 DEF FetchTyped
  <2>3. Due => (OnList /\ OnValues => mode \in ValuesModes)
    BY DEF OnValues
  <2> DEFINE fits == OnValues /\ mode = r.mode /\ KeyOf[Selected] = KeyOf[r.of]
  <2>4. Due => OnList
    BY DEF Due, Selected, Selection, OnList
  <2>5. ASSUME Due, fits
        PROVE  /\ content' = r.of /\ overtaken' = ~r.newest
               /\ r.current => "content" \in fresh'
    BY <1>19, <2>4, <2>5 DEF HelmValuesLoaded, Due, OnValues
  <2>6. ASSUME Due, ~fits PROVE UNCHANGED <<content, overtaken, fresh>>
    BY <1>19, <2>1, <2>6 DEF HelmValuesLoaded, OnValues, Request
  <2>7. r.of \in Row /\ r.of # None
    BY <2>1, DetailAssumption DEF Request
  <2>8. SUFFICES ASSUME Due, Due' PROVE Follows'
    BY <2>1 DEF Follows
  <2>9. CASE mode = "describe" /\ describe = Selected /\ "describe" \in fresh
    <3>1. UNCHANGED <<content, overtaken, fresh>>
      BY <2>6, <2>8, <2>9 DEF OnValues, ValuesModes
    <3> QED BY <2>1, <2>9, <3>1 DEF Follows
  <2>10. ASSUME NEW t \in Slot, OnValues, Awaited(t) PROVE Follows'
    <3>1. CASE t # s
      BY <2>1, <2>2, <2>10, <3>1 DEF Follows, OnValues, Awaited, Newest
    <3>2. CASE t = s
      <4>1. fits /\ r.of = Selected /\ r.newest /\ r.current
        BY <2>10, <3>2 DEF Awaited, Newest
      <4>2. content' = Selected /\ "content" \in fresh' /\ mode # "describe"
        BY <2>5, <2>8, <2>10, <4>1 DEF OnValues, ValuesModes
      <4>3. \A x \in Slot : ~Newest(x)'
        BY <2>1, <2>2, <4>1 DEF Newest, FetchTyped
      <4> QED BY <2>1, <2>7, <4>1, <4>2, <4>3 DEF Follows, IsShown
    <3> QED BY <3>1, <3>2
  <2>11. CASE /\ IsShown
              /\ mode = "describe" => describe = None
              /\ OnValues => \A x \in Slot : ~Newest(x)
    <3>1. OnValues' = OnValues /\ (OnValues => \A x \in Slot : ~Newest(x)')
      BY <2>1, <2>2, <2>11 DEF OnValues, Newest
    <3>2. CASE fits
      <4>1. overtaken'
        BY <2>1, <2>5, <2>8, <2>11, <3>2 DEF Newest, Request
      <4>2. content' = r.of /\ KeyOf[r.of] = KeyOf[Selected]
        BY <2>5, <2>8, <3>2
      <4> QED BY <2>1, <2>7, <2>11, <3>1, <4>1, <4>2 DEF Follows, IsShown
    <3>3. CASE ~fits
      BY <2>1, <2>6, <2>8, <2>11, <3>1, <3>3 DEF Follows, IsShown
    <3> QED BY <3>2, <3>3
  <2> QED BY <2>8, <2>9, <2>10, <2>11 DEF Follows
<1>20. CASE DescribeLoaded
  <2>1. UNCHANGED <<focus, kind, mode, fetch>> /\ (Due' => Due) /\ Selected' = Selected
    BY <1>20, StillSelected DEF DescribeLoaded, panes, view, timers, history, Due
  <2>2. /\ describe # None /\ describe' = None
        /\ mode = "describe" =>
             content' = describe /\ ("describe" \in fresh => "content" \in fresh')
        /\ mode # "describe" => UNCHANGED <<content, fresh, overtaken>>
    BY <1>20 DEF DescribeLoaded
  <2>3. mode = "describe" => ~OnValues
    BY DEF OnValues, ValuesModes
  <2> QED BY <2>1, <2>2, <2>3 DEF Follows, OnValues, Awaited, Newest, IsShown
<1>21. CASE DescribeDiscarded
  BY <1>21, QuietFollows, StillSelected DEF DescribeDiscarded, panes, view, timers, history, Due
<1>22. CASE DescribeDebounceFired
  <2>1. CASE shown /\ ~log
    BY <1>22, <2>1, RefreshFollows DEF DescribeDebounceFired, Refresh
  <2>2. CASE ~(shown /\ ~log)
    BY <1>22, <2>2 DEF DescribeDebounceFired, view, Follows, Due
  <2> QED BY <2>1, <2>2
<1>23. ASSUME NEW ok, LogStreamReady(ok) PROVE Follows'
  BY <1>23, QuietFollows, StillSelected
  DEF LogStreamReady, panes, view, detail, timers, history, Due
<1>24. CASE LogStreamEnded
  BY <1>24, QuietFollows, StillSelected DEF LogStreamEnded, panes, view, detail, timers, history, Due
<1>25. CASE LogDebounceFired
  <2>1. UNCHANGED <<focus, sel, kind, mode, shown, log, content, describe, fetch, fresh,
                    overtaken>>
        /\ UNCHANGED <<debounce, strayed, frozen>>
    BY <1>25 DEF LogDebounceFired, panes, view, showing, history
  <2> QED BY <2>1, QuietFollows, StillSelected DEF Due
<1> QED
  BY <1>1, <1>2, <1>3, <1>4, <1>5, <1>6, <1>7, <1>8, <1>9, <1>10, <1>11, <1>12, <1>13, <1>14,
     <1>15, <1>16, <1>17, <1>18, <1>19, <1>20, <1>21, <1>22, <1>23, <1>24, <1>25
  DEF Next

\* When nothing is on its way, the detail view shows the selected object as it is
\* since its last change, whatever describes were asked before and come late, and
\* whatever fetches come in the order they were asked; values that come after newer
\* ones were asked for are of a release of the name and namespace selected
\* (App.refreshDetailPanelOpts, handleHelmValuesLoaded, DescribeLoadedMsg).
THEOREM ShownStaysSelected == Spec => []ShownIsSelected
<1>1. Init => ShownInv
  BY InitFollows
<1>2. ShownInv /\ [Next /\ Bounded]_vars => ShownInv'
  <2> SUFFICES ASSUME ShownInv, [Next /\ Bounded]_vars PROVE ShownInv'
    OBVIOUS
  <2>1. PanelTyped'
    BY NextTyped DEF ShownInv, PanelTyped, vars, panes, view, timers, history
  <2>2. Follows'
    BY <2>1, NextFollows
  <2>3. FetchTyped'
    BY <2>1, NextFetches DEF ShownInv, FetchTyped, Newest, vars, detail
  <2> QED BY <2>1, <2>2, <2>3 DEF ShownInv
<1>3. ShownInv => ShownIsSelected
  <2> SUFFICES ASSUME ShownInv, Quiet
               PROVE  /\ content # None /\ KeyOf[content] = KeyOf[Selected]
                      /\ ~overtaken => content = Selected /\ "content" \in fresh
    BY DEF ShownIsSelected
  <2>1. Due /\ describe = None /\ Selected # None /\ \A s \in Slot : ~Newest(s)
    BY DEF ShownInv, PanelTyped, Quiet, Due, InFlight, Newest
  <2> QED BY <2>1 DEF ShownInv, Follows, IsShown, Awaited
<1> QED BY <1>1, <1>2, <1>3, PTL DEF Spec
=============================================================================
