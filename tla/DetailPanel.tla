----------------------------- MODULE DetailPanel -----------------------------
(***************************************************************************)
(* What the right panel shows (internal/app: refreshDetailPanelOpts,       *)
(* syncLogPanel, startLogStream and the messages that answer them).  The   *)
(* panel is either the detail view, filled at once (YAML) or by a describe *)
(* or a fetch of helm values that runs beside the program, or the log      *)
(* view, filled by a stream.                                               *)
(* A describe and a stream carry the generation they were asked under; the *)
(* model keeps of a generation only whether it is the current one.  A fetch*)
(* of values carries none: its answer is taken for the release selected    *)
(* when it comes, if name, namespace and mode are the same.                *)
(*                                                                         *)
(* "fresh" remembers what was asked for after the selected object's last   *)
(* change ("content": what is shown, "describe": the describe in flight);  *)
(* what was asked for before it may show what the object was.              *)
(***************************************************************************)
EXTENDS Integers, FiniteSets

CONSTANTS
    Pane,      \* panes that are resource lists
    Row,       \* the objects they list
    RowsOf,    \* the objects each pane can list
    KeyOf,     \* detailKey of an object, its kind, namespace and name; objects of
               \* two clusters may share it
    Slot,      \* bound: the fetches of helm values in flight at once
    MaxLate,   \* superseded describes not answered yet
    MaxEvents, \* things users and the API server do, in all
    Elsewhere, \* the focus when it is on a terminal pane
    None

\* DetailValues and DetailValuesAll
ValuesModes == {"values", "all"}

\* A fetch of helm values: of what it is (the release, its namespace and the mode go
\* back with the answer), whether nothing changed and no other was asked since.
Request == [of : Row, mode : ValuesModes, current : BOOLEAN, newest : BOOLEAN]

ASSUME DetailAssumption ==
    /\ RowsOf \in [Pane -> SUBSET Row] /\ MaxLate \in Nat /\ MaxEvents \in Nat
    /\ Elsewhere \notin Pane /\ None \notin Row \cup Request /\ \A r \in Row : KeyOf[r] # None

VARIABLES
    focus, sel, kind,     \* the focused pane; the selected object and the plugin of each pane
    shown, log, mode,     \* RightPanelVisible, IsLogMode, DetailView.mode
    lastKey,              \* App.lastDetailKey
    content, loading,     \* the object the detail view shows, and its spinner
    describe, late,       \* the object the current generation's describe is of, and
                          \* those of describes that are superseded and not answered
    fetch,                \* the fetches of values in flight
    debounce,             \* a DescribeDebounceFiredMsg of the current sequence is coming
    stream, cancel,       \* the stream of the current generation; logStreamCancel is set
    ch, unavailable,      \* logCh is set; LogView.unavailable
    logTimer,             \* a LogDebounceFiredMsg of the current sequence is coming
    fresh,                \* history: what was asked for since the last change
    overtaken,            \* history: what is shown are values that came after others
                          \* had been asked for
    strayed,              \* history: the focus or the cursor moved, and no refresh since
    frozen,               \* history: a change came while a search froze the panel
    orphan,               \* history: a stream was replaced that nobody can cancel
    events                \* how much has happened

panes == <<focus, sel, kind>>
view == <<shown, log, mode>>
detail == <<lastKey, content, loading, describe, late, fetch, fresh, overtaken>>
showing == <<content, loading, describe, late, fetch, fresh, overtaken>>
logs == <<stream, cancel, ch, unavailable, orphan>>
timers == <<debounce, logTimer>>
history == <<strayed, frozen>>
vars == <<panes, view, detail, logs, timers, history, events>>

Live == {"opening", "open"}

InFlight == {s \in Slot : fetch[s] # None}

OnList == focus \in Pane
Selection(f, s) == IF f \in Pane THEN s[f] ELSE None
Selected == Selection(focus, sel)
Selected1 == Selection(focus', sel')
KeyOrNone(r) == IF r = None THEN None ELSE KeyOf[r]

Init ==
    /\ focus \in Pane /\ sel = [p \in Pane |-> None] /\ kind \in [Pane -> {"pods", "helm"}]
    /\ shown = FALSE /\ log = FALSE /\ mode = "yaml" /\ lastKey = None
    /\ content = None /\ loading = FALSE /\ describe = None /\ late = {}
    /\ fetch = [s \in Slot |-> None]
    /\ debounce = FALSE /\ logTimer = FALSE
    /\ stream = "none" /\ cancel = FALSE /\ ch = FALSE /\ unavailable = FALSE
    /\ fresh = {} /\ overtaken = FALSE /\ strayed = FALSE /\ frozen = FALSE /\ orphan = FALSE /\ events = 0

Happens == events < MaxEvents /\ events' = events + 1

-----------------------------------------------------------------------------
(* The helpers: they read where the action leaves focus, sel, kind and     *)
(* view, and say what becomes of the detail view and of the log stream.    *)

Superseded == IF describe = None THEN late ELSE late \cup {describe}

\* The fetches in flight once something changed.
Outdated == [s \in Slot |-> IF fetch[s] = None THEN None
                           ELSE [fetch[s] EXCEPT !.current = FALSE]]

\* One more is asked for.
Asked(before) ==
    LET free == CHOOSE s \in Slot : fetch[s] = None
    IN  [s \in Slot |->
           IF s = free
             THEN [of |-> Selected1, mode |-> mode', current |-> TRUE, newest |-> TRUE]
           ELSE IF before[s] = None THEN None
           ELSE [before[s] EXCEPT !.newest = FALSE]]

\* refreshDetailPanelOpts, from the key, the content, the freshness and the fetches
\* the action left.  Bound: there is a slot for one more fetch.
RefreshFrom(key, shownBefore, freshBefore, fetchBefore) ==
    IF log' \/ ~shown' \/ Selected1 = None
    THEN /\ lastKey' = key /\ content' = shownBefore /\ fresh' = freshBefore
         /\ fetch' = fetchBefore
         /\ UNCHANGED <<loading, describe, late, overtaken>>
    ELSE /\ lastKey' = KeyOf[Selected1]
         /\ \/ /\ mode' = "yaml" \/ (mode' \in ValuesModes /\ kind'[focus'] # "helm")
               /\ content' = Selected1 /\ fresh' = freshBefore \cup {"content"}
               /\ overtaken' = FALSE /\ fetch' = fetchBefore
               /\ loading' = FALSE /\ UNCHANGED <<describe, late>>
            \/ /\ mode' \in ValuesModes /\ kind'[focus'] = "helm"
               /\ InFlight # Slot /\ fetch' = Asked(fetchBefore)
               /\ content' = None /\ fresh' = freshBefore \ {"content"}
               /\ overtaken' = FALSE
               /\ loading' = FALSE /\ UNCHANGED <<describe, late>>
            \/ /\ mode' = "describe"
               /\ content' = shownBefore /\ fresh' = freshBefore \cup {"describe"}
               /\ loading' = TRUE /\ describe' = Selected1 /\ late' = Superseded
               /\ fetch' = fetchBefore /\ UNCHANGED overtaken

Refresh == RefreshFrom(lastKey, content, fresh, fetch)

\* Mutant: forgets to cancel.
StopStreamUncancelled == stream' = "none" /\ cancel' = FALSE /\ ch' = FALSE
                         /\ orphan' = (orphan \/ stream \in Live)

\* stopLogStream: the generation moves on, whatever the old stream still says.
StopStream == stream' = "none" /\ cancel' = FALSE /\ ch' = FALSE
              /\ orphan' = (orphan \/ (stream \in Live /\ ~cancel))

\* startLogStream, which first stops; a manifest pane has no client.
StartStream ==
    \/ StopStream
    \/ /\ stream' = "opening" /\ cancel' = TRUE /\ ch' = FALSE
       /\ orphan' = (orphan \/ (stream \in Live /\ ~cancel))

\* restartLogForCursor; an object without containers leaves the stream as it is.
RestartLog ==
    IF Selected1 = None
    THEN lastKey' = lastKey /\ UNCHANGED <<stream, cancel, ch, orphan>>
    ELSE lastKey' = KeyOf[Selected1] /\ (StartStream \/ UNCHANGED <<stream, cancel, ch, orphan>>)

\* syncLogPanel in log mode; logTimer and the detail view stay.
SyncLog ==
    CASE focus' \notin Pane -> UNCHANGED <<lastKey, logs>>
      [] focus' \in Pane /\ kind'[focus'] = "helm" ->
           StopStream /\ unavailable' = TRUE /\ UNCHANGED lastKey
      [] focus' \in Pane /\ kind'[focus'] = "pods" /\ unavailable /\ Selected1 # None ->
           unavailable' = FALSE /\ RestartLog
      [] OTHER -> UNCHANGED <<lastKey, logs>>

\* refreshDetailPanel, then syncLogPanel: one of the two has something to do.
RefreshAndSync ==
    IF log' THEN SyncLog /\ UNCHANGED showing
    ELSE Refresh /\ UNCHANGED logs

\* refreshDetailPanelOrLog: in log mode the stream restarts after a pause.
RefreshOrLog(key, freshBefore, fetchBefore) ==
    IF log'
    THEN /\ StopStream /\ logTimer' = TRUE /\ lastKey' = key
         /\ fresh' = freshBefore /\ fetch' = fetchBefore
         /\ UNCHANGED <<content, loading, describe, late, overtaken, unavailable>>
    ELSE RefreshFrom(key, content, freshBefore, fetchBefore) /\ UNCHANGED <<logs, logTimer>>

Settled == strayed' = FALSE /\ frozen' = FALSE

-----------------------------------------------------------------------------
(* Moving about.                                                           *)

\* The cursor keys, and a click on a row of this or of another pane.
Choose(p, r) ==
    /\ Happens /\ r \in RowsOf[p] /\ (p # focus \/ r # sel[p])
    /\ focus' = p /\ sel' = [sel EXCEPT ![p] = r]
    /\ UNCHANGED <<kind, view, debounce>>
    /\ RefreshOrLog(lastKey, fresh, fetch) /\ Settled

\* The keys that move the focus among panes, and opening a pane.
FocusPane(p) ==
    /\ Happens /\ focus' = p
    /\ UNCHANGED <<sel, kind, view, timers>>
    /\ RefreshAndSync
    /\ IF p \in Pane THEN Settled ELSE strayed' = TRUE /\ UNCHANGED frozen

\* A click beside the rows, the prefix keys of a terminal, and closing the
\* focused pane, which all move the focus and do no more.
Stray(p) ==
    /\ Happens /\ p # focus /\ focus' = p /\ strayed' = TRUE
    /\ UNCHANGED <<sel, kind, view, detail, logs, timers, frozen>>

\* The wheel over a pane, and marking a row: the cursor moves, and the panel does
\* not follow it.
Wheel(p, r) ==
    /\ Happens /\ r \in RowsOf[p] /\ r # sel[p]
    /\ sel' = [sel EXCEPT ![p] = r] /\ strayed' = (strayed \/ p = focus)
    /\ UNCHANGED <<focus, kind, view, detail, logs, timers, frozen>>

\* goto-<resource>: another plugin in the pane, with the rows the store has.
Goto(k, r) ==
    /\ Happens /\ OnList
    /\ kind' = [kind EXCEPT ![focus] = k] /\ sel' = [sel EXCEPT ![focus] = r]
    /\ UNCHANGED <<focus, view, timers>>
    /\ RefreshAndSync /\ Settled

\* Drilling in and popping back.
Drill(k, r) ==
    /\ Happens /\ OnList /\ sel[focus] # None
    /\ kind' = [kind EXCEPT ![focus] = k] /\ sel' = [sel EXCEPT ![focus] = r]
    /\ UNCHANGED <<focus, view, debounce>>
    /\ RefreshOrLog(lastKey, fresh, fetch) /\ Settled

\* Stepping to a match, changing and clearing a search of the list: the cursor
\* may move, and the log stream is left alone.
Search(r) ==
    /\ Happens /\ OnList /\ r \in RowsOf[focus]
    /\ sel' = [sel EXCEPT ![focus] = r]
    /\ UNCHANGED <<focus, kind, view, timers, logs>>
    /\ Refresh /\ Settled

-----------------------------------------------------------------------------
(* Opening and closing the panel.                                          *)

\* view-yaml, view-describe and the two views of helm values; SetMode empties
\* the view.
View(m) ==
    /\ Happens /\ Selected # None /\ (m \in ValuesModes => kind[focus] = "helm")
    /\ StopStream /\ log' = FALSE /\ shown' = TRUE /\ mode' = m
    /\ UNCHANGED <<panes, timers, unavailable>>
    /\ RefreshFrom(None, None, {}, fetch) /\ Settled

\* view-logs; anything but pods and containers has none.
ViewLogs ==
    /\ Happens /\ Selected # None
    /\ UNCHANGED <<panes, mode, showing, timers, unavailable>>
    /\ IF kind[focus] = "pods"
       THEN log' = TRUE /\ shown' = TRUE /\ RestartLog /\ Settled
       ELSE lastKey' = None /\ UNCHANGED <<shown, log, stream, cancel, ch, orphan, history>>

\* closeRightPanel
ClosePanel ==
    /\ Happens /\ shown
    /\ StopStream /\ log' = FALSE /\ shown' = FALSE /\ lastKey' = None
    /\ UNCHANGED <<panes, mode, showing, timers, unavailable, history>>

\* The container picker and the time range picker: the stream of what is
\* selected now starts over.
Pick ==
    /\ Happens /\ log
    /\ IF Selected = None THEN UNCHANGED <<stream, cancel, ch, orphan>> ELSE StartStream
    /\ UNCHANGED <<panes, view, detail, timers, unavailable, history>>

\* refresh-detail, uncovering secrets, and the end of an edit of helm values.
RefreshKey ==
    /\ Happens /\ shown /\ ~log
    /\ UNCHANGED <<panes, view, timers, logs>> /\ Refresh /\ Settled

-----------------------------------------------------------------------------
(* Namespace, context and reload.  What was read before is of another      *)
(* object now, even under the same key.                                    *)

\* handleNamespaceSwitch
NamespaceSwitch(r) ==
    /\ Happens /\ OnList
    /\ sel' = [sel EXCEPT ![focus] = r]
    /\ log' = (log /\ kind[focus] = "pods")
    /\ unavailable' = (unavailable \/ log') /\ StopStream
    /\ UNCHANGED <<focus, kind, shown, mode, timers>>
    /\ RefreshFrom(lastKey, content, {}, Outdated) /\ Settled

\* handlePaneContextSwitch; the rows come back with ClusterReady.
ContextSwitch ==
    /\ Happens /\ OnList
    /\ sel' = [sel EXCEPT ![focus] = None] /\ log' = FALSE /\ StopStream
    /\ fresh' = {} /\ fetch' = Outdated
    /\ UNCHANGED <<focus, kind, shown, mode, lastKey, content, loading, describe, late,
                   overtaken, timers, unavailable, history>>

ClusterReady(p, r) ==
    /\ Happens /\ sel[p] = None
    /\ sel' = [sel EXCEPT ![p] = r]
    /\ UNCHANGED <<focus, kind, view, timers, logs>>
    /\ Refresh /\ IF OnList THEN Settled ELSE UNCHANGED history

\* reloadAll
ReloadAll(rows) ==
    /\ Happens /\ sel' = rows /\ StopStream
    /\ log' = (shown /\ log) /\ unavailable' = (unavailable \/ log')
    /\ UNCHANGED <<focus, kind, shown, mode, timers>>
    /\ RefreshFrom(lastKey, content, {}, Outdated) /\ IF OnList THEN Settled ELSE UNCHANGED history

-----------------------------------------------------------------------------
(* What is not asked for.                                                  *)

\* ResourceUpdatedMsg: the rows of a pane change, and with them, perhaps, the
\* one at its cursor ("changed": that object itself).  A message of another
\* pane's resource may concern the same kind of object ("related"); a search in
\* the list or in the panel ("searching") freezes what is shown.
ResourceUpdated(p, r, changed, related, searching) ==
    LET key == KeyOrNone(Selected1)
        moved == shown /\ OnList /\ key # lastKey
        matches == OnList /\ (p = focus \/ related)
        before == IF changed THEN {} ELSE fresh
        asked == IF changed THEN Outdated ELSE fetch
    IN
    /\ Happens /\ sel' = [sel EXCEPT ![p] = r] /\ (changed => p = focus)
    /\ UNCHANGED <<focus, kind, view>>
    /\ \/ /\ moved /\ key = None
          /\ lastKey' = None /\ fresh' = before /\ fetch' = asked
          /\ IF log THEN StopStream /\ UNCHANGED <<content, overtaken>>
             ELSE /\ content' = None /\ overtaken' = FALSE
                  /\ UNCHANGED <<stream, cancel, ch, orphan>>
          /\ UNCHANGED <<loading, describe, late, timers, unavailable, history>>
       \/ /\ moved /\ key # None
          /\ RefreshOrLog(key, before, asked) /\ UNCHANGED debounce /\ Settled
       \/ /\ ~moved /\ ~log /\ ~searching /\ matches /\ mode = "describe"
          /\ debounce' = TRUE /\ fresh' = before /\ fetch' = asked
          /\ UNCHANGED <<lastKey, content, loading, describe, late, overtaken, logs, logTimer,
                         history>>
       \/ /\ ~moved /\ ~log /\ ~searching /\ matches /\ mode # "describe"
          /\ RefreshFrom(lastKey, content, before, asked) /\ Settled /\ UNCHANGED <<logs, timers>>
       \/ /\ ~moved /\ ~log /\ (searching \/ ~matches)
          /\ frozen' = (frozen \/ matches) /\ fresh' = before /\ fetch' = asked
          /\ UNCHANGED <<lastKey, content, loading, describe, late, overtaken, logs, timers,
                         strayed>>
       \/ /\ ~moved /\ log /\ fresh' = before /\ fetch' = asked
          /\ IF ch THEN UNCHANGED <<lastKey, logs>> ELSE SyncLog
          /\ UNCHANGED <<content, loading, describe, late, overtaken, timers, history>>

\* Mutant: an answer to a hidden panel is dropped.
DescribeLoadedIfShown ==
    /\ describe # None /\ describe' = None
    /\ IF mode = "describe" /\ shown
       THEN /\ content' = describe /\ loading' = FALSE /\ fresh' = fresh \cup {"content"}
            /\ overtaken' = FALSE
       ELSE UNCHANGED <<content, loading, fresh, overtaken>>
    /\ UNCHANGED <<panes, view, lastKey, late, fetch, logs, timers, history, events>>

\* DescribeLoadedMsg of the current generation; an error is shown as well.
DescribeLoaded ==
    /\ describe # None /\ describe' = None
    /\ IF mode = "describe"
       THEN /\ content' = describe /\ loading' = FALSE /\ overtaken' = FALSE
            /\ fresh' = IF "describe" \in fresh THEN fresh \cup {"content"} ELSE {}
       ELSE UNCHANGED <<content, loading, fresh, overtaken>>
    /\ UNCHANGED <<panes, view, lastKey, late, fetch, logs, timers, history, events>>

\* Mutant: the generation is not compared.
DescribeDiscardedShown ==
    /\ \E d \in late : late' = late \ {d} /\ content' = IF mode = "describe" THEN d ELSE content
    /\ UNCHANGED <<panes, view, lastKey, loading, describe, fetch, fresh, overtaken, logs,
                   timers, history, events>>

\* DescribeLoadedMsg of a generation that has passed.
DescribeDiscarded ==
    /\ \E d \in late : late' = late \ {d}
    /\ UNCHANGED <<panes, view, lastKey, content, loading, describe, fetch, fresh, overtaken, logs,
                   timers, history, events>>

\* handleHelmValuesLoaded: the release, its namespace and the mode are compared, and
\* neither when it was asked nor on which cluster.  An error is shown as well.
HelmValuesLoaded(s) ==
    LET r == fetch[s]
        fits == /\ shown /\ ~log /\ mode = r.mode
                /\ OnList /\ kind[focus] = "helm"
                /\ Selected # None /\ KeyOf[Selected] = KeyOf[r.of]
    IN
    /\ s \in InFlight /\ fetch' = [fetch EXCEPT ![s] = None]
    /\ IF fits
       THEN /\ content' = r.of /\ overtaken' = ~r.newest
            /\ fresh' = IF r.current THEN fresh \cup {"content"} ELSE fresh \ {"content"}
       ELSE UNCHANGED <<content, overtaken, fresh>>
    /\ UNCHANGED <<panes, view, lastKey, loading, describe, late, logs, timers, history, events>>

DescribeDebounceFired ==
    /\ debounce /\ debounce' = FALSE
    /\ UNCHANGED <<panes, view, logs, logTimer, events>>
    /\ IF shown /\ ~log
       THEN Refresh /\ IF OnList THEN Settled ELSE UNCHANGED history
       ELSE UNCHANGED <<detail, history>>

\* LogStreamReadyMsg; a failed one was cancelled where it failed.
LogStreamReady(ok) ==
    /\ stream = "opening"
    /\ IF ok THEN stream' = "open" /\ ch' = TRUE /\ UNCHANGED cancel
       ELSE stream' = "none" /\ cancel' = FALSE /\ UNCHANGED ch
    /\ UNCHANGED <<panes, view, detail, orphan, unavailable, timers, history, events>>

LogStreamEnded ==
    /\ stream = "open" /\ stream' = "ended" /\ ch' = FALSE
    /\ UNCHANGED <<panes, view, detail, cancel, orphan, unavailable, timers, history, events>>

LogDebounceFired ==
    /\ logTimer /\ logTimer' = FALSE
    /\ UNCHANGED <<panes, view, debounce, showing, unavailable, history, events>>
    /\ IF log /\ OnList /\ kind[focus] = "pods" THEN RestartLog
       ELSE UNCHANGED <<lastKey, stream, cancel, ch, orphan>>

Next ==
    \/ \E p \in Pane : \E r \in RowsOf[p] : Choose(p, r) \/ Wheel(p, r) \/ (p = focus /\ Search(r))
    \/ \E p \in Pane \cup {Elsewhere} : FocusPane(p) \/ Stray(p)
    \/ \E p \in Pane : \E r \in RowsOf[p] \cup {None} :
          \/ ClusterReady(p, r)
          \/ \E changed, related, searching \in BOOLEAN :
                ResourceUpdated(p, r, changed, related, searching)
          \/ p = focus /\ (NamespaceSwitch(r) \/ \E k \in {"pods", "helm"} : Goto(k, r) \/ Drill(k, r))
    \/ \E m \in {"yaml", "describe"} \cup ValuesModes : View(m)
    \/ ViewLogs \/ ClosePanel \/ Pick \/ RefreshKey
    \/ ContextSwitch
    \/ \E rows \in [Pane -> Row \cup {None}] :
          (\A p \in Pane : rows[p] \in RowsOf[p] \cup {None}) /\ ReloadAll(rows)
    \/ \E s \in Slot : HelmValuesLoaded(s)
    \/ DescribeLoaded \/ DescribeDiscarded \/ DescribeDebounceFired
    \/ \E ok \in BOOLEAN : LogStreamReady(ok)
    \/ LogStreamEnded \/ LogDebounceFired

Bounded == Cardinality(late') <= MaxLate

Spec == Init /\ [][Next /\ Bounded]_vars

\* Describes and fetches have a deadline, sleeps end, and the program takes every message.
FairSpec ==
    /\ Spec
    /\ WF_vars(DescribeLoaded) /\ WF_vars(DescribeDiscarded) /\ WF_vars(DescribeDebounceFired)
    /\ \A s \in Slot : WF_vars(HelmValuesLoaded(s))
    /\ WF_vars(LogDebounceFired) /\ WF_vars(\E ok \in BOOLEAN : LogStreamReady(ok))

-----------------------------------------------------------------------------
TypeOK ==
    /\ focus \in Pane \cup {Elsewhere}
    /\ \A p \in Pane : sel[p] \in RowsOf[p] \cup {None}
    /\ content \in Row \cup {None} /\ describe \in Row \cup {None} /\ late \subseteq Row
    /\ fetch \in [Slot -> Request \cup {None}]
    /\ stream \in {"none", "opening", "open", "ended"}
    /\ log => shown

\* Nothing is on its way to the detail view, which is on the screen with an object
\* selected; and neither was the focus or the cursor moved without a refresh, nor
\* the view frozen by a search.
Quiet == /\ shown /\ ~log /\ Selected # None
         /\ describe = None /\ InFlight = {} /\ ~debounce /\ ~strayed /\ ~frozen

\* At rest the detail view shows the object selected in the focused list, as it is
\* since its last change, whatever was asked for before and comes late: describes
\* by their generation, values by what they are of.  The exception are values that
\* came after others were asked for: of them, it is of a release of that name and
\* namespace, maybe before the change or on another cluster.
ShownIsSelected ==
    Quiet => /\ content # None /\ KeyOf[content] = KeyOf[Selected]
             /\ ~overtaken => content = Selected /\ "content" \in fresh

\* What the comment of handleHelmValuesLoaded says, "Stale messages are dropped":
\* without the exception.
StaleValuesAreDropped ==
    Quiet => content = Selected /\ "content" \in fresh

\* A log stream that is opening or open can be cancelled, and there is none
\* unless the log view is on the screen.
StreamsAreOwned ==
    /\ ~orphan
    /\ stream \in Live => cancel /\ log /\ shown
    /\ ch <=> stream = "open"

\* Once things stop happening the panel comes to rest: no spinner, no describe
\* and no restart of a stream is outstanding.
AtRest == ~loading /\ describe = None /\ late = {} /\ InFlight = {} /\ ~debounce /\ ~logTimer
          /\ stream # "opening"
PanelSettles == <>[]AtRest
=============================================================================
