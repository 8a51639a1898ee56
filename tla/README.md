# A TLA+ model of aku

aku is a terminal user interface for Kubernetes: split panes over several
clusters, rows kept current by informers, embedded shells, debug containers.
Its core is a Bubble Tea program: one **Update goroutine** takes keys and
messages one at a time and is the only writer of the `App`; everything slow runs
in commands and goroutines beside it and comes back as a message, in any order.
Nothing is persisted. What is hard here is therefore not parallel writes but
*late* messages, state read when a command is started and used when it runs, and
shared things (clusters, informers, shells, debug pods) that many panes refer to
and that must live exactly as long as they are needed.

## Inventory

| Component | Code (under `src/internal` unless said) | State | Operations | Correct when |
|---|---|---|---|---|
| Cluster session manager | `cluster/manager.go`, `cluster/cluster.go`, `app/panefooters.go` | clusters by context, pinned contexts | GetOrCreate, Dial, RegisterConnected, SyncRefs, RegisterPinned | a cluster lives exactly while a pane refers to it |
| Context switching | `app/commands.go`, `app/app.go` | context, rows and offline marker of each pane | pane and group switch, ClusterReadyMsg, split, close, reload, heartbeat | panes never show another or a gone cluster; every cluster is probed |
| Store and informers | `k8s/store.go`, `k8s/debounce.go` | buckets, informers, timers | Subscribe, Unsubscribe, UnsubscribeAll, List, handlers, doNotify | rows become current; the store can stop what runs, and has when its cluster goes; no pane is cut off |
| Drill-down navigation | `ui/navstack.go`, `ui/resourcelist.go`, `app/app.go`, `app/commands.go` | stack of views and floor of each pane | goto, drill, back, split, namespace and context switch | what back leads to is still fed; what is left is released |
| Detail panel, describe | `app/app.go`, `ui/detailview.go`, `ui/ansisplit.go` | generations, debounces, what is loading and shown; text, filter, matches, wrapping | describe, helm values, view modes, DescribeLoadedMsg; search, wrap, scroll | shows the selected object; highlights are the matches |
| Log streaming | `k8s/logs.go`, `ui/logview.go`, `ui/ringbuffer.go`, `app/app.go` | channel, cancel, generation; ring buffer, filter, matches | start, ready, end, stop, restart; line, filter, search, wrap | one stream, owned; filter, matches and rows are those of the buffer |
| Embedded terminals | `k8s/session/terminal.go`, `k8s/exec.go`, `ui/terminalpane.go`, `app/app.go` | registry, metadata, panes, output channel; prefix, scrollback, cursor | open, close, read, exit, graceful end, quit; keys, wheel, zoom | output flows until the exit; shells end; keys reach the program |
| Debug pre-flights | `k8s/debug.go`, `app/app.go` | pod or ephemeral container being prepared | create, wait, cancel, delete, DebugReadyMsg | no pod is forgotten |
| Layout | `layout/layout.go`, `app/commands.go` | panes, focus, zoom, right panel, rectangles | add, close, move, focus, zoom, resize, click | one cursor, on something that exists; a click hits what is drawn |
| Tables and sorting | `table/table.go`, `ui/resourcelist.go`, `ui/sort.go` | rows, cursor, window, marks, search, filter | move, refresh, sort, mark, search, filter, resize | the cursor is seen, and stays on its object |
| Overlays, confirmations | `app/app.go`, `ui/overlay.go`, `ui/confirmdialog.go`, `ui/helmrollback.go` | active overlay, pending actions | ask, confirm, cancel, submit | what is confirmed is what runs |
| Pickers and forms | `ui/overlay_panel.go`, `ui/picker.go`, `ui/fuzzymatch.go`, `ui/portforward.go`, `ui/scale.go`, `ui/setimage.go` | lists, inputs, buttons, focus | type, move, submit | keys go where the focus is drawn; what is sent is what was shown |
| Key bindings, help | `config/keytrie.go`, `config/binding.go`, `ui/helpoverlay.go` | position in a trie, hints, help | press, reset, search, scroll | a sequence runs its command; help lists it |
| Search bar | `ui/searchbar.go`, `ui/searchstate.go`, `app/commands.go` | mode, text, pattern of each pane | open, type, enter, escape, debounced apply | the pane is searched for what the bar shows |
| Port forwards | `portforward/registry.go`, `k8s/portforward.go`, `app/commands.go` | entries with status, handles | request, dial, add, ready, end, delete | registry and tunnels agree |
| Notifications | `notify/store.go`, `ui/toaststack.go`, `plugins/notifications` | bounded list, timers, dismissed ids | add, expire, clear, list | toasts leave, and stay gone |
| Editor | `k8s/edit.go`, `helm/editvalues.go`, `editor/editor.go` | base, hash, file | edit, cancel, send, refetch | only the user's changes are sent, over what the user saw |
| Discovery, plugin registry | `k8s/discovery.go`, `plugin/registry.go`, `app/collision.go`, `ui/resourcepicker.go` | index per cluster, names, short names | refresh, register, pick | a row opens what it says; names keep their meaning |
| Manifest mode | `manifest/*.go` | a static store | load, parse, synthesise, reload | every object is listed where live ones would be |
| Mutations, helm | `k8s/{scale,setimage,restart}.go`, `helm/*.go` | none of their own | API and library calls | (external) |
| Emulator, plugins, rendering, configuration, CLI, kubeconfig | `ui/emulator.go`, `plugins/*`, `render/*`, `config/*`, `cluster/discover.go`, `src/cmd` | | formatting, parsing, process I/O | (not state machines) |

They meet in four places. The App calls the Manager (`Dial` off the Update
goroutine, `RegisterConnected` and `SyncRefs` on it); `SyncRefs` ends a Cluster
and with it its Store (`UnsubscribeAll`). The App calls the Store (`Subscribe`,
`Unsubscribe`, `List`) and the Store sends `ResourceUpdatedMsg` back. The App
starts sessions and pre-flights, which answer with `TermBytesMsg`, `TermExitMsg`
and `DebugReadyMsg`. Panes of the Layout are what all of them count. What these
meetings need of the other side is in the module that has the meeting:
`ClusterSessions` has the terminals of panes, `InformerStore` the panes a store
feeds, `Navigation` the informers of every level, `DetailPanel` the describes and
log streams, `Overlays` the focus and cluster an answer is looked up with.

## Modules

### `ClusterSessions`

The Manager and the panes. Variables and the code: `ctx` is the context of each
split or terminal pane, `term` the `*ui.TerminalPane`s, `preflight` those that
still show the placeholder, `feed` what the list was filled from (`SetObjects`
and `Subscribe` with a store, or the missing-resource verdict), `offline` the
`SetOffline` marker, `focus` the focused pane, `live` the keys of
`Manager.clusters` with a client, `discovered` those whose `Discovery` is
loaded, `dials` and `beats` the `asyncConnectCmd`s and `heartbeatCmd`s in flight.
One action per handler: `PaneSwitch`, `PaneSwitchPinned` (handlePaneContextSwitch,
switchPaneToPinned), `GroupSwitch`, `GroupSwitchPinned`, `ClusterReady` and
`ClusterReadyFailed` (handleClusterReady), `ClusterHealth`, `Split`,
`OpenTerminal`, `DebugReady`, `DebugFailed`, `CloseSplit`, `Focus`, `Repopulate`,
`ReloadAll`. `Reconcile` is `SyncRefs(distinctPaneContexts())`, `SyncOffline` is
`syncPaneFooters`. Where a handler does not call one of them, neither does its
action: that is where the findings of this module come from.

Abstracted: rows are "fed", "missing" or "none"; which resource a pane lists is
left out but for `Lacking`; a dial does nothing before its message; quitting
with the last split is left out. A terminal opens only from a list that shows rows
of a connected cluster, as the key needs a selected row and a client.

### `InformerStore`

One Store, the panes it feeds, and client-go behind it. `informers`, `cache` and
`timers` are `Store.informers`, `Store.cache` and `Debouncer.timers`; `job` is
`runInformer` with its reflector (`known`, `queue`) and its handler goroutine
(`pending` between the cache write and `Trigger`); `mail` are the
`ResourceUpdatedMsg`s sent and not handled; `watch` and `shown` are the key and
the rows of each pane; `describing` are describe commands that will subscribe to
the events of a namespace; `attached` says that the Manager still has the
cluster. `Goto`, `Leave`, `Reload`, `ResourceUpdated`, `Describe` run on the
Update goroutine; `DescribeRuns`, `Handle`, `Handled`, `Synced`, `Stopped` and
`Fire` do not. `Resubscribe` composes `Unsubscribe`, `UnsubscribeAll` and
`Subscribe`. A cancelled informer stops later, and what is queued until then is
still handled; `tainted` is a history variable that remembers which buckets such
a late event wrote to. `DescribeRuns` subscribes on the store its command was started
with, whether or not the Manager still has it; `outlived` remembers the keys it
subscribed to when the Manager had none. `Change`, `Listed`, `Notice` and `Resync` stand
for the API server and client-go, modelled from how `runInformer` uses them: a list
delivers every object in some order, a watch delivers differences, a resync
repeats known objects.

A timer that is restarted by `Trigger` is a timer that is still pending, so a
restart is no step. `Leave` with and without unsubscription covers closing a
split, a group switch and a switch of one pane.

### `TerminalSessions`

Terminals of three kinds: exec, pod-debug (ephemeral container) and node-debug
(a pod this program creates). `terminals` and `termCleanup` are the App's maps,
`named` the metadata whose `podName` is known, `layout` and `exited` the panes,
`preflight` the state of `PrepareNodeDebug` or `PrepareEphemeralDebug` and of
its message, `pod` the node-debug pod, `stream`, `out` and `closer` the session
(`StreamWithContext`, the output channel, the goroutine started by
`closeTerminalSession`), `read` the `readTermBytes` command. Closing the last
split (`CloseLastTerminal`), the failure that freezes a last pane (`FailPane`),
quit and exit are separate actions, since the code treats them differently. A
process that has quit still handles the messages queued before `QuitMsg`. `Exit` can
come before a cancelled pre-flight has deleted its pod, as `shutdownTerminals` waits
for its own deletions only.

Abstracted: bytes are counted in chunks; input, resizing and the prefix keys are
left out; cancelling a pre-flight makes its failure possible, which it is anyhow.

### `LastLines`, `RingBuffer`, `LogView`

The log panel. `RingBuffer` is `DualRingBuffer` slot by slot: `Add` is `Append`,
`RingReset` is `Reset`, `PhysIdx`, `Get` and `Slice` are the readers, the parallel
arrays being one array of lines. `LastLines` is what it promises: a sequence of
at most `Capacity` lines that drops its first; `KeepsTheLast` says that the ring
implements it, with `lines <- All`.

`LogView` EXTENDS the ring with the panel: `filter` and `search` are
`filterState` and `searchState`, the other variables have the names of the
fields of `LogView`, `width` and `height` are those of the viewport inside the
border and under the header, and `crashed` stands for a panic. One action per
method; `ScrollUp` and `ScrollDown` with `n = height` are `PageUp` and `PageDown`.
`UpdateViewport` is the last thing nearly every method does and is part of each
action. `Track` is what `AppendLine` and `InsertMarker` share: the ring, the
filtered indices with their offset, the count of wrapped rows, all changed by
differences.

What a filter or a search leaves is defined by sets of positions and read in
ascending order (`RowsIn`, `Ascending`); the methods append to it, drop from its
front and shift it, as the code does.

Abstracted: a pattern is a set of lines, each matched at most once, at
`Column[l]`; a line has a width and no bytes; colours, the horizontal offset and
the text of the title are left out. The viewport has at least one line and one
column. A server is assumed not to send a line that looks like a marker. A
pattern that does not compile changes nothing and is no step.

### `Navigation`

Where each pane is and how it came there, over several clusters at once.
`pane[p]` is a `ResourceList`: kind, namespace, context, rows and the `NavStack`
with its `floor`; `subs` are the informers of every store, `live` the connected
contexts, `dials` those that are being dialed. `Goto`, `Drill`, `Escape`, `Split`,
`Close`, `NamespaceSwitch`, `PaneSwitch` and `GroupSwitch` are the handlers of
`commands.go`; `UnusedAnywhere` and `UnusedOn` are what they ask before they
unsubscribe, `RefreshKeys` and `Resolves` how a drilled level is filled again. The
store's inside is `InformerStore`, the dial's `ClusterSessions`: here a subscribed
bucket has rows, and a dial comes back connected or failed.

### `DetailPanel`, `DetailText`

`DetailPanel` is what the right panel was asked for and what comes back:
`refreshDetailPanelOpts`, `syncLogPanel`, `startLogStream`, the debounces and the
four messages that answer. Of `describeGen` and `streamGen` the model keeps which
answer in flight is the current one. A fetch of helm values has no generation in the
code: `fetch` has a slot for each one in flight, with the release and mode its message
will carry, and `HelmValuesLoaded` takes any of them whose key and mode are those of
now, on whatever cluster it was asked. `fresh` is a history variable: whether the
description in flight, or what is shown, was asked for after the object last changed;
`overtaken` records that the values shown came after others had been asked for. Two
panes list objects with the same `detailKey`, which for releases are those of two
clusters.

`DetailText` is the view: content, filter, matches in three coordinates (bytes of
the text, columns of a line, columns of a wrapped row), `wrapLines` and what the
viewport scrolls to. The viewport itself is external. Characters are one or two
columns wide; colours are the second copy of the text that filters must cut at the
same places.

### `Layout`, `Shell`

Every method of `layout.Layout` is an operator from one layout to the next;
`Shell` has one action per command of the program that calls them (keys, prefix
keys of a terminal, clicks, messages that open and close panes), in the order the
command calls them. `look`, `bare` and `size` are what each pane was last told,
`rects` the rectangles clicks are resolved with. What a command looks up beside the
layout is left open: the model takes either answer.

### `Overlays`, `Forms`

`Overlays` has the dialog that is open, what it was opened for, the four pending
fields of the program, the messages of closed dialogs, and which pane and cluster
the handler looks up when the message comes. `disturbed` records that panes changed
under an open dialog or before its answer was handled. `Forms` is the inside of a
dialog: `overlay_panel.go` with its list, inputs, buttons and focus, and each form
over it; typing leaves any text of a small set, and what a text matches is a
constant (`How`).

### `Table`

The list of a pane: `list` is a record with the fields of `ResourceList` and
`table.Model`, and every method is an operator on it. `Object` are incarnations:
an object deleted and created again has another UID and the same name. `shifted`
and `unpainted` are history variables: rows changed and the view did not follow
them, the window or the marks changed and nothing was painted.

### `TerminalPane`

A terminal pane's keys (prefix, navigation mode, `encodeKey`), scrollback, size and
cursor. A key has a rune or a special name, shift, ctrl, alt and the text it produced, as
`tea.Key`. What the shell is told of a key is said a second time in `Meant` (a special
key's name, a control code, or the character, with or without alt), and `KeyStep`
compares the two. The emulator is external: a screen of numbered lines and a bounded
history.

### `Keys`, `SearchBar`

`Keys` compiles the list of bindings into the trie of the focused pane, walks
chords through it, shows hints and lists the help, with clicks and panes that go
away between two keys. The two recursions of the code into nested bindings
(`insertBinding`, `flattenBinding`) are functions of how deep a list is nested:
`Tries(n, c)` has the trie, and `Flat(n)` the hints, of every list whose chords have
`n` keys at most. What a chord means is said a second time without a trie (`Read`,
`Applying`, `Meaning`), and the properties compare the two. `SearchBar` is the bar,
its apply with `searchApplySeq`, and the pattern each pane keeps; each key is a
command whose message arrives when it does, before or after those of other keys.
`handled` is a history variable: the key whose message was handled last.

### `PortForwards`, `Notices`, `Edits`, `Catalog`

`PortForwards` follows a request through its start command (dial, check-and-add),
the forwarder, the watch commands and the messages; a deletion blocks the update
loop until the forwarder ended (`blocked`). `Notices` is the bounded store, toasts
and their ticks over a discrete clock. `Edits` has both retry loops around
`$EDITOR`, others who write, and a cache that lags; the user may delete the line with
the version, and the server then takes an update of whatever it has, as it does for
most kinds, or refuses it. `Catalog` has the process-wide
registry, each cluster's index and the rows made of both.

### `Panes`, `Tools`

Parts that share no state with each other are composed in one module: the initial
state chooses the `part`, and only its actions are enabled. `Panes` has `Shell`,
`Overlays`, `Table`, `DetailText` and `TerminalPane`, `Tools` has `TerminalSessions`,
`Keys`, `SearchBar`, `Forms`, `PortForwards`, `Notices`, `Edits` and `Catalog`. Their
constants are parameters with named assumptions, and each property states one or two of
a part's, guarded by it; the proofs are about these modules. `MCPanes` and `MCTools`
give the constants their small values.

## Runs

| Run | Bounds | Shows |
|---|---|---|
| `ClusterSessions` | 2 panes, contexts a, b, pinned manifests, 2 dials and 2 heartbeats per context | `RowsHaveACluster`, `TerminalKeepsItsCluster`, `OfflineOnlyWhileDown`, `EveryClusterProbed`, `ClustersAreReleased`, `LoopsEnd` |
| `InformerStore` | 1 key that is also an events key, 1 object, 2 panes, 2 informers, queue 2 | `InformersAreHeld` (`RegisteredIsWorking` and `DroppedStoreIsIdle`), `PaneIsFed`, `SettledPaneIsCurrent` with describes, and under fairness `PaneCatchesUp` |
| `LogView` | capacity 2, a short line, a line of three rows, the marker, 2 patterns, 2 widths, height 2, 2 evictions | `ViewIsExact` (filter and row count), `KeepsTheLast`, `MatchesStayExact`, `MatchIsShown` |
| `DetailPanel` | 2 panes, 3 objects of which two share a key, 1 superseded describe, 2 fetches of values, 5 events | `ShownIsSelected`, `StreamsAreOwned`, `PanelSettles` |
| `Navigation` | 2 panes, contexts a, b, kinds deploys, pods and contexts, one namespace and all, depth 1, 1 dial | `LevelsAreFed`, `BackStaysHere`, `LeftIsReleased` |
| `Panes` | 3 lists and a terminal, windows 7x6, 6x3 and 1x2; 2 panes on 2 clusters, 1 answer, 2 questions pending; 4 objects, 3 names, viewport of 2; a text of two lines, widths 2, 6 and 8; 2 lines of a shell, 7 keys of which two mean the same to it | `ShellIsDrawn`, `PendingIsAsked`, `AnswerIsOfItsQuestion`, `TableIsDrawn`, `SelectionFollows`, `TextMatchesAreShown`, `TerminalIsTrue` |
| `Tools` | one exec and one node-debug terminal, output capacity 2; 10 bindings in 4 places, chords of 3 keys; 3 keys of a search bar, 2 with their messages in flight, a pattern, a broken one and none; lists of 4 items, 2 visible; 2 forwards, 2 ports; 3 notices in a store of 2; 3 writes of 3 bodies; 2 clusters, 1 refresh | `NothingLeaks`, `OutputIsPumped`, `ClosedSessionsEnd`, `ExitIsShown`, `KeysAndHelpAgree`, `BarIsApplied`, `DialogsAreTrue`, `ForwardsAreKept`, `EndedForwardGoes`, `NoticesAreTrue`, `ToastsLeave`, `EditsAreSafe`, `CatalogIsTrue` |

`PROJECT.json` has, for each property, a mutation of the code it catches.

Why these bounds: two panes are one that keeps a cluster and one that leaves it;
two dials to a context are one that is late and one that is current, as are two fetches
of one release and the messages of two keys; a second heartbeat is the duplicate the
comment of `handleClusterHealth` rules out. Two informers of a key are one that stops
while its successor lists. A queue of two lets an add and a delete of the same object
wait; a queue of one that a resync fills could keep a change out for ever, which the
unbounded queue of client-go does not. A capacity of two makes the output channel full
after two reads. Two evictions of a ring of two bring the head round once and replace
every line. Two kinds and the list of contexts make every sort of level (drilled, split
with a floor, root), and depth one puts a frame above the floor. Windows have halves and
thirds that do not come out even, and one is too small. The texts match inside a line,
at the break of a wrapped one and across two lines. Lists are longer than what is drawn,
ports and counts are at their bounds and past them, and the names of the catalog collide
in each way `collision.go` tells apart.

The bounds are `MaxDials`, `MaxBeats`, `Informer`, `MaxQueue`, `MaxMail`, `OutCap`
(64 in the code), `Capacity` (configured), `MaxDropped`, `MaxLate`, `MaxEvents`,
`Slot`, `MaxDepth`, `MaxAnswers`, `MaxPending`, `MaxBack`, `MaxLines`, `MaxKeys`, `Burst`,
`MaxAdded`, `MaxTime`, `MaxVersion`, `MaxRefresh` and `MaxChord` (the depth of the
list); each is a guard or the size of the structure itself.

`SYMMETRY` over panes, contexts or list panes is stated where no liveness is
checked and nothing orders them. `Panes` has a `VIEW` that leaves out what no guard
and no property of the run reads: the size last told to a shell, and the effect of
the last answer, which `AnswerIsOfItsQuestion` reads in the step that sets it.

`CHECK_DEADLOCK FALSE` is set for `LogView`, where a panic ends the program, for `Tools`,
where terminals end with it, and where a bound on events or messages uses itself up:
`DetailPanel`, `Panes` and `Tools`.

Five runs check what a comment of the code says and TLC refutes; `PROJECT.json` quotes
the text under "findings", and the trace TLC prints is the scenario.

| Run | Refuted | In short |
|---|---|---|
| `ClusterSessionsTwoBeats` | one heartbeat per cluster | teardown and reconnection within an interval keep the old loop |
| `ClusterSessionsDeadEnd` | an empty pane can retry | the no-op guard refuses, the context is connected |
| `InformerStoreOutlives` | a cluster's teardown stops its informers | a describe started before it subscribes after it, in a store nobody has |
| `DetailPanelStaleValues` | stale helm values are dropped | the older of two answers for a release comes last and stays |
| `LogViewPanics` | a rebuild keeps everything in sync | an eviction leaves the selected match past the end of the list |

Where the code departs from a rule, the property that holds names the exception; the
texts that deny one are under Known weaknesses, or in one of those runs.
`DroppedStoreIsIdle` excepts `outlived`, `SettledPaneIsCurrent` buckets that are `tainted`,
`ShownIsSelected` values that were `overtaken`, and `BarIsApplied` a last key whose message
was not the last to be handled.
`ClustersAreReleased` excepts the failure of a debug pre-flight,
which removes a pane without `SyncRefs`; `NothingLeaks` says that after a quit only pods
stay whose pre-flight was not handled; `EveryClusterProbed` holds for a start on a
kube-context, since manifest mode caches a cluster and arms nothing for it;
`MatchesStayExact` excepts `ClearFilter`, after which highlights stay where the
filtered lines were; `LeftIsReleased` excepts a dial that comes back, which puts
panes on their roots without unsubscribing, and does not speak of the switch of a pane,
which goes on to show that kind and namespace of another cluster; `AnswerIsOfItsQuestion`
and `PendingIsAsked` except panes and keys that came between an answer and its handling
(`disturbed`); `MatchIsShown` speaks of n and N, and in the unwrapped view of lines, not
of columns; `EditsAreSafe` speaks of edits that leave the version the file showed;
`CursorIsOnScreen` rows that came or went,
`MatchesArePainted` a resize or a mark, each until the next key; `KeyStep` takes a special
key to mean the same with shift or ctrl, and ctrl+i and ctrl+m to mean tab and enter;
`FocusIsDrawn` excepts the footer that reports a bad port; `RowsSayWhatTheyOpen` the
`Twins`, two built-in types of a name that a custom one has too; `InWindow` a panel
without rows, one no wider than the viewport's step, and a match that begins with a line
end, which has no cell.

## Known weaknesses

What the models show of the code beside the five findings, by module. None of it
is a violated property: the properties above except it or do not speak of it. What
contradicts a text of the repository comes first.

* `InformerStore`: `Unsubscribe` does not wait for the handler goroutine of the informer
  it cancels, so that the event being handled makes the deleted bucket again
  (`store.go:224`) and the next subscriber lists an object that may be gone; `store.go:138`
  says that it "stops the informer for a GVR+namespace and clears its cache".
* `TerminalSessions`: a quit cancels a pre-flight and does not wait for it
  (`app.go:3129`): a node-debug pod it created and has not reported stays, while
  `src/README.md:321` says "Node-debug pods are deleted on pane close and on quit".
* `SearchBar`: the sequence number is drawn when a key's message is handled
  (`commands.go:3070`), so that of two keys whose messages come in the other order the
  earlier one is applied, while the bar shows the later text; `commands.go:3066` says that
  "only the latest keystroke's apply takes effect".
* `TerminalPane`: `encodeKey` looks at the shift and ctrl of no special key
  (`terminalpane.go:579`): shift+tab is sent as a plain tab, ctrl+arrows as arrows.
  `src/README.md:240` says that every other key, "including plain arrows and `shift+tab`",
  is sent to the shell.
* `Catalog`: of two built-in types and a custom one with a name, both built-in rows stay,
  unqualified (`collision.go:62`), and look the same; `collision.go:26` says that
  `markCollisions` qualifies the entries "that need disambiguation".

The rest no text speaks of, unless it is named:

* `TerminalSessions`: the prefix close of a last pane unregisters its session and
  the pane never sees an exit, so that keys go nowhere (`app.go:1440`, `1433`); a
  pre-flight whose metadata was removed attaches with a nil client (`app.go:2944`
  against 2900).
* `Navigation`: a switch of one pane (`commands.go:2486`) and a cluster that comes
  back unsubscribe nothing; `unsubscribeIfUnused` does not look at contexts; a goto
  from a drill leaves its parents' keys subscribed, and a namespace bucket drilled
  from all namespaces can be unsubscribed under the drill; frames above the first
  cannot be refreshed in all-namespaces mode, nor a drill from a node with a
  namespace (`app.go:2475`, `2595`); a split onto the list of contexts and Enter on
  the current one leave an empty pane (`commands.go:1929`).
* `DetailPanel`: `ClearContent` leaves the describe under way (`app.go:895`); the
  restart of a debounced stream neither clears the lines nor keeps the container;
  picking a container or a time range streams the current selection under the old
  header (`app.go:1247`); `n`, a focus move, a click or a closed pane do not restart
  the stream or refresh the panel.
* `DetailText`: matches can span rows, against `detailview.go:450`; a refresh, a
  wrap or a resize select the first match again; after `ClearContent` or an error
  `n` brings old content back.
* `Shell`: both zoom flags can be set, zoom does not follow the focus, and shells
  are not told their size when a list is split or closed (`app.go:2826`).
* `Overlays`: a restart takes the cluster of the pane focused when the answer is
  handled, a delete its plugin too (`commands.go:2815`): a key, a click or a failed
  debug pre-flight that moves the focus before that sends them elsewhere; the history of
  a release and its dialog are matched by nothing (`app.go:998`).
* `Forms`: a late answer resets a picker's cursor; namespaces carry no context
  (`commands.go:676`); ctrl+w never reaches a dialog.
* `Table`: a sort keeps the old header (`resourcelist.go:1007`); a click moves the
  window, so that the second of a double click hits another row; a refresh can
  leave the cursor off the screen (`table.go:325`); marks and resizes do not repaint;
  a reload clears filter and search against its comment.
* `TerminalPane`: a shell that exits in navigation mode keeps its title.
* `Keys`: a click amid a chord keeps the old pane's trie; a pane that goes resets it
  without the hints; the help lists children whose own scope does not match; a chord
  with a command of its own runs it where none of its keys applies, and the help,
  which lists only what is nested in a chord (`binding.go:222`), does not say so.
* `SearchBar`: an apply in flight survives escape; ctrl+w closes the bar and leaves the
  pattern.
* `Edits`: after a refusal or a parse error the file is opened with the base text and
  the user's edits are lost, against `editor_test.go:69`; a cancelled edit is noted
  as applied (`app.go:2077`); the values of a release have no version, so those of
  others are overwritten, and cannot be emptied; nor is there a check that an object's text
  still has its version.
* `Catalog`: a type of a built-in group without a plugin opens whatever has its plain
  name (`resourcepicker.go:29`); Enter in the api-resources view goes by plain name;
  a discovered type takes over a short name (`registry.go:52`); a discovery of a
  cluster that is not focused is dropped from the view (`app.go:2186`).
* `PortForwards`: a deletion waits for the forwarder on the update loop; after it a
  toast may name port 0 (`app.go:1051`).

## Fairness

Safety needs none. The liveness runs assume weak fairness of what the runtime
schedules: the Update loop takes a message that was sent (`ResourceUpdated`,
`Reads`, `DescribeLoaded`, `DescribeDiscarded`, `HelmValuesLoaded`,
`LogStreamReady`, `Arrives`, and `ClusterHealth`, whose probe has a deadline of two
seconds), goroutines and timers run (`Handle`, `Handled`, `Synced`, `Stopped`,
`Fire`, `DescribeDebounceFired`, `LogDebounceFired`, a forward's `Step`,
`Clock`, `Expires`), a watch delivers what changed (`Listed`, `Notice`), the closing
goroutine has a deadline and a cancelled stream returns (`Ends`), as does a stopped
forwarder (`StoppedEnds`). What the command that reads a session's output, its message and
the exit do in turn is one step `Reads`, of which one at most can be taken at a time; so
are a forward's `Step` and the two halves of `Ends`, each of which is taken once. A
describe and a fetch of values have the deadline of their request. Users, the API
server, shells, tunnels, pre-flights and the editor are never assumed to do anything.
The log panel, the layout, tables, dialogs, keys and the catalog act only when called,
and no liveness is stated of them.

## Proofs

Each `*_proofs` module proves theorems `Spec => []P`, or the refinement, for every
value of the constants that satisfies the module's assumption: any number of
panes, contexts, keys, objects, informers, terminals, lines, any bounds.

* `ClusterSessions_proofs`: `TypeCorrect`; then `PanesInv`, the conjunction of
  `RowsHaveACluster`, `TerminalKeepsItsCluster`, `PinnedPaneShown` and
  `OfflineOnlyWhileDown`, is inductive together with `TypeOK`, one step per action.
  They need each other: the teardown in `Reconcile` keeps rows only because a fed
  pane refers to its cluster, and a terminal because its pane counts. `RowsSafe`,
  `ShellsSafe`, `PinnedSafe`, `OfflineSafe` follow. `ProbesArmed` proves
  `EveryClusterProbed` under `Startup \in Context`. `ClustersReleased` is an action
  property, proved action by action from the type alone.
* `InformerStore_proofs`: `StoreInv` adds to the type that a registered informer
  is a working one of its key, that no two keys share one, and that a pane's key
  has one while the store is attached, and none but `outlived` ones when it is not.
  `StartsStartable` and `ResubscribeKeeps` show once what the store's operations
  preserve; the steps of users, of informers and of describes cite them. Theorems:
  `StoreTyped`, `InformersHeld`, `PanesFed`. `CurrentInv` is
  inductive with `StoreInv`: `BucketsFollow` says that once its queue is handled a
  registered informer's bucket is what the informer knows, and that a bucket without an
  informer is empty; `RowsFollow` that rows which differ from their bucket have a
  message, a timer, a trigger or a first list still to come. Its lemmas go by the stage
  of the pipeline an object is in (`WorkingFollows`, `LearningFollows`,
  `HandlingFollows`, `TellingFollows`, `PaneRunsOn`). Hence `SettledIsCurrent`.
* `LogView_proofs`, of the ring: `RingTyped`; `SliceReadsLines`, that the one or two copies
  of a slice are the lines `Get` returns; and the refinement `RingKeepsTheLast`.
  Its step is `AddLines`: the newest line is the one written (`NewestLine`), and
  every older one moves one index down although its slot stays (`OneOlder`,
  `OlderLines`), which comes down to the remainder of a sum (`Remainder`,
  `HeadMoves`). The type invariant is all it needs.
  The panel moves its ring by `Append` and `Reset` only (`PanelIsRing`), hence
  `LogViewKeepsTheLast`. Of the panel, `ViewInv` says that the filtered indices,
  less their offset, are those of the lines the filter lets through, in order
  (`FilterHolds`), and that the rows counted are those of the lines on display.
  When a line comes, `FilterFollows` shows that dropping the indices below the new
  offset and appending one is filtering the new buffer, and `RowsAppend`, `RowsRest`
  that the differences are the count: `ViewStaysExact`. `FindsAppend` does the same
  for matches and `RebuiltFinds` for those found anew: `MatchesFollowTheDisplay`.
  `MatchesAreShown` is the arithmetic of wrapped rows: `RowHolds` says that the row
  counted for a match is one of its line's and holds its column, `RowsAbove` that the
  rows above it are those of the lines above and its own, and `Brings` that what is
  brought into view is not taken out by the limit on scrolling. It is about n and N, and
  of an unwrapped view says that the line is in the window. Its premise is that the
  selected match is in a line on display: exact matches are (`ExactIsInALine`), and so
  may be matches that a cleared filter left behind.
* `Navigation_proofs`: `Grounded` says that a pane's list of contexts is at its root
  or above its floor, and every frame of a stack is of the pane's cluster; hence
  `BackAlwaysStaysHere`. `FedInv` adds that no informer runs on a cluster that is not
  connected and that every level of a pane on a connected one has its informer. It
  is what an unsubscription must not break, whichever pane asks for it:
  `LevelsStayFed`.
  With the remark that no informer is of a synthetic kind it also gives the action
  property `LeftStaysReleased`.
* `DetailPanel_proofs`: `StreamsStayOwned`, with one lemma per helper that stops,
  starts or leaves a stream, from the types of the stream's variables and
  `LogIsShown`. `ShownStaysSelected` rests on `Follows`: what is selected is
  described by what is in flight, is what the newest fetch is of (`Awaited`), or is shown
  (`IsShown`) and not about to be replaced by a describe or a newer fetch, unless the
  panel is hidden, shows the log, waits for its debounce, or is behind in one of the
  ways `strayed` and `frozen` record.
* `Panes_proofs`, under `PaneAssumption`, `WindowAssumption`, `OverlaysAssumption`,
  `TableAssumption`, `TextAssumption` and `TerminalAssumption`: lists are no terminals,
  windows have a size, dialogs and actions have names of their own, values are compared,
  a text has a line and a pattern a character, and keys are as a terminal reports them. A
  step is one of one part.
  Texts: `FindAll`, `Columns`, `LineStart`, `Matching` and `WrapLine` are loops, written
  as recursive functions. That such a function exists and has the value of its loop at
  each step is `Recursion`; what every step keeps holds at the end by `Induct`, both for
  sets and functions and so without an operator as a parameter. `TextInv` has the types
  (`Laid`) and `Fitting`: the positions are those of the matches in the text as it is
  filtered now, or the viewport has the highlights. Going from bytes to columns,
  `SegmentCovers` says that the segment of a match on a line covers exactly the
  characters of the match there, and `PositionsCover` that no other is covered. Going
  from columns to rows, `Mapped` says that the rows of a wrapped text are in order and
  that each begins where a character does; then the row `ToVisual` finds is the one
  that draws the match (`DrawnSomewhere`, `ToVisualIs`), and is no longer than the row
  that bounds the scrolling (`LongestRow`), so that an offset that was clamped still
  shows it. Theorem: `TextStaysShown`.
  Layout: `Drawn` says that the layout is well formed, one pane at most is lit and it
  is the focused one, the zoomed one alone has no border, and sizes and rectangles are
  those of now. `RecalcDraws` makes the last true whatever held before and
  `ReconcileDraws` the first; every method of `layout.Layout` is a lemma that says what
  it leaves to them, every command a step that composes methods. That a click hits
  one pane comes down to strips of a length that is divided (`InStrip`). Theorems:
  `ShellStaysTyped`, `ShellStaysDrawn`.
  Dialogs: while nobody disturbs the question, `Undisturbed` holds: there is one
  question, open or answered (`OneQuestion`); one action is pending and it is what the
  question asks for (`OneAction`, `PendingIsThere`); and it is about what the focused
  pane shows (`AskedHere`, `AnsweredHere`). Hence `PendingStaysAsked` and
  `AnswersStayOfTheirQuestion`.
  Tables: `TableInv` says that the cursor is on a row, if there are rows (`Placed`), that
  an unshifted list has it `InView`, and that one not `unpainted` is `Painted`, with
  nothing painted when there is no search (`Clean`). `Repainted` is what a method that
  ends in a repaint leaves, whatever was painted before. That sorting can be done at all
  is `OrderExists`: rows that are listed together differ in name, and a row's place is the
  number of those before it. Theorems: `TableStaysDrawn`, and the action property
  `SelectionStaysOnItsObject`.
  Terminal panes: `TermInv` says that the pane is where the layout puts it and bare when
  it is the zoomed one (`PutWhere`), that it is scrolled no further than its history
  (`Steady`), and that the emulator's grid is the pane's room with the cursor on it
  (`FitsIn`). The lines composed by hand are then a part of the history and the screen
  (`ViewportIsPart`), and the cell of the cursor follows from the sizes. `encodeKey`
  sends keys that mean different things as different bytes (`KeysDiffer`): what a key
  means is a name or a code, the bytes of a name are its own (`SpecialsHaveNames`,
  `NameBytes`), those of a code are no name's (`CodeBytes`), and an escape before a key
  makes no other key's sequence (`AltDiffers`). `TerminalAssumption` says what a key can
  be: a character with or without shift and alt, a character with ctrl, or a special key
  with any modifiers. Characters outside ASCII, whose bytes the run does not model, are
  left out, and so is the text a terminal may report for ctrl with a key that has no
  control code. Theorem: `TerminalStaysTrue`.
* `Tools_proofs`, in the same way.
  Terminals: `TerminalsInv` relates the maps of the App to pre-flights, pods and streams,
  with `BoundWhenDone` (a pod is named and a session bound only once the pre-flight is
  done) and `QuitForgets` (a quit has taken all metadata) as the strengthening. Theorems,
  under `TerminalsAssumption`: `TerminalsLeakNothing`, `OutputStaysPumped`,
  `TerminalsStayTyped`.
  Port forwards: `Early` relates a command's progress to the registry, `Handled` a
  registered forward to the handle the program has or will get by a message
  (`ForwardsStayKept`, under `ForwardsAssumption`).
  Search bar: `LastKeySpeaksOfTheBar` says that the message of the last key, while it is
  on its way, speaks of the bar as it is, `AppliesAreOfText` that an apply of the current
  sequence number is of the text shown if the last key's message is the last handled
  (`LastIsHandled`). Hence `BarStaysApplied`, for any number of messages in flight and any
  order.
  Dialogs: an open one has one of five shapes, and in each (`GoodForward`, `GoodScale`,
  `GoodImage`, ...) the panel's focus, the inputs with a cursor and the footer follow
  from each other; `SaysShown` is what a message says of what was shown
  (`DialogsStayTrue`, under `FormsAssumption`).
  Editor: `FileShowsBase` lists what texts can be opened and that each, stripped of its
  comments, is the base; `Seen` that a version seen is not younger than the server's and
  has its body when it is the server's; `ChangeIsSent` that what is sent is a change and
  says the version that was shown, if it says one (`EditsStaySafe`).
  Notices: ids grow, the store is in their order, and what is hidden is bounded by the
  capacity because pruning keeps ids the store held (`PruneBounds`); `GoneKeeps` is the
  action property of a toast that went (`NoticesStayTrue`, under `NoticesAssumption`).
  Catalog: `Sane` says of a registry that no two of its plugins are of one type, that
  every name of a plugin means one, and one of that name. Registering a plugin keeps
  this and adds only at the end of the list (`RegisterAdds`), and so does a result of any
  length (`Recursion`, `Induct`). Since types differ, rows that look the same are of one
  name, and `markCollisions` keeps two of them only when they are twins
  (`CatalogStaysTrue`, under `CatalogAssumption`).
  Keys: two sides that share only `matchesContext` and `Within` meet, the compiler and
  the meaning of a list. `Built` says what the trie holds of the first `i` bindings of a
  list: the keys bound so far, and for each the last binding on it or the chords read
  together; one binding more keeps it (`BindingGoesIn`), so it holds of a list and, by
  depth, of every list (`TriesSound`, `TrieNodes`). `Walked` relates the node to which a
  chord has led to the list in which its next key is looked up; it is the invariant,
  with the context of the pane in which the chord began (`WalkGoesOn`, `RunsItsMeaning`,
  `HintsAreTheKeys`). For the help, the lists a chord goes through are followed back
  from its last key (`KeyBeforeShown`), and each line has its scroll offset
  (`EveryLineIsSeen`). `KeysStayTrue` assumes that lists of bindings end and that none is
  nested deeper than `MaxChord` (`KeysAssumption`), as in every configuration that was
  parsed.

Only model-checked: the liveness properties `LoopsEnd`, `PaneCatchesUp`,
`ClosedSessionsEnd`, `ExitIsShown`, `PanelSettles`, `EndedForwardGoes` and
`ToastsLeave`, which the prover cannot treat.

## Plan

What is left, the most useful first:

1. The input side of a session: the bounded buffer of stdin, which blocks or drops,
   and the resize queue that keeps the latest size.
2. The manifest parser and the collision of its objects, as functions.

## Not modelled

* Requests. Scale, set-image, restart, helm upgrade and rollback, and deletions are
  calls that leave nothing in the program but a message; which object and cluster
  they are called with is in `Overlays`. The handlers of set-image and scale take the
  client of the pane focused when the message is handled, like those modelled there,
  and a list of releases is matched by namespace only (`app.go:1008`).
* Kubeconfig discovery, configuration, command line, manifests, saving logs and the
  clipboard: file and process I/O, and functions from files to data. The startup
  states `root.go` can produce are initial states of `ClusterSessions` and `Catalog`.
* Resource plugins, rendering and syntax highlighting turn objects into text and keep
  no state between calls; what `plugins/workload`, `plugins/apiresources` and
  `plugins/notifications` keep or lead to is in `Navigation`, `Catalog` and `Notices`.
* The emulator's escape sequences and the viewport of the detail panel are a
  library's, modelled from how the panes use them.
* The default key list (`keymap.go`) is data; the list that is checked has its shapes
  and the conflicts a user's list may add. Pickers of containers, time ranges and
  variables are the same panel as those of `Forms`.
* Column widths, colours, wording.
