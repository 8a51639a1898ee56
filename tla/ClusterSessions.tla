-------------------------- MODULE ClusterSessions --------------------------
(***************************************************************************)
(* One Manager owning a Cluster per kube-context (internal/cluster), and   *)
(* the panes of the App that refer to contexts (internal/app).             *)
(*                                                                         *)
(* Everything here runs on the single Update goroutine except the dials    *)
(* (asyncConnectCmd) and the heartbeats (heartbeatCmd), which run off it   *)
(* and come back as messages in any order.  A dial has no effect before    *)
(* its ClusterReadyMsg is handled, so it is a pending count per context.   *)
(***************************************************************************)
EXTENDS Naturals, FiniteSets

CONSTANTS
    Pane,        \* identities of panes: splits of the layout
    Context,     \* kube-contexts that can be dialled
    Pinned,      \* pinned pseudo-contexts ("manifests"): no client, never dialled
    Startup,     \* the context the first panes are seeded with
    KubeCurrent, \* the context GetOrCreate connects at startup
    Lacking,     \* contexts whose API does not serve the resource of the panes
    NoContext,   \* the context of a pane that is not open
    MaxDials,    \* bound: dials to one context in flight
    MaxBeats     \* bound: heartbeats of one context in flight

ASSUME ContextAssumption ==
    /\ Context \cap Pinned = {}
    /\ NoContext \notin Context \cup Pinned
    /\ Startup \in Context \cup Pinned
    /\ KubeCurrent \in Context
    /\ Startup \in Context => KubeCurrent = Startup
    /\ Lacking \subseteq Context
    /\ MaxDials \in Nat
    /\ MaxBeats \in Nat \ {0}

VARIABLES
    ctx,        \* context of each pane; NoContext when the pane is closed
    term,       \* the open panes that are terminals; the others are resource lists
    preflight,  \* terminals still showing the debug placeholder
    feed,       \* list pane: "fed" from its store, "missing" resource, or "none"
    offline,    \* list panes with the offline marker
    focus,      \* the focused pane
    live,       \* contexts with a connected cluster in Manager.clusters
    discovered, \* live contexts whose Discovery index is loaded
    dials,      \* dials in flight, per context
    beats       \* heartbeats in flight, per context

paneVars == <<ctx, term, preflight, feed, offline, focus>>
vars == <<ctx, term, preflight, feed, offline, focus, live, discovered, dials, beats>>

AllContexts == Context \cup Pinned

Open == {p \in Pane : ctx[p] # NoContext}
Lists == Open \ term

\* contextFor(FocusedSplit()): a focused terminal is no split, which leaves
\* the startup context.
FocusedContext == IF focus \in term THEN Startup ELSE ctx[focus]

\* Mutant: only resource panes count, as SplitAt would give them.
ReferencedInListsOnly(c) == {c[p] : p \in Pane \ term} \ {NoContext}

\* distinctPaneContexts without the counts: terminals count as well.
ReferencedIn(c) == {c[p] : p \in Pane} \ {NoContext}

\* SyncRefs: a cluster no pane refers to is torn down.
Reconcile(clusters, c) ==
    /\ live' = clusters \cap ReferencedIn(c)
    /\ discovered' = discovered \cap live'

\* Mutant: the marker of a connected cluster is not cleared.
SyncOfflineKeeps(marked, c, clusters) == {p \in marked : c[p] \notin Pinned}

\* syncPaneFooters -> syncPaneOffline: a list on a connected cluster, or on a
\* pinned one, loses the marker; with no cluster the marker is kept.
SyncOffline(marked, c, clusters) ==
    {p \in marked : c[p] \notin clusters \cup Pinned}

\* subscribeAndPopulate: with a store the pane is fed, without one it is left.
Populated(f, panes, c, clusters) ==
    [p \in Pane |-> IF p \in panes /\ c[p] \in clusters \cup Pinned THEN "fed" ELSE f[p]]

Emptied(f, panes) == [p \in Pane |-> IF p \in panes THEN "none" ELSE f[p]]

-----------------------------------------------------------------------------
\* The startup: the cluster connected, or did not.  In manifest mode the
\* startup context is pinned and the kubeconfig's own cluster is cached too.
Init ==
    \E first \in SUBSET Pane \ {{}} :
    /\ ctx = [p \in Pane |-> IF p \in first THEN Startup ELSE NoContext]
    /\ term = {} /\ preflight = {} /\ offline = {}
    /\ focus \in first
    /\ live \in {{}, {KubeCurrent}}
    /\ feed = [p \in Pane |->
                 IF p \in first /\ Startup \in live \cup Pinned THEN "fed" ELSE "none"]
    /\ discovered = {}
    /\ dials = [c \in Context |-> 0]
    /\ beats = [c \in Context |-> IF c = Startup /\ c \in live THEN 1 ELSE 0]

Retargeted(panes, c) == [p \in Pane |-> IF p \in panes THEN c ELSE ctx[p]]

Dial(c) == /\ dials[c] < MaxDials
           /\ dials' = [dials EXCEPT ![c] = @ + 1]

\* Mutant: a pane keeps its rows while it moves to another cluster.
PaneSwitchKeepsRows(c) ==
    /\ focus \notin term
    /\ ~ (ctx[focus] = c /\ c \in live)
    /\ ctx' = Retargeted({focus}, c)
    /\ Reconcile(live, ctx')
    /\ Dial(c)
    /\ UNCHANGED <<term, preflight, feed, offline, focus, beats>>

\* handlePaneContextSwitch, dialled context.
PaneSwitch(c) ==
    /\ focus \notin term
    /\ ~ (ctx[focus] = c /\ c \in live)
    /\ ctx' = Retargeted({focus}, c)
    /\ feed' = Emptied(feed, {focus})
    /\ Reconcile(live, ctx')
    /\ Dial(c)
    /\ UNCHANGED <<term, preflight, offline, focus, beats>>

\* handlePaneContextSwitch -> switchPaneToPinned.
PaneSwitchPinned(c) ==
    /\ focus \notin term
    /\ ctx[focus] # c
    /\ ctx' = Retargeted({focus}, c)
    /\ Reconcile(live, ctx')
    /\ feed' = Populated(feed, {focus}, ctx', live')
    /\ offline' = SyncOffline(offline \ {focus}, ctx', live')
    /\ UNCHANGED <<term, preflight, focus, dials, beats>>

Group == {p \in Lists : ctx[p] = FocusedContext}

\* handleGroupContextSwitch, dialled context: the whole group moves; on a
\* retry of the same context the panes keep what they show.
GroupSwitch(c) ==
    /\ ~ (FocusedContext = c /\ c \in live)
    /\ ctx' = Retargeted(Group, c)
    /\ feed' = IF FocusedContext = c THEN feed ELSE Emptied(feed, Group)
    /\ Reconcile(live, ctx')
    /\ offline' = SyncOffline(offline, ctx', live')
    /\ Dial(c)
    /\ UNCHANGED <<term, preflight, focus, beats>>

\* handleGroupContextSwitch -> switchGroupToPinned.
GroupSwitchPinned(c) ==
    /\ FocusedContext # c
    /\ ctx' = Retargeted(Group, c)
    /\ Reconcile(live, ctx')
    /\ feed' = Populated(feed, Group, ctx', live')
    /\ offline' = SyncOffline(offline \ Group, ctx', live')
    /\ UNCHANGED <<term, preflight, focus, dials, beats>>

ListsOn(c) == {p \in Lists : ctx[p] = c}

\* handleClusterReady, failed dial.
ClusterReadyFailed(c) ==
    /\ dials[c] > 0
    /\ dials' = [dials EXCEPT ![c] = @ - 1]
    /\ Reconcile(live, ctx)
    /\ offline' = SyncOffline(offline \cup ListsOn(c), ctx, live')
    /\ UNCHANGED <<ctx, term, preflight, feed, focus, beats>>

\* handleClusterReady: RegisterConnected keeps a cluster that is there, and
\* reports whether it installed one; only that arms a heartbeat, even when
\* SyncRefs takes the cluster away again at once.
ClusterReady(c) ==
    /\ dials[c] > 0
    /\ dials' = [dials EXCEPT ![c] = @ - 1]
    /\ Reconcile(live \cup {c}, ctx)
    /\ \/ /\ c \in live
          /\ beats' = beats
       \/ /\ c \notin live
          /\ beats[c] < MaxBeats
          /\ beats' = [beats EXCEPT ![c] = @ + 1]
    /\ feed' = [p \in Pane |->
                  IF p \notin ListsOn(c) THEN feed[p]
                  ELSE IF c \in Lacking \cap discovered THEN "missing" ELSE "fed"]
    /\ offline' = SyncOffline(offline, ctx, live')
    /\ UNCHANGED <<ctx, term, preflight, focus>>

\* disc.Refresh of a live cluster completed.
DiscoveryRefreshed(c) ==
    /\ c \in live \ discovered
    /\ discovered' = discovered \cup {c}
    /\ UNCHANGED <<paneVars, live, dials, beats>>

\* Mutant: only the focused context is probed on.
ClusterHealthFocusedOnly(c) ==
    /\ beats[c] > 0
    /\ beats' = IF c \in live /\ c = FocusedContext
                  THEN beats ELSE [beats EXCEPT ![c] = @ - 1]
    /\ offline' = SyncOffline(offline, ctx, live)
    /\ UNCHANGED <<ctx, term, preflight, feed, focus, live, discovered, dials>>

\* Mutant: every tick re-arms, whether or not its cluster is there.
ClusterHealthForever(c) ==
    /\ beats[c] > 0
    /\ offline' = SyncOffline(offline, ctx, live)
    /\ UNCHANGED <<ctx, term, preflight, feed, focus, live, discovered, dials, beats>>

\* handleClusterHealth: the loop goes on while its context has a cluster.
ClusterHealth(c) ==
    /\ beats[c] > 0
    /\ beats' = IF c \in live THEN beats ELSE [beats EXCEPT ![c] = @ - 1]
    /\ offline' = SyncOffline(offline, ctx, live)
    /\ UNCHANGED <<ctx, term, preflight, feed, focus, live, discovered, dials>>

\* handleSplit: a new list inherits the focused context.
Split(p) ==
    /\ p \notin Open
    /\ ctx' = [ctx EXCEPT ![p] = FocusedContext]
    /\ focus' = p
    /\ feed' = Populated(feed, {p}, ctx', live)
    /\ offline' = SyncOffline(offline, ctx', live)
    /\ UNCHANGED <<term, preflight, live, discovered, dials, beats>>

\* openExecTerminal (no pre-flight) and openDebugTerminal,
\* openNodeDebugTerminal: they need the client of the focused split.
OpenTerminal(p, debug) ==
    /\ p \notin Open
    /\ focus \notin term
    /\ feed[focus] = "fed" /\ ctx[focus] \in live
    /\ ctx' = [ctx EXCEPT ![p] = ctx[focus]]
    /\ term' = term \cup {p}
    /\ preflight' = IF debug THEN preflight \cup {p} ELSE preflight
    /\ focus' = p
    /\ offline' = SyncOffline(offline, ctx', live)
    /\ UNCHANGED <<feed, live, discovered, dials, beats>>

\* handleDebugReady, success: the placeholder becomes a session.
DebugReady(p) ==
    /\ p \in preflight
    /\ preflight' = preflight \ {p}
    /\ UNCHANGED <<ctx, term, feed, offline, focus, live, discovered, dials, beats>>

\* The pane leaves the layout and a neighbour gets the focus.
RemovePane(p, next) ==
    /\ next \in Open \ {p}
    /\ ctx' = [ctx EXCEPT ![p] = NoContext]
    /\ term' = term \ {p}
    /\ preflight' = preflight \ {p}
    /\ feed' = Emptied(feed, {p})
    /\ focus' = next

\* handleDebugReady, error -> failTerminalPane: removed without SyncRefs; the
\* last pane is frozen instead.
DebugFailed(p, next) ==
    /\ p \in preflight
    /\ IF Open = {p} THEN /\ next = p
                          /\ preflight' = preflight \ {p}
                          /\ UNCHANGED <<ctx, term, feed, focus>>
                     ELSE RemovePane(p, next)
    /\ UNCHANGED <<offline, live, discovered, dials, beats>>

\* Mutant: the close does not reconcile the references.
CloseSplitKeepsClusters(next) ==
    /\ RemovePane(focus, next)
    /\ offline' = SyncOffline(offline \ {focus}, ctx', live)
    /\ UNCHANGED <<live, discovered, dials, beats>>

\* closeFocusedSplit, resource or terminal; its callers keep the last split.
CloseSplit(next) ==
    /\ RemovePane(focus, next)
    /\ Reconcile(live, ctx')
    /\ offline' = SyncOffline(offline \ {focus}, ctx', live')
    /\ UNCHANGED <<dials, beats>>

\* FocusNext, FocusPrev, FocusSplitAt.
Focus(p) ==
    /\ p \in Open \ {focus}
    /\ focus' = p
    /\ UNCHANGED <<ctx, term, preflight, feed, offline, live, discovered, dials, beats>>

\* handleGotoPlugin, handleNamespaceSwitch on the focused list.
Repopulate ==
    /\ focus \notin term
    /\ feed' = Populated(feed, {focus}, ctx, live)
    /\ UNCHANGED <<ctx, term, preflight, offline, focus, live, discovered, dials, beats>>

\* reloadAll: every list is subscribed anew.  On a pinned context it becomes
\* reloadManifest, which shows the panes of that context the same store again.
ReloadAll ==
    /\ FocusedContext \notin Pinned
    /\ feed' = Populated(feed, Lists, ctx, live)
    /\ UNCHANGED <<ctx, term, preflight, offline, focus, live, discovered, dials, beats>>

Next ==
    \/ \E c \in Context : \/ PaneSwitch(c) \/ GroupSwitch(c)
                          \/ ClusterReady(c) \/ ClusterReadyFailed(c)
                          \/ DiscoveryRefreshed(c) \/ ClusterHealth(c)
    \/ \E c \in Pinned : PaneSwitchPinned(c) \/ GroupSwitchPinned(c)
    \/ \E p \in Pane : \/ Split(p) \/ DebugReady(p) \/ Focus(p) \/ CloseSplit(p)
                       \/ \E debug \in BOOLEAN : OpenTerminal(p, debug)
                       \/ \E next \in Pane : DebugFailed(p, next)
    \/ Repopulate
    \/ ReloadAll

Spec == Init /\ [][Next]_vars

\* A heartbeat that is in flight comes back: the probe has a deadline of two
\* seconds, and the Update loop takes every message.
FairSpec == Spec /\ \A c \in Context : WF_vars(ClusterHealth(c))

-----------------------------------------------------------------------------
TypeOK ==
    /\ ctx \in [Pane -> AllContexts \cup {NoContext}]
    /\ term \in SUBSET Open
    /\ preflight \in SUBSET term
    /\ feed \in [Pane -> {"none", "fed", "missing"}]
    /\ offline \in SUBSET Lists
    /\ focus \in Open
    /\ live \in SUBSET Context
    /\ discovered \in SUBSET live
    /\ dials \in [Context -> Nat]
    /\ beats \in [Context -> Nat]

\* A pane never shows rows (or the verdict "resource missing") of a cluster
\* that is gone: whatever switches, closes and late dials do, the cluster a
\* list was filled from stays until the list is emptied or leaves.
RowsHaveACluster ==
    \A p \in Pane : feed[p] # "none" => ctx[p] \in live \cup Pinned

\* The cluster of a terminal pane lives as long as the pane: distinctPaneContexts
\* counts terminals, so moving every list away does not cut a shell off.
TerminalKeepsItsCluster == \A p \in term : ctx[p] \in live

\* A list on the static manifest cluster always shows it and is never marked
\* offline: nothing will come later to fill it.
PinnedPaneShown ==
    \A p \in Lists : ctx[p] \in Pinned => feed[p] = "fed" /\ p \notin offline

\* "Recovery is automatic": the offline marker is on a pane of a connected
\* cluster only while a dial to it is still to be answered.
OfflineOnlyWhileDown ==
    \A p \in offline : ctx[p] \in live => dials[ctx[p]] > 0

\* "1:1 re-arming still covers every cluster": no teardown, reconnection or
\* late dial leaves a connected cluster without a heartbeat.
EveryClusterProbed == \A c \in live : beats[c] >= 1

\* "exactly one heartbeat in flight per connected cluster".
OneHeartbeatPerCluster == \A c \in live : beats[c] <= 1

Orphans(clusters, c) == clusters \ ReferencedIn(c)

\* "a context referenced by zero panes is torn down", in the step that drops the
\* last reference: no switch, close or late dial leaves a cluster, its informers
\* and its heartbeat to nobody.  The failure of a debug pre-flight does, as it
\* removes its pane and does not reconcile.
ClustersAreReleased ==
    [][ \/ Orphans(live', ctx') \subseteq Orphans(live, ctx)
        \/ \E p, next \in Pane : DebugFailed(p, next) ]_vars

\* "A pane left on a broken context by a failed connect must be able to retry":
\* an empty list nobody is dialling for can be re-selected, which the no-op
\* guard of the switch refuses for a connected cluster.
EmptyPaneCanRetry ==
    \A p \in Lists : feed[p] = "none" /\ dials[ctx[p]] = 0 => ctx[p] \notin live

\* The loop of a context nobody uses any more ends: no heartbeat leaks.
LoopsEnd ==
    \A c \in Context :
        <>[](c \notin live /\ dials[c] = 0) => <>[](beats[c] = 0)
=============================================================================
