----------------------------- MODULE Navigation -----------------------------
(***************************************************************************)
(* Where each pane is, how it came there, and which informers that keeps   *)
(* (internal/app: goto, drill-downs, splits, namespace and context         *)
(* switches; internal/ui: NavStack and the pane's side of it).  A pane     *)
(* shows a list of a kind in a namespace of a cluster; drilling into an    *)
(* object pushes what was shown on the pane's stack and shows the object's *)
(* children, or its parent or node, taken from a bucket that the drill     *)
(* itself subscribes: the one of the object's namespace.                   *)
(*                                                                         *)
(* Connections are left to ClusterSessions: here a dial is under way, and  *)
(* comes back connected or failed.  A bucket that is subscribed has rows.  *)
(***************************************************************************)
EXTENDS Integers, Sequences, FiniteSets, SequencesExt

CONSTANTS
    Pane, Context, Kind,
    ClusterScoped,  \* kinds that have no namespace
    Synthetic,      \* kinds that no informer serves: containers, contexts
    Contexts,       \* the kind of the list of contexts
    Home,           \* the kind a pane rooted on it lands on: pods
    Ns, All,        \* namespaces; All stands for all of them
    DefaultNs,      \* the namespace a context names
    Children,       \* the kinds a drill from each kind shows: none or one
    Parents,        \* the kinds of its parent or node
    MaxDepth,       \* bound: frames on a stack, above the floor
    MaxDials        \* bound: contexts being dialed

ASSUME NavigationAssumption ==
    /\ ClusterScoped \subseteq Kind /\ Synthetic \subseteq Kind
    /\ Contexts \in Synthetic \cap ClusterScoped /\ Home \in Kind \ Synthetic
    /\ All \notin Ns /\ DefaultNs \in [Context -> Ns]
    /\ Children \in [Kind -> SUBSET Kind] /\ Parents \in [Kind -> SUBSET Kind]
    /\ \A k \in Kind : Contexts \notin Children[k] \cup Parents[k]  \* only goto-contexts
    /\ MaxDepth \in Nat /\ MaxDials \in Nat

VARIABLES
    pane,   \* the open panes: [kind, ns, ctx, rows, stack, floor]
    focus,  \* the focused one
    subs,   \* the informers of all stores: [ctx, kind, ns]
    live,   \* contexts with a connected cluster
    dials   \* contexts that are being dialed

vars == <<pane, focus, subs, live, dials>>

\* The rows of a pane: nothing, the list of a bucket, or what a drill found.
Rows == {"none", "list", "part"}

\* A frame remembers the pane as it was, and the namespace of the object it was
\* left from; the frame under the contexts list remembers no object.
NoObject == "no object"

Open == DOMAIN pane
Here == pane[focus]
EffectiveNs(v) == IF v.kind \in ClusterScoped THEN All ELSE v.ns
Key(ctx, kind, ns) == [ctx |-> ctx, kind |-> kind, ns |-> ns]
KeyOf(v) == Key(v.ctx, v.kind, EffectiveNs(v))
InDrillDown(p) == p.stack # <<>>
Levels(p) == ToSet(p.stack) \cup {[f \in {"kind", "ns", "ctx", "rows"} |-> p[f]]}

\* NavStackHasGVR looks at the frames, and ignores their context.
Shows(p, kind, ns) == p.kind = kind /\ EffectiveNs(p) = ns
HasGVR(p, kind, ns) == \E f \in ToSet(p.stack) : f.kind = kind /\ EffectiveNs(f) = ns
Uses(p, kind, ns) == Shows(p, kind, ns) \/ HasGVR(p, kind, ns)

\* The bucket a drill reads and subscribes.
DrillNs(from, kind, object) == IF {from, kind} \cap ClusterScoped # {} THEN All ELSE object
DrillKeys(ctx, from, kind, object) ==
    IF kind \in Synthetic \/ object = NoObject THEN {}
    ELSE {Key(ctx, kind, DrillNs(from, kind, object))}

\* The namespaces the selected object can be in.
Scope(p) ==
    IF InDrillDown(p)
    THEN LET f == Last(p.stack) IN
         IF f.object = NoObject THEN All ELSE DrillNs(f.kind, p.kind, f.object)
    ELSE EffectiveNs(p)
Objects(p) == IF Scope(p) = All THEN Ns ELSE {Scope(p)}

-----------------------------------------------------------------------------
(* The helpers of the handlers.                                            *)

Fresh(kind, ns, ctx) ==
    [kind |-> kind, ns |-> ns, ctx |-> ctx, rows |-> "none", stack |-> <<>>, floor |-> 0]
ResetNav(p) == [p EXCEPT !.stack = <<>>, !.floor = 0]
SetPlugin(p, k) == [p EXCEPT !.kind = k, !.rows = "none"]

\* subscribeAndPopulate: the rows, and the informer it asks for.
Populated(p, up) ==
    IF p.kind \in Synthetic \/ p.ctx \in up THEN [p EXCEPT !.rows = "list"] ELSE p
Wanted(p, up) == IF p.kind \in Synthetic \/ p.ctx \notin up THEN {} ELSE {KeyOf(p)}

\* List: the bucket of a key that is not subscribed is empty.
Listed(p) == IF p.kind \in Synthetic \/ KeyOf(p) \in subs THEN "list" ELSE "none"

\* unsubscribeIfUnused: any pane counts, whatever its context.
UnusedAnywhere(now, k) == \A p \in DOMAIN now : ~Uses(now[p], k.kind, k.ns)

\* unsubscribeOnStoreIfUnused: only the panes of that context count.
UnusedOn(now, k) == \A p \in DOMAIN now : now[p].ctx = k.ctx => ~Uses(now[p], k.kind, k.ns)

\* SyncRefs: a cluster no pane refers to goes, with its store.
Referenced(now) == {now[p].ctx : p \in DOMAIN now}
On(contexts, keys) == {k \in keys : k.ctx \in contexts}

Pushed(p, kind, object) ==
    [SetPlugin(p, kind) EXCEPT
        !.rows = "part",
        !.stack = Append(@, [kind |-> p.kind, ns |-> p.ns, ctx |-> p.ctx,
                             rows |-> p.rows, object |-> object])]

PopNav(p) ==
    LET f == Last(p.stack) IN
    [p EXCEPT !.kind = f.kind, !.ns = f.ns, !.ctx = f.ctx, !.rows = f.rows, !.stack = Front(@)]

\* refreshDrillDownSplit: the object the drill came from is looked for in the
\* bucket of its own list; what is found drills again.
Resolves(p) ==
    LET f == Last(p.stack) IN
    /\ f.object # NoObject
    /\ f.kind \in Synthetic \/ KeyOf([f EXCEPT !.ctx = p.ctx]) \in subs
RefreshKeys(p) ==
    LET f == Last(p.stack) IN
    IF Resolves(p) THEN DrillKeys(p.ctx, f.kind, p.kind, f.object) ELSE {}

-----------------------------------------------------------------------------
Init ==
    \E p \in Pane, k \in Kind \ Synthetic, ns \in Ns \cup {All}, c \in Context :
        /\ pane = [q \in {p} |-> Populated(Fresh(k, ns, c), {c})]
        /\ focus = p /\ subs = Wanted(Fresh(k, ns, c), {c})
        /\ live = {c} /\ dials = {}

Update(p) == pane' = [pane EXCEPT ![focus] = p]

\* Mutant: the frames do not count.
GotoForgetsFrames(k, ns) ==
    LET p == Populated([SetPlugin(ResetNav(Here), k) EXCEPT !.ns = ns], live)
        old == KeyOf(Here)
        shown == \E q \in Open \ {focus} : Shows(pane[q], old.kind, old.ns)
    IN
    /\ (ns # Here.ns => Here.kind \in ClusterScoped /\ k # Here.kind)
    /\ Update(p)
    /\ subs' = (subs \cup Wanted(p, live))
                 \ (IF Here.ctx \in live /\ k # Here.kind /\ ~shown THEN {old} ELSE {})
    /\ UNCHANGED <<focus, live, dials>>

\* goto-<resource>, the resource picker, and enter on a namespace, which also
\* changes the pane's namespace.
Goto(k, ns) ==
    LET p == Populated([SetPlugin(ResetNav(Here), k) EXCEPT !.ns = ns], live)
        now == [pane EXCEPT ![focus] = p]
        old == KeyOf(Here)
        left == Here.ctx \in live /\ k # Here.kind /\ UnusedAnywhere(now, old)
    IN
    /\ (ns # Here.ns => Here.kind \in ClusterScoped /\ k # Here.kind)
    /\ pane' = now
    /\ subs' = (subs \cup Wanted(p, live)) \ (IF left THEN {old} ELSE {})
    /\ UNCHANGED <<focus, live, dials>>

\* enter-detail, nav-parent and nav-node on a selected object.
Drill(k, object) ==
    /\ Here.ctx \in live /\ Here.rows # "none" /\ Len(Here.stack) < Here.floor + MaxDepth
    /\ k \in Children[Here.kind] \cup Parents[Here.kind] /\ object \in Objects(Here)
    /\ Update(Pushed(Here, k, object))
    /\ subs' = subs \cup DrillKeys(Here.ctx, Here.kind, k, object)
    /\ UNCHANGED <<focus, live, dials>>

\* goto-contexts
GotoContexts ==
    /\ Len(Here.stack) < Here.floor + MaxDepth /\ Here.kind # Contexts
    /\ Update(Pushed(Here, Contexts, NoObject))
    /\ UNCHANGED <<focus, subs, live, dials>>

\* clear-overlay, once there is nothing to clear: back, but not below the drill
\* the split was opened with.
Escape ==
    LET p == PopNav(Here) IN
    /\ Len(Here.stack) > Here.floor
    /\ CASE InDrillDown(p) -> Update(p) /\ subs' = subs \cup (IF p.ctx \in live THEN RefreshKeys(p) ELSE {})
         [] ~InDrillDown(p) /\ (p.ctx \in live \/ p.kind \in Synthetic) ->
              Update([p EXCEPT !.rows = Listed(p)]) /\ UNCHANGED subs
         [] OTHER -> Update(p) /\ UNCHANGED subs
    /\ UNCHANGED <<focus, live, dials>>

-----------------------------------------------------------------------------
(* Panes.                                                                  *)

Focus(p) == p \in Open /\ focus' = p /\ UNCHANGED <<pane, subs, live, dials>>

Opened(q, p) ==
    pane' = [s \in Open \cup {q} |-> IF s = q THEN p ELSE pane[s]] /\ focus' = q

\* split-<resource>
Split(q, k) ==
    LET p == Populated(Fresh(k, IF Here.ns = All THEN DefaultNs[Here.ctx] ELSE Here.ns, Here.ctx), live) IN
    /\ q \notin Open /\ Opened(q, p)
    /\ subs' = subs \cup Wanted(p, live)
    /\ UNCHANGED <<live, dials>>

\* split-children, split-parent, split-nav-node: a new pane with the list of
\* this one at its root, one drill above it, and a floor under that.
SplitDrilled(q, k, object) ==
    LET root == Populated(Fresh(Here.kind, IF Here.ns = All THEN DefaultNs[Here.ctx] ELSE Here.ns,
                                Here.ctx), live) IN
    /\ q \notin Open /\ Here.ctx \in live /\ Here.rows # "none"
    /\ k \in Children[Here.kind] \cup Parents[Here.kind] /\ object \in Objects(Here)
    /\ Opened(q, [Pushed(root, k, object) EXCEPT !.floor = 1])
    /\ subs' = subs \cup Wanted(root, live) \cup DrillKeys(Here.ctx, Here.kind, k, object)
    /\ UNCHANGED <<live, dials>>

\* Mutant: nothing is unsubscribed.
CloseKeepsInformer ==
    LET now == [p \in Open \ {focus} |-> pane[p]]  stay == live \cap Referenced(now) IN
    /\ Open # {focus} /\ pane' = now /\ focus' \in Open \ {focus}
    /\ subs' = On(stay, subs) /\ live' = stay /\ UNCHANGED dials

\* closeFocusedSplit
Close ==
    LET now == [p \in Open \ {focus} |-> pane[p]]
        old == KeyOf(Here)
        stay == live \cap Referenced(now)
    IN
    /\ Open # {focus} /\ pane' = now /\ focus' \in Open \ {focus}
    /\ subs' = On(stay, subs \ (IF UnusedOn(now, old) THEN {old} ELSE {}))
    /\ live' = stay /\ UNCHANGED dials

\* ResetForReload, then subscribeAndPopulate.
AtRoot(p) ==
    LET f == Head(p.stack) IN
    [ResetNav(IF InDrillDown(p) THEN [p EXCEPT !.kind = f.kind, !.ns = f.ns, !.ctx = f.ctx] ELSE p)
        EXCEPT !.rows = "none"]

ReloadAll ==
    /\ pane' = [p \in Open |-> Populated(AtRoot(pane[p]), live)]
    /\ subs' = UNION {Wanted(AtRoot(pane[p]), live) : p \in Open}
    /\ UNCHANGED <<focus, live, dials>>

-----------------------------------------------------------------------------
(* Namespaces and contexts.                                                *)

\* handleNamespaceSwitch
NamespaceSwitch(ns) ==
    LET p == Populated([ResetNav(Here) EXCEPT !.ns = ns, !.rows = "none"], live)
        now == [pane EXCEPT ![focus] = p]
        old == Key(Here.ctx, Here.kind, Here.ns)
    IN
    /\ Here.kind \notin ClusterScoped /\ ns # Here.ns
    /\ pane' = now
    /\ subs' = (subs \cup Wanted(p, live))
                 \ (IF Here.ctx \in live /\ UnusedAnywhere(now, old) THEN {old} ELSE {})
    /\ UNCHANGED <<focus, live, dials>>

Retargeted(p, c) == [ResetNav(p) EXCEPT !.ctx = c, !.rows = "none"]

\* What a row of the list of contexts goes back to before it switches.
UnderContexts(p) ==
    CASE p.kind = Contexts /\ InDrillDown(p) -> PopNav(p)
      [] p.kind = Contexts /\ ~InDrillDown(p) -> ResetNav(SetPlugin(p, Home))
      [] OTHER -> p

\* Mutant: the stack stays, with frames of the old context.
PaneSwitchKeepsStack(c) ==
    LET p == [UnderContexts(Here) EXCEPT !.ctx = c, !.rows = "none"]
        now == [pane EXCEPT ![focus] = p]
        stay == live \cap Referenced(now)
    IN
    /\ ~(UnderContexts(Here).ctx = c /\ c \in live)
    /\ Cardinality(dials) < MaxDials /\ pane' = now /\ dials' = dials \cup {c}
    /\ live' = stay /\ subs' = On(stay, subs) /\ UNCHANGED focus

\* handlePaneContextSwitch, from a row of the list of contexts or by command.
\* It unsubscribes nothing on the cluster the pane leaves.
PaneSwitch(c) ==
    LET under == UnderContexts(Here)
        stays == under.ctx = c /\ c \in live
        now == [pane EXCEPT ![focus] = IF stays THEN under ELSE Retargeted(under, c)]
        stay == live \cap Referenced(now)
    IN
    /\ now # pane /\ pane' = now /\ Cardinality(dials) < MaxDials
    /\ dials' = IF stays THEN dials ELSE dials \cup {c}
    /\ live' = stay /\ subs' = On(stay, subs) /\ UNCHANGED focus

\* handleGroupContextSwitch: all panes of the focused pane's context.
GroupSwitch(c) ==
    LET group == {p \in Open : pane[p].ctx = Here.ctx}
        now == [p \in Open |-> IF p \in group /\ c # Here.ctx THEN Retargeted(pane[p], c) ELSE pane[p]]
        stay == live \cap Referenced(now)
        old == {KeyOf(pane[p]) : p \in group}
    IN
    /\ ~(c = Here.ctx /\ c \in live) /\ Cardinality(dials) < MaxDials
    /\ pane' = now /\ dials' = dials \cup {c}
    /\ live' = stay /\ subs' = On(stay, subs \ {k \in old : UnusedOn(now, k)})
    /\ UNCHANGED focus

\* A pane that a ClusterReadyMsg finds on its context.
Readied(p, c) == Populated([p EXCEPT !.ns = DefaultNs[c]], {c})

\* handleClusterReady: every pane on the context is filled, drilled or not.
ClusterReady(c) ==
    LET mine == {p \in Open : pane[p].ctx = c} IN
    /\ c \in dials /\ dials' = dials \ {c}
    /\ pane' = [p \in Open |-> IF p \in mine THEN Readied(pane[p], c) ELSE pane[p]]
    /\ live' = IF mine = {} THEN live ELSE live \cup {c}
    /\ subs' = subs \cup UNION {Wanted(Readied(pane[p], c), {c}) : p \in mine}
    /\ UNCHANGED focus

DialFailed(c) == c \in dials /\ dials' = dials \ {c} /\ UNCHANGED <<pane, focus, subs, live>>

\* ResourceUpdatedMsg: lists of the bucket are read again, and drilled panes that
\* show the kind, or came from it, drill again.
Repainted(p, k) ==
    IF ~InDrillDown(p) /\ KeyOf(p) = k THEN [p EXCEPT !.rows = "list"]
    ELSE IF InDrillDown(p) /\ k.kind \in {p.kind, Last(p.stack).kind}
            /\ EffectiveNs(p) \in {k.ns, All} /\ p.ctx \in live /\ Resolves(p)
         THEN [p EXCEPT !.rows = "part"] ELSE p

ResourceUpdated(k) ==
    LET drilled == {p \in Open : InDrillDown(pane[p]) /\ Repainted(pane[p], k).rows = "part"
                                 /\ k.kind \in {pane[p].kind, Last(pane[p].stack).kind}
                                 /\ EffectiveNs(pane[p]) \in {k.ns, All} /\ pane[p].ctx \in live}
    IN
    /\ k \in subs
    /\ pane' = [p \in Open |-> Repainted(pane[p], k)]
    /\ subs' = subs \cup UNION {RefreshKeys(pane[p]) : p \in drilled}
    /\ UNCHANGED <<focus, live, dials>>

Next ==
    \/ \E k \in Kind, ns \in Ns \cup {All} : Goto(k, ns)
    \/ \E k \in Kind, object \in Ns : Drill(k, object)
    \/ GotoContexts \/ Escape \/ Close \/ ReloadAll
    \/ \E p \in Pane : Focus(p)
    \/ \E q \in Pane, k \in Kind : Split(q, k) \/ \E object \in Ns : SplitDrilled(q, k, object)
    \/ \E ns \in Ns \cup {All} : NamespaceSwitch(ns)
    \/ \E c \in Context : PaneSwitch(c) \/ GroupSwitch(c) \/ ClusterReady(c) \/ DialFailed(c)
    \/ \E k \in subs : ResourceUpdated(k)

Spec == Init /\ [][Next]_vars

-----------------------------------------------------------------------------
(* Properties.                                                             *)

TypeOK ==
    /\ focus \in Open /\ Open \subseteq Pane
    /\ \A p \in Open : \A f \in Levels(pane[p]) :
         f.kind \in Kind /\ f.ns \in Ns \cup {All} /\ f.ctx \in Context /\ f.rows \in Rows
    /\ subs \subseteq [ctx : live, kind : Kind \ Synthetic, ns : Ns \cup {All}]
    /\ live \subseteq Context /\ dials \subseteq Context

\* The list a pane shows, and those that back would bring it to, have their
\* informers: no other pane that leaves the same bucket takes one away.
LevelsAreFed ==
    \A p \in Open : pane[p].ctx \in live =>
        \A f \in Levels(pane[p]) :
            f.rows = "list" /\ f.kind \notin Synthetic => KeyOf(f) \in subs

\* Back never changes the cluster of a pane, and never goes below the drill a
\* split was opened with.
BackStaysHere ==
    \A p \in Open :
        /\ \A f \in ToSet(pane[p].stack) : f.ctx = pane[p].ctx
        /\ Len(pane[p].stack) >= pane[p].floor

\* The informer of a list that a pane leaves from its root is stopped once no
\* pane shows that kind and namespace, or comes from it, on any cluster.  Not so
\* when the pane is given another namespace because a dial came back.
Released(p) ==
    LET old == KeyOf(pane[p]) IN
    ~InDrillDown(pane[p]) /\ (\A q \in DOMAIN pane' : ~Uses(pane'[q], old.kind, old.ns))
        => old \notin subs'
LeftIsReleased ==
    [][(\A c \in Context : ~ClusterReady(c)) => \A p \in Open : Released(p)]_vars

=============================================================================
