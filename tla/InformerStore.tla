--------------------------- MODULE InformerStore ---------------------------
(***************************************************************************)
(* One Store (internal/k8s/store.go): a cache bucket and at most one       *)
(* informer per watch key, a debouncer, and the resource lists of the App  *)
(* that show what the store holds.                                         *)
(*                                                                         *)
(* The panes are served by the Update goroutine.  Concurrently run: each   *)
(* informer (client-go's reflector, and the handler goroutine that works   *)
(* off its queue), the timers of the debouncer, and the describe commands, *)
(* which subscribe to the events of a namespace off the Update goroutine.  *)
(* An informer that is cancelled stops later: what its handler is busy     *)
(* with, and what is queued until the stop is seen, is still handled.      *)
(***************************************************************************)
EXTENDS Naturals, Sequences, FiniteSets

CONSTANTS
    Key,        \* watch keys: a resource kind in a namespace
    EventKey,   \* the keys of events, which a describe subscribes to
    Object,     \* objects of one key
    Pane,       \* resource lists
    Informer,   \* bound: informers that run at once, stopping ones included
    NoKey, NoInformer,
    MaxQueue,   \* bound: undelivered events of an informer after its first list
    MaxMail     \* bound: ResourceUpdatedMsg of one key in flight

ASSUME StoreAssumption ==
    /\ EventKey \subseteq Key
    /\ IsFiniteSet(Object)   \* a list call returns finitely many
    /\ NoKey \notin Key
    /\ NoInformer \notin Informer
    /\ MaxQueue \in Nat /\ MaxMail \in Nat

VARIABLES
    server,     \* the objects of each key at the API server
    informers,  \* Store.informers: the informer registered for a key
    cache,      \* Store.cache: the objects of a bucket; a missing one is empty
    job,        \* the informer goroutines
    timers,     \* keys with a pending timer in the debouncer
    mail,       \* ResourceUpdatedMsg sent and not handled, per key
    watch,      \* the key a pane shows; NoKey when it is closed or elsewhere
    shown,      \* the objects a pane shows
    describing, \* event keys a running describe command will subscribe to
    attached,   \* the Manager still has the cluster of this store
    tainted,    \* history: keys a cancelled informer wrote to since the
                \* bucket was last cleared
    outlived    \* history: keys a describe subscribed to after the Manager
                \* had dropped the cluster

storeVars == <<informers, cache, timers, job>>
vars == <<server, informers, cache, job, timers, mail, watch, shown,
          describing, attached, tainted, outlived>>

Event == [add : BOOLEAN, obj : Object]

\* known is the informer's own index, queue the events its handler has not
\* seen; the handler is "pending" between writing the cache and the trigger.
Job == [key : Key \cup {NoKey}, cancelled : BOOLEAN, listed : BOOLEAN,
        synced : BOOLEAN, pending : BOOLEAN,
        known : SUBSET Object, queue : Seq(Event)]

Fresh(k) == [key |-> k, cancelled |-> FALSE, listed |-> FALSE, synced |-> FALSE,
             pending |-> FALSE, known |-> {}, queue |-> <<>>]

Idle == {i \in Informer : job[i].key = NoKey}

-----------------------------------------------------------------------------
(* The store's operations; each runs under Store.mu.                       *)

\* Subscribe to the keys K once the keys gone are unsubscribed: an informer for
\* each key without one.
Starts(K, gone) ==
    LET missing == {k \in K : k \in gone \/ informers[k] = NoInformer}
    IN  {f \in [missing -> Idle] : \A j, k \in missing : f[j] = f[k] => j = k}

\* Unsubscribe the keys gone, then start the informers of start.
Resubscribe(gone, start) ==
    /\ informers' = [k \in Key |-> IF k \in DOMAIN start THEN start[k]
                                   ELSE IF k \in gone THEN NoInformer
                                   ELSE informers[k]]
    /\ job' = [i \in Informer |->
                 IF \E k \in DOMAIN start : start[k] = i
                   THEN Fresh(CHOOSE k \in DOMAIN start : start[k] = i)
                 ELSE IF \E k \in gone : informers[k] = i
                   THEN [job[i] EXCEPT !.cancelled = TRUE]
                 ELSE job[i]]
    /\ cache' = [k \in Key |-> IF k \in gone THEN {} ELSE cache[k]]
    /\ timers' = timers \ gone
    /\ tainted' = tainted \ gone

-----------------------------------------------------------------------------
Init ==
    /\ server \in [Key -> SUBSET Object]
    /\ informers = [k \in Key |-> NoInformer]
    /\ cache = [k \in Key |-> {}]
    /\ job = [i \in Informer |-> Fresh(NoKey)]
    /\ timers = {} /\ describing = {} /\ tainted = {} /\ outlived = {}
    /\ mail = [k \in Key |-> 0]
    /\ watch = [p \in Pane |-> NoKey]
    /\ shown = [p \in Pane |-> {}]
    /\ attached = TRUE

Users(k, w) == {p \in Pane : w[p] = k}

\* Mutant: the panes that stay are not looked at.
UnusedSelfish(k, w) == {k} \cap Key

\* unsubscribeIfUnused, unsubscribeOnStoreIfUnused: k, unless a pane needs it.
Unused(k, w) == IF Users(k, w) = {} THEN {k} \cap Key ELSE {}

\* handleGotoPlugin, handleNamespaceSwitch, and the panes handleClusterReady or
\* handleSplit populates: subscribe to the new key, drop the old one when no
\* pane shows it (a pane of another context showing the same kind and namespace
\* keeps it as well).
Goto(p, k) ==
    /\ attached
    /\ watch' = [watch EXCEPT ![p] = k]
    /\ \E gone \in {Unused(watch[p], watch'), {}}, start \in Starts({k}, {}) :
         Resubscribe(gone, start)
    /\ shown' = [shown EXCEPT ![p] = cache[k]]
    /\ UNCHANGED <<server, mail, describing, attached, outlived>>

\* Mutant: the cluster is dropped, its informers are not stopped.
LeaveRunning(p, unsubscribe) ==
    /\ attached /\ watch[p] # NoKey
    /\ watch' = [watch EXCEPT ![p] = NoKey]
    /\ shown' = [shown EXCEPT ![p] = {}]
    /\ attached' \in IF \A q \in Pane : watch'[q] = NoKey THEN BOOLEAN ELSE {TRUE}
    /\ Resubscribe(IF unsubscribe THEN Unused(watch[p], watch') ELSE {}, <<>>)
    /\ UNCHANGED <<server, mail, describing, outlived>>

\* A pane closes, moves to another context with its group (both unsubscribe) or
\* alone (does not); SyncRefs tears the store down with UnsubscribeAll when no
\* pane refers to the cluster any more (terminal panes may).
Leave(p, unsubscribe) ==
    /\ attached /\ watch[p] # NoKey
    /\ watch' = [watch EXCEPT ![p] = NoKey]
    /\ shown' = [shown EXCEPT ![p] = {}]
    /\ attached' \in IF \A q \in Pane : watch'[q] = NoKey THEN BOOLEAN ELSE {TRUE}
    /\ Resubscribe(IF ~attached' THEN Key
                   ELSE IF unsubscribe THEN Unused(watch[p], watch') ELSE {}, <<>>)
    /\ UNCHANGED <<server, mail, describing, outlived>>

\* reloadAll: UnsubscribeAll, then every pane subscribes again.
Reload ==
    /\ attached
    /\ \E start \in Starts({watch[p] : p \in Pane} \ {NoKey}, Key) :
         Resubscribe(Key, start)
    /\ shown' = [p \in Pane |-> {}]
    /\ UNCHANGED <<server, mail, watch, describing, attached, outlived>>

\* Mutant: the list is not read again, the rows stay.
ResourceUpdatedNoList(k) ==
    /\ mail[k] > 0
    /\ mail' = [mail EXCEPT ![k] = @ - 1]
    /\ UNCHANGED <<server, storeVars, watch, shown, describing, attached, tainted,
                   outlived>>

\* Update, ResourceUpdatedMsg: list the store and repaint the panes of the key.
ResourceUpdated(k) ==
    /\ mail[k] > 0
    /\ mail' = [mail EXCEPT ![k] = @ - 1]
    /\ shown' = [p \in Pane |-> IF attached /\ watch[p] = k THEN cache[k] ELSE shown[p]]
    /\ UNCHANGED <<server, storeVars, watch, describing, attached, tainted, outlived>>

\* refreshDetailPanelOpts: a describe command is started with the store of the
\* focused pane.
Describe(k) ==
    /\ attached /\ \E p \in Pane : watch[p] # NoKey
    /\ describing' = describing \cup {k}
    /\ UNCHANGED <<server, storeVars, mail, watch, shown, attached, tainted, outlived>>

\* The command, off the Update goroutine: it subscribes on the store it was started
\* with, whether or not the Manager still has it, or its Describe failed.
DescribeRuns(k) ==
    /\ k \in describing
    /\ describing' = describing \ {k}
    /\ \/ /\ \E start \in Starts({k}, {}) : Resubscribe({}, start)
          /\ outlived' = IF attached THEN outlived ELSE outlived \cup {k}
       \/ UNCHANGED <<storeVars, tainted, outlived>>
    /\ UNCHANGED <<server, mail, watch, shown, attached>>
-----------------------------------------------------------------------------
(* The environment: the API server and client-go.                          *)

Change(k, o) ==
    /\ server' = [server EXCEPT ![k] = IF o \in @ THEN @ \ {o} ELSE @ \cup {o}]
    /\ UNCHANGED <<storeVars, mail, watch, shown, describing, attached, tainted,
                   outlived>>

Working(i) == job[i].key # NoKey /\ ~job[i].cancelled

jobOnly == <<server, informers, cache, timers, mail, watch, shown, describing,
             attached, tainted, outlived>>

Orders(S) == {s \in [1..Cardinality(S) -> S] : \A o \in S : \E n \in DOMAIN s : s[n] = o}

\* The reflector's first list: every object is queued for the handler.
Listed(i) ==
    /\ Working(i) /\ ~job[i].listed
    /\ \E s \in Orders(server[job[i].key]) :
         job' = [job EXCEPT ![i].listed = TRUE,
                            ![i].known = server[job[i].key],
                            ![i].queue = [n \in DOMAIN s |-> [add |-> TRUE, obj |-> s[n]]]]
    /\ UNCHANGED jobOnly

\* A watch event: one difference with the server is learnt.
Notice(i, o) ==
    /\ Working(i) /\ job[i].listed /\ Len(job[i].queue) < MaxQueue
    /\ (o \in job[i].known) # (o \in server[job[i].key])
    /\ LET added == o \in server[job[i].key]
       IN  job' = [job EXCEPT ![i].known = IF added THEN @ \cup {o} ELSE @ \ {o},
                              ![i].queue = Append(@, [add |-> added, obj |-> o])]
    /\ UNCHANGED jobOnly

\* The resync of the factory, every 30 seconds: a known object is an update
\* again.  Bound: one at a time, when the handler is idle.
Resync(i, o) ==
    /\ Working(i) /\ job[i].synced /\ job[i].queue = <<>>
    /\ o \in job[i].known
    /\ job' = [job EXCEPT ![i].queue = Append(@, [add |-> TRUE, obj |-> o])]
    /\ UNCHANGED jobOnly

-----------------------------------------------------------------------------
(* runInformer.                                                            *)

\* AddFunc, UpdateFunc, DeleteFunc: CacheUpsert or CacheDelete ...
Handle(i) ==
    LET k == job[i].key
        e == Head(job[i].queue)
    IN  /\ k # NoKey /\ job[i].queue # <<>> /\ ~job[i].pending
        /\ cache' = [cache EXCEPT ![k] = IF e.add THEN @ \cup {e.obj} ELSE @ \ {e.obj}]
        /\ job' = [job EXCEPT ![i].queue = Tail(@), ![i].pending = TRUE]
        /\ tainted' = IF job[i].cancelled THEN tainted \cup {k} ELSE tainted
        /\ UNCHANGED <<server, informers, timers, mail, watch, shown, describing, attached,
                       outlived>>

\* ... and the debouncer's Trigger, once the first list is synced.
Handled(i) ==
    /\ job[i].key # NoKey /\ job[i].pending
    /\ job' = [job EXCEPT ![i].pending = FALSE]
    /\ timers' = IF job[i].synced THEN timers \cup {job[i].key} ELSE timers
    /\ UNCHANGED <<server, informers, cache, mail, watch, shown, describing,
                   attached, tainted, outlived>>

Send(k) == /\ mail[k] < MaxMail
           /\ mail' = [mail EXCEPT ![k] = @ + 1]

\* Mutant: the first list is not announced.
SyncedQuietly(i) ==
    LET k == job[i].key
    IN  /\ k # NoKey /\ ~job[i].synced /\ (job[i].listed \/ job[i].cancelled)
        /\ job' = [job EXCEPT ![i].synced = TRUE]
        /\ UNCHANGED <<server, informers, cache, timers, mail, watch, shown, describing,
                       attached, tainted, outlived>>

\* WaitForCacheSync returned: the objects are listed (the handler may be behind)
\* or the informer was cancelled, which nobody is notified of.
Synced(i) ==
    LET k == job[i].key
    IN  /\ k # NoKey /\ ~job[i].synced /\ (job[i].listed \/ job[i].cancelled)
        /\ job' = [job EXCEPT ![i].synced = TRUE]
        /\ IF job[i].cancelled THEN mail' = mail ELSE Send(k)
        /\ UNCHANGED <<server, informers, cache, timers, watch, shown, describing,
                       attached, tainted, outlived>>

\* factory.Shutdown returned: what was still queued is dropped.
Stopped(i) ==
    /\ job[i].key # NoKey /\ job[i].cancelled /\ job[i].synced /\ ~job[i].pending
    /\ job' = [job EXCEPT ![i] = Fresh(NoKey)]
    /\ UNCHANGED jobOnly

\* The debouncer's timer fires: doNotify.
Fire(k) ==
    /\ k \in timers
    /\ timers' = timers \ {k}
    /\ Send(k)
    /\ UNCHANGED <<server, informers, cache, job, watch, shown, describing,
                   attached, tainted, outlived>>

Next ==
    \/ \E p \in Pane : \/ \E k \in Key : Goto(p, k)
                      \/ \E unsubscribe \in BOOLEAN : Leave(p, unsubscribe)
    \/ Reload
    \/ \E k \in EventKey : Describe(k) \/ DescribeRuns(k)
    \/ \E k \in Key : \/ ResourceUpdated(k) \/ Fire(k)
                     \/ \E o \in Object : Change(k, o)
    \/ \E i \in Informer : \/ Listed(i) \/ Handle(i) \/ Handled(i)
                          \/ Synced(i) \/ Stopped(i)
                          \/ \E o \in Object : Notice(i, o) \/ Resync(i, o)

Spec == Init /\ [][Next]_vars

\* Goroutines and timers run, the Update loop takes every message, and a watch
\* delivers what changed.  Users and the API server owe nothing.
FairSpec ==
    /\ Spec
    /\ \A k \in Key : WF_vars(ResourceUpdated(k)) /\ WF_vars(Fire(k))
    /\ \A i \in Informer : /\ WF_vars(Listed(i)) /\ WF_vars(Handle(i))
                          /\ WF_vars(Handled(i)) /\ WF_vars(Synced(i))
                          /\ WF_vars(Stopped(i))
                          /\ \A o \in Object : WF_vars(Notice(i, o))

-----------------------------------------------------------------------------
TypeOK ==
    /\ server \in [Key -> SUBSET Object]
    /\ informers \in [Key -> Informer \cup {NoInformer}]
    /\ cache \in [Key -> SUBSET Object]
    /\ job \in [Informer -> Job]
    /\ timers \in SUBSET Key
    /\ mail \in [Key -> Nat]
    /\ watch \in [Pane -> Key \cup {NoKey}]
    /\ shown \in [Pane -> SUBSET Object]
    /\ describing \in SUBSET EventKey
    /\ attached \in BOOLEAN
    /\ tainted \in SUBSET Key
    /\ outlived \in SUBSET EventKey

\* The store's map and the goroutines agree: an informer that was not cancelled is
\* the one registered for its key, and what is registered runs, whatever switches,
\* reloads and describes run beside each other.  Whether anybody still has the
\* store to cancel it is DroppedStoreIsIdle.
RegisteredIsWorking ==
    /\ \A i \in Informer : Working(i) => informers[job[i].key] = i
    /\ \A k \in Key : informers[k] # NoInformer =>
          /\ job[informers[k]].key = k
          /\ ~job[informers[k]].cancelled

\* A store the Manager has dropped runs no informer, however many a reload, a goto
\* or a describe started before the last pane left.  The exception is a describe
\* that was under way at that time and subscribes afterwards: outlived.
DroppedStoreIsIdle ==
    ~attached => \A i \in Informer : Working(i) => job[i].key \in outlived

\* Together: whatever switches, reloads, describes and teardowns run beside each
\* other, every informer at work is registered in a store that the Manager has, and
\* can so be stopped, but for the outlived ones.
InformersAreHeld == RegisteredIsWorking /\ DroppedStoreIsIdle

\* What the comment of SyncRefs says, "any cluster whose pane count is zero is torn
\* down (its informers stopped)", without that exception: the describe's informer
\* runs on in a store that nobody has any more, and nothing ever cancels it.
NoInformerOutlivesItsCluster ==
    ~attached => \A i \in Informer : ~Working(i)

\* A pane's key has an informer: another pane that leaves the key, a reload, or
\* the teardown of the cluster never cuts a pane off.
PaneIsFed ==
    \A p \in Pane : watch[p] # NoKey => attached /\ informers[watch[p]] # NoInformer

\* Nothing is under way for k: the watch is level, and no handler, timer or
\* message is left.
Settled(k) ==
    LET i == informers[k]
    IN  /\ i # NoInformer
        /\ job[i].synced /\ ~job[i].pending /\ job[i].queue = <<>>
        /\ job[i].known = server[k]
        /\ k \notin timers /\ mail[k] = 0

\* No lost wake-up: when all is quiet a pane shows what the server has, through
\* the suppression of the first list, the debouncer and the re-read.  The one
\* exception is a bucket a cancelled informer wrote to.
SettledPaneIsCurrent ==
    \A p \in Pane : watch[p] # NoKey /\ watch[p] \notin tainted /\ Settled(watch[p])
                    => shown[p] = server[watch[p]]

\* A pane that stays on a key whose informer stays, while the objects no longer
\* change, comes to show them for good, unless a cancelled informer interferes.
PaneCatchesUp ==
    \A p \in Pane, k \in Key, i \in Informer, objs \in SUBSET Object :
        <>[](watch[p] = k /\ informers[k] = i /\ server[k] = objs /\ k \notin tainted)
            => <>[](shown[p] = objs)
=============================================================================
