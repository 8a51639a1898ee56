----------------------- MODULE InformerStore_proofs -----------------------
(***************************************************************************)
(* Proofs that the informers of a Store are the registered ones, that every*)
(* pane keeps an informer, and that a pane at rest shows what the server   *)
(* has, for any keys, objects, panes and informers.                        *)
(***************************************************************************)
EXTENDS InformerStore, FiniteSetTheorems, TLAPS

\* Informers to start: one idle goroutine per key, for keys that have none left.
Startable(start, gone) ==
    /\ DOMAIN start \subseteq Key
    /\ start \in [DOMAIN start -> Idle]
    /\ \A j, k \in DOMAIN start : start[j] = start[k] => j = k
    /\ \A k \in DOMAIN start : k \in gone \/ informers[k] = NoInformer

\* What Subscribe may start is startable, and no key of K is left without.
LEMMA StartsStartable ==
    ASSUME NEW gone, NEW K \in SUBSET Key, NEW start \in Starts(K, gone)
    PROVE  /\ Startable(start, gone)
           /\ \A k \in K \ DOMAIN start : k \notin gone /\ informers[k] # NoInformer
  BY DEF Starts, Startable

\* Nothing to start.
LEMMA NothingToStart == ASSUME NEW gone PROVE Startable(<<>>, gone) /\ DOMAIN <<>> = {}
  BY DEF Startable

\* A fresh informer is a well-formed job.
LEMMA FreshTyped == ASSUME NEW k \in Key \cup {NoKey} PROVE Fresh(k) \in Job
  BY DEF Fresh, Job

\* The store's operations keep its maps typed and its informers the registered ones.
LEMMA ResubscribeKeeps ==
    ASSUME TypeOK, RegisteredIsWorking, NEW gone \in SUBSET Key, NEW start,
           Startable(start, gone), Resubscribe(gone, start)
    PROVE  /\ informers' \in [Key -> Informer \cup {NoInformer}]
           /\ job' \in [Informer -> Job]
           /\ cache' \in [Key -> SUBSET Object]
           /\ timers' \in SUBSET Key
           /\ tainted' \in SUBSET Key
           /\ RegisteredIsWorking'
<1>1. \A k \in DOMAIN start : start[k] \in Informer /\ job[start[k]].key = NoKey
  BY DEF Startable, Idle
<1>2. informers' \in [Key -> Informer \cup {NoInformer}]
  BY <1>1 DEF Resubscribe, TypeOK
<1>3. ASSUME NEW i \in Informer
      PROVE  /\ job'[i] \in Job
             /\ \/ \E k \in DOMAIN start : start[k] = i /\ job'[i] = Fresh(k)
                \/ /\ \A k \in DOMAIN start : start[k] # i
                   /\ \E k \in gone : informers[k] = i
                   /\ job'[i] = [job[i] EXCEPT !.cancelled = TRUE]
                \/ /\ \A k \in DOMAIN start : start[k] # i
                   /\ \A k \in gone : informers[k] # i
                   /\ job'[i] = job[i]
  <2>1. CASE \E k \in DOMAIN start : start[k] = i
    <3> DEFINE c == CHOOSE k \in DOMAIN start : start[k] = i
    <3>1. c \in DOMAIN start /\ start[c] = i
      BY <2>1
    <3>2. job'[i] = Fresh(c)
      BY <2>1 DEF Resubscribe
    <3>3. c \in Key
      BY <3>1 DEF Startable
    <3> QED BY <3>1, <3>2, <3>3, FreshTyped
  <2>2. CASE (\A k \in DOMAIN start : start[k] # i) /\ \E k \in gone : informers[k] = i
    <3>1. job'[i] = [job[i] EXCEPT !.cancelled = TRUE]
      BY <2>2 DEF Resubscribe
    <3>2. job[i] \in Job
      BY DEF TypeOK
    <3>3. job'[i] \in Job
      BY <3>1, <3>2 DEF Job
    <3> QED BY <2>2, <3>1, <3>3
  <2>3. CASE (\A k \in DOMAIN start : start[k] # i) /\ \A k \in gone : informers[k] # i
    BY <2>3 DEF Resubscribe, TypeOK
  <2> QED BY <2>1, <2>2, <2>3
<1>4. job' \in [Informer -> Job]
  BY <1>3 DEF Resubscribe
<1>5. cache' \in [Key -> SUBSET Object] /\ timers' \in SUBSET Key /\ tainted' \in SUBSET Key
  BY DEF Resubscribe, TypeOK
<1>6. ASSUME NEW i \in Informer, Working(i)' PROVE informers'[job'[i].key] = i
  <2>1. CASE \E k \in DOMAIN start : start[k] = i /\ job'[i] = Fresh(k)
    BY <2>1 DEF Fresh, Resubscribe, Startable
  <2>2. CASE job'[i] = [job[i] EXCEPT !.cancelled = TRUE]
    BY <2>2, <1>6 DEF Working, TypeOK, Job
  <2>3. CASE job'[i] = job[i] /\ \A k \in gone : informers[k] # i
    <3>1. Working(i) /\ job[i].key \in Key
      BY <2>3, <1>6 DEF Working, TypeOK, Job
    <3>2. informers[job[i].key] = i
      BY <3>1 DEF RegisteredIsWorking
    <3>3. job[i].key \notin gone /\ job[i].key \notin DOMAIN start
      BY <2>3, <3>2, StoreAssumption DEF Startable
    <3> QED BY <2>3, <3>1, <3>2, <3>3 DEF Resubscribe
  <2> QED BY <1>3, <2>1, <2>2, <2>3
<1>7. ASSUME NEW k \in Key, informers'[k] # NoInformer
      PROVE  job'[informers'[k]].key = k /\ ~job'[informers'[k]].cancelled
  <2>1. CASE k \in DOMAIN start
    <3>1. informers'[k] = start[k] /\ start[k] \in Informer
      BY <2>1, <1>1 DEF Resubscribe
    <3>2. job'[start[k]] = Fresh(k)
      BY <2>1, <3>1, <1>3 DEF Startable
    <3> QED BY <3>1, <3>2 DEF Fresh
  <2>2. CASE k \notin DOMAIN start
    <3>1. k \notin gone /\ informers'[k] = informers[k] /\ informers[k] \in Informer
      BY <2>2, <1>7 DEF Resubscribe, TypeOK
    <3>2. job[informers[k]].key = k /\ ~job[informers[k]].cancelled
      BY <3>1, StoreAssumption DEF RegisteredIsWorking
    <3>3. \A j \in gone : informers[j] # informers[k]
      BY <3>1, <3>2, StoreAssumption DEF RegisteredIsWorking
    <3>4. \A j \in DOMAIN start : start[j] # informers[k]
      BY <3>2, <1>1, StoreAssumption
    <3> QED BY <3>1, <3>2, <3>3, <3>4, <1>3
  <2> QED BY <2>1, <2>2
<1> QED BY <1>2, <1>4, <1>5, <1>6, <1>7 DEF RegisteredIsWorking
-----------------------------------------------------------------------------
\* The inductive invariant: what a step needs to know of the reachable states.
StoreInv == TypeOK /\ RegisteredIsWorking /\ PaneIsFed /\ DroppedStoreIsIdle

\* An empty store with no pane on it.
LEMMA StoreInvInit == Init => StoreInv
  BY StoreAssumption DEF Init, StoreInv, TypeOK, RegisteredIsWorking, PaneIsFed,
     DroppedStoreIsIdle, Working, Fresh, Job

\* The steps that subscribe and unsubscribe.
LEMMA StoreInvUsers ==
    ASSUME StoreInv,
           \/ \E p \in Pane, k \in Key : Goto(p, k)
           \/ \E p \in Pane, unsubscribe \in BOOLEAN : Leave(p, unsubscribe)
           \/ Reload
           \/ \E k \in EventKey : DescribeRuns(k)
    PROVE  StoreInv'
<1> USE DEF StoreInv
<1>1. ASSUME NEW p \in Pane, NEW k \in Key, Goto(p, k) PROVE StoreInv'
  <2>1. PICK gone \in {Unused(watch[p], watch'), {}}, start \in Starts({k}, {}) :
           Resubscribe(gone, start)
    BY <1>1 DEF Goto
  <2>2. gone \in SUBSET Key /\ \A q \in Pane : watch'[q] \notin gone
    BY <2>1 DEF Unused, Users
  <2>3. Startable(start, {}) /\ (k \in DOMAIN start \/ informers[k] # NoInformer)
    BY <2>1, StartsStartable, {k} \in SUBSET Key
  <2>4. Startable(start, gone)
    BY <2>3 DEF Startable
  <2>5. TypeOK' /\ RegisteredIsWorking'
    BY <1>1, <2>1, <2>2, <2>4, ResubscribeKeeps DEF Goto, TypeOK
  <2>6. ASSUME NEW q \in Pane, watch'[q] # NoKey
        PROVE  attached' /\ informers'[watch'[q]] # NoInformer
    <3>1. attached' /\ watch'[q] \in Key /\ watch'[q] \notin gone
      BY <1>1, <2>2, <2>5, <2>6 DEF Goto, TypeOK
    <3>2. watch'[q] \in DOMAIN start \/ informers[watch'[q]] # NoInformer
      BY <1>1, <2>3, <2>6 DEF Goto, PaneIsFed, TypeOK
    <3> QED BY <2>1, <2>4, <3>1, <3>2, StoreAssumption DEF Resubscribe, Startable, Idle
  <2>7. DroppedStoreIsIdle'
    BY <1>1 DEF Goto, DroppedStoreIsIdle
  <2> QED BY <2>5, <2>6, <2>7 DEF PaneIsFed
<1>2. ASSUME NEW p \in Pane, NEW unsubscribe \in BOOLEAN, Leave(p, unsubscribe)
      PROVE  StoreInv'
  <2> DEFINE gone == IF ~attached' THEN Key
                     ELSE IF unsubscribe THEN Unused(watch[p], watch') ELSE {}
  <2>1. Resubscribe(gone, <<>>) /\ Startable(<<>>, gone) /\ gone \in SUBSET Key
    BY <1>2, NothingToStart DEF Leave, Unused
  <2>2. TypeOK' /\ RegisteredIsWorking'
    <3>1. RegisteredIsWorking' /\ informers' \in [Key -> Informer \cup {NoInformer}]
          /\ job' \in [Informer -> Job] /\ cache' \in [Key -> SUBSET Object]
          /\ timers' \in SUBSET Key /\ tainted' \in SUBSET Key
      BY <2>1, ResubscribeKeeps
    <3>2. attached' \in BOOLEAN
      BY <1>2 DEF Leave
    <3>3. watch' \in [Pane -> Key \cup {NoKey}] /\ shown' \in [Pane -> SUBSET Object]
      BY <1>2 DEF Leave, TypeOK
    <3> QED BY <1>2, <3>1, <3>2, <3>3 DEF Leave, TypeOK
  <2>3. ASSUME NEW q \in Pane, watch'[q] # NoKey
        PROVE  attached' /\ informers'[watch'[q]] # NoInformer
    <3>1. attached'
      BY <1>2, <2>3 DEF Leave
    <3>2. watch'[q] \in Key /\ watch'[q] = watch[q]
      BY <1>2, <2>2, <2>3 DEF Leave, TypeOK
    <3>3. watch'[q] \notin gone
      BY <3>1 DEF Unused, Users
    <3> QED BY <2>1, <2>3, <3>1, <3>2, <3>3 DEF Resubscribe, PaneIsFed
  <2>4. ASSUME ~attached', NEW i \in Informer PROVE ~Working(i)'
    <3>1. gone = Key
      BY <2>4
    <3>2. \A k \in Key : informers'[k] = NoInformer
      BY <2>1, <3>1 DEF Resubscribe
    <3> QED BY <2>2, <3>2, StoreAssumption DEF RegisteredIsWorking, TypeOK, Working, Job
  <2> QED BY <2>2, <2>3, <2>4 DEF PaneIsFed, DroppedStoreIsIdle
<1>3. ASSUME Reload PROVE StoreInv'
  <2> DEFINE K == {watch[p] : p \in Pane} \ {NoKey}
  <2>1. K \in SUBSET Key
    BY DEF TypeOK
  <2>2. PICK start \in Starts(K, Key) : Resubscribe(Key, start)
    BY <1>3 DEF Reload
  <2>3. Startable(start, Key) /\ \A k \in K : k \in DOMAIN start
    BY <2>1, <2>2, StartsStartable
  <2>4. TypeOK' /\ RegisteredIsWorking'
    BY <1>3, <2>2, <2>3, ResubscribeKeeps DEF Reload, TypeOK
  <2>5. \A q \in Pane : watch'[q] # NoKey =>
            attached' /\ informers'[watch'[q]] # NoInformer
    BY <1>3, <2>1, <2>2, <2>3, StoreAssumption DEF Reload, Resubscribe, Startable, Idle
  <2>6. DroppedStoreIsIdle'
    BY <1>3 DEF Reload, DroppedStoreIsIdle
  <2> QED BY <2>4, <2>5, <2>6 DEF PaneIsFed
<1>4. ASSUME NEW k \in EventKey, DescribeRuns(k) PROVE StoreInv'
  <2>1. CASE UNCHANGED <<storeVars, tainted, outlived>>
    BY <1>4, <2>1 DEF DescribeRuns, storeVars, TypeOK, RegisteredIsWorking, Working, PaneIsFed,
                      DroppedStoreIsIdle
  <2>2. CASE /\ \E start \in Starts({k}, {}) : Resubscribe({}, start)
             /\ outlived' = IF attached THEN outlived ELSE outlived \cup {k}
    <3>1. PICK start \in Starts({k}, {}) : Resubscribe({}, start)
      BY <2>2
    <3>2. Startable(start, {})
      BY StartsStartable, StoreAssumption, {k} \in SUBSET Key
    <3>3. TypeOK' /\ RegisteredIsWorking'
      BY <1>4, <2>2, <3>1, <3>2, ResubscribeKeeps DEF DescribeRuns, TypeOK
    <3>4. \A q \in Pane : watch'[q] # NoKey =>
              attached' /\ informers'[watch'[q]] # NoInformer
      BY <1>4, <3>1, <3>2, StoreAssumption
         DEF DescribeRuns, Resubscribe, Startable, Idle, PaneIsFed, TypeOK
    <3>5. ASSUME ~attached', NEW i \in Informer, Working(i)' PROVE job'[i].key \in outlived'
      <4>1. ~attached /\ outlived' = outlived \cup {k}
        BY <1>4, <2>2, <3>5 DEF DescribeRuns
      <4>2. informers'[job'[i].key] = i /\ job'[i].key \in Key
        BY <3>3, <3>5 DEF RegisteredIsWorking, Working, TypeOK, Job
      <4>3. CASE job'[i].key = k
        BY <4>1, <4>3
      <4>4. CASE job'[i].key # k
        <5>1. job'[i].key \notin DOMAIN start
          BY <3>1, <4>4 DEF Starts
        <5>2. informers[job'[i].key] = i
          BY <3>1, <4>2, <5>1 DEF Resubscribe
        <5>3. job[i].key = job'[i].key /\ ~job[i].cancelled
          BY <3>5, <4>2, <5>2, StoreAssumption DEF RegisteredIsWorking
        <5> QED BY <3>5, <4>1, <4>2, <5>3, StoreAssumption DEF DroppedStoreIsIdle, Working
      <4> QED BY <4>3, <4>4
    <3> QED BY <3>3, <3>4, <3>5 DEF PaneIsFed, DroppedStoreIsIdle
  <2> QED BY <1>4, <2>1, <2>2 DEF DescribeRuns
<1> QED BY <1>1, <1>2, <1>3, <1>4
\* A step of client-go or of a handler: keys and cancellations stay, or a
\* cancelled informer ends.
WorkStays ==
    \A i \in Informer :
        \/ job'[i].key = job[i].key /\ job'[i].cancelled = job[i].cancelled
        \/ job[i].cancelled /\ job'[i] = Fresh(NoKey)

\* Such a step leaves the registered informers and the panes' informers alone.
LEMMA JobStepKeeps ==
    ASSUME StoreInv, informers' = informers, watch' = watch, attached' = attached,
           outlived' = outlived, WorkStays
    PROVE  RegisteredIsWorking' /\ PaneIsFed' /\ DroppedStoreIsIdle'
<1>1. ASSUME NEW i \in Informer, Working(i)' PROVE informers'[job'[i].key] = i
  <2>1. job'[i] # Fresh(NoKey)
    BY <1>1 DEF Working, Fresh
  <2>2. job'[i].key = job[i].key /\ job'[i].cancelled = job[i].cancelled
    BY <2>1 DEF WorkStays
  <2> QED BY <1>1, <2>2 DEF Working, StoreInv, RegisteredIsWorking
<1>2. ASSUME NEW k \in Key, informers'[k] # NoInformer
      PROVE  job'[informers'[k]].key = k /\ ~job'[informers'[k]].cancelled
  <2>1. informers[k] \in Informer /\ job[informers[k]].key = k /\ ~job[informers[k]].cancelled
    BY <1>2 DEF StoreInv, TypeOK, RegisteredIsWorking
  <2> QED BY <2>1 DEF WorkStays
<1>3. DroppedStoreIsIdle'
  <2>1. ASSUME NEW i \in Informer, Working(i)'
        PROVE  Working(i) /\ job'[i].key = job[i].key
    BY <2>1 DEF Working, WorkStays, Fresh
  <2> QED BY <2>1 DEF StoreInv, DroppedStoreIsIdle
<1> QED BY <1>1, <1>2, <1>3 DEF StoreInv, RegisteredIsWorking, PaneIsFed

\* Such a step that changes nothing but the jobs.
LEMMA JobRewritten ==
    ASSUME StoreInv, UNCHANGED jobOnly, NEW i \in Informer, NEW r \in Job,
           r.key = job[i].key /\ r.cancelled = job[i].cancelled,
           job' = [job EXCEPT ![i] = r]
    PROVE  StoreInv'
<1>1. /\ job' \in [Informer -> Job] /\ informers' = informers /\ watch' = watch
      /\ attached' = attached /\ outlived' = outlived
  BY DEF StoreInv, jobOnly, TypeOK
<1>2. ASSUME NEW j \in Informer
      PROVE  job'[j].key = job[j].key /\ job'[j].cancelled = job[j].cancelled
  <2>1. job \in [Informer -> Job]
    BY DEF StoreInv, TypeOK
  <2>2. job'[j] = IF j = i THEN r ELSE job[j]
    BY <2>1
  <2> QED BY <2>2
<1>3. RegisteredIsWorking' /\ PaneIsFed' /\ DroppedStoreIsIdle'
  BY <1>1, <1>2, JobStepKeeps DEF WorkStays
<1> QED BY <1>1, <1>3 DEF StoreInv, jobOnly, TypeOK

\* The steps of the informers.
LEMMA StoreInvInformer ==
    ASSUME StoreInv, NEW i \in Informer,
           \/ Listed(i) \/ Handle(i) \/ Handled(i) \/ Synced(i) \/ Stopped(i)
           \/ \E o \in Object : Notice(i, o) \/ Resync(i, o)
    PROVE  StoreInv'
<1> USE DEF StoreInv
<1>0. job \in [Informer -> Job] /\ job[i] \in Job
  BY DEF TypeOK
<1>1. CASE Listed(i)
  <2> DEFINE objs == server[job[i].key]
  <2>1. job[i].key \in Key /\ objs \in SUBSET Object
    BY <1>0, <1>1 DEF Listed, Working, TypeOK, Job
  <2>2. Cardinality(objs) \in Nat
    BY <2>1, StoreAssumption, FS_Subset, FS_CardinalityType
  <2> HIDE DEF objs
  <2>3. PICK s \in Orders(objs) :
          job' = [job EXCEPT ![i].listed = TRUE,
                             ![i].known = objs,
                             ![i].queue = [n \in DOMAIN s |-> [add |-> TRUE, obj |-> s[n]]]]
    BY <1>1 DEF Listed, objs
  <2> DEFINE queue == [n \in DOMAIN s |-> [add |-> TRUE, obj |-> s[n]]]
  <2>4. queue \in Seq(Event)
    <3>1. s \in [1..Cardinality(objs) -> objs]
      BY <2>3 DEF Orders
    <3>2. queue \in [1..Cardinality(objs) -> Event]
      BY <3>1, <2>1 DEF Event
    <3> QED BY <2>2, <3>2
  <2>5. job' = [job EXCEPT ![i].listed = TRUE, ![i].known = objs, ![i].queue = queue]
    BY <2>3
  <2> HIDE DEF queue
  <2> DEFINE r == [job[i] EXCEPT !.listed = TRUE, !.known = objs, !.queue = queue]
  <2>6. r \in Job /\ r.key = job[i].key /\ r.cancelled = job[i].cancelled
    BY <1>0, <2>1, <2>4 DEF Job
  <2>7. job' = [job EXCEPT ![i] = r]
    BY <1>0, <2>5 DEF Job
  <2>8. UNCHANGED jobOnly
    BY <1>1 DEF Listed
  <2> HIDE DEF r
  <2> QED BY <2>6, <2>7, <2>8, JobRewritten
<1>2. CASE Handle(i)
  <2>1. job[i].key \in Key /\ job[i].queue \in Seq(Event) /\ job[i].queue # <<>>
    BY <1>0, <1>2 DEF Handle, Job
  <2>2. Head(job[i].queue) \in Event /\ Tail(job[i].queue) \in Seq(Event)
    BY <2>1
  <2>3. job' \in [Informer -> Job]
    BY <1>0, <1>2, <2>2 DEF Handle, Job
  <2>4. RegisteredIsWorking' /\ PaneIsFed' /\ DroppedStoreIsIdle'
    <3>1. WorkStays
      BY <1>0, <1>2 DEF Handle, Job, WorkStays
    <3> QED BY <1>2, <3>1, JobStepKeeps DEF Handle
  <2>5. cache' \in [Key -> SUBSET Object] /\ tainted' \in SUBSET Key
    BY <1>2, <2>1, <2>2 DEF Handle, TypeOK, Event
  <2> QED BY <1>2, <2>3, <2>4, <2>5 DEF Handle, TypeOK
<1>3. CASE Handled(i)
  <2>0. job' \in [Informer -> Job]
    BY <1>0, <1>3 DEF Handled, Job
  <2>1. RegisteredIsWorking' /\ PaneIsFed' /\ DroppedStoreIsIdle'
    <3>1. WorkStays
      <4>1. ASSUME NEW j \in Informer
            PROVE  job'[j].key = job[j].key /\ job'[j].cancelled = job[j].cancelled
        <5>1. CASE j = i
          BY <1>0, <1>3, <5>1 DEF Handled, Job
        <5>2. CASE j # i
          BY <1>0, <1>3, <5>2 DEF Handled
        <5> QED BY <5>1, <5>2
      <4> QED BY <4>1 DEF WorkStays
    <3> QED BY <1>3, <3>1, JobStepKeeps DEF Handled
  <2>2. job[i].key \in Key \cup {NoKey}
    BY <1>0 DEF Job
  <2>3. timers' \in SUBSET Key
    BY <1>3, <2>2 DEF Handled, TypeOK
  <2> QED BY <1>3, <2>0, <2>1, <2>3 DEF Handled, TypeOK
<1>4. CASE Synced(i)
  <2>0. job' \in [Informer -> Job]
    BY <1>0, <1>4 DEF Synced, Job
  <2>1. RegisteredIsWorking' /\ PaneIsFed' /\ DroppedStoreIsIdle'
    <3>1. WorkStays
      <4>1. ASSUME NEW j \in Informer
            PROVE  job'[j].key = job[j].key /\ job'[j].cancelled = job[j].cancelled
        <5>1. CASE j = i
          BY <1>0, <1>4, <5>1 DEF Synced, Job
        <5>2. CASE j # i
          BY <1>0, <1>4, <5>2 DEF Synced
        <5> QED BY <5>1, <5>2
      <4> QED BY <4>1 DEF WorkStays
    <3> QED BY <1>4, <3>1, JobStepKeeps DEF Synced
  <2>2. mail' \in [Key -> Nat]
    BY <1>4 DEF Synced, Send, TypeOK
  <2> QED BY <1>4, <2>0, <2>1, <2>2 DEF Synced, TypeOK
<1>5. CASE Stopped(i)
  <2>1. job' \in [Informer -> Job]
    BY <1>0, <1>5, FreshTyped DEF Stopped
  <2>2. RegisteredIsWorking' /\ PaneIsFed' /\ DroppedStoreIsIdle'
    <3>1. WorkStays
      <4>1. \A j \in Informer \ {i} : job'[j] = job[j]
        BY <1>0, <1>5 DEF Stopped
      <4>2. job[i].cancelled /\ job'[i] = Fresh(NoKey)
        BY <1>0, <1>5 DEF Stopped
      <4> QED BY <4>1, <4>2 DEF WorkStays
    <3> QED BY <1>5, <3>1, JobStepKeeps DEF Stopped, jobOnly
  <2> QED BY <1>5, <2>1, <2>2 DEF Stopped, jobOnly, TypeOK
<1>6. ASSUME NEW o \in Object, Notice(i, o) PROVE StoreInv'
  <2> DEFINE added == o \in server[job[i].key]
             known == IF added THEN job[i].known \cup {o} ELSE job[i].known \ {o}
             event == [add |-> added, obj |-> o]
             queue == Append(job[i].queue, event)
  <2>1. job[i].queue \in Seq(Event) /\ job[i].known \in SUBSET Object
    BY <1>0 DEF Job
  <2>2. known \in SUBSET Object
    BY <2>1
  <2>3. added \in BOOLEAN
    OBVIOUS
  <2>4. event \in Event
    BY <2>3, Zenon DEF Event
  <2>5. queue \in Seq(Event)
    BY <2>1, <2>4
  <2>6. job' = [job EXCEPT ![i].known = known, ![i].queue = queue]
    BY <1>6 DEF Notice
  <2> HIDE DEF known, queue
  <2> DEFINE r == [job[i] EXCEPT !.known = known, !.queue = queue]
  <2>7. r \in Job /\ r.key = job[i].key /\ r.cancelled = job[i].cancelled
    BY <1>0, <2>2, <2>5 DEF Job
  <2>8. job' = [job EXCEPT ![i] = r]
    BY <1>0, <2>6 DEF Job
  <2>9. UNCHANGED jobOnly
    BY <1>6 DEF Notice
  <2> HIDE DEF r
  <2> QED BY <2>7, <2>8, <2>9, JobRewritten
<1>7. ASSUME NEW o \in Object, Resync(i, o) PROVE StoreInv'
  <2> DEFINE queue == Append(job[i].queue, [add |-> TRUE, obj |-> o])
  <2>1. queue \in Seq(Event)
    BY <1>0 DEF Job, Event
  <2>2. job' = [job EXCEPT ![i].queue = queue]
    BY <1>7 DEF Resync
  <2> HIDE DEF queue
  <2> DEFINE r == [job[i] EXCEPT !.queue = queue]
  <2>3. r \in Job /\ r.key = job[i].key /\ r.cancelled = job[i].cancelled
    BY <1>0, <2>1 DEF Job
  <2>4. job' = [job EXCEPT ![i] = r] /\ UNCHANGED jobOnly
    BY <1>0, <1>7, <2>2 DEF Resync, Job
  <2> HIDE DEF r
  <2> QED BY <2>3, <2>4, JobRewritten
<1> QED BY <1>1, <1>2, <1>3, <1>4, <1>5, <1>6, <1>7

\* Every step keeps the invariant.
LEMMA StoreInvStep == StoreInv /\ [Next]_vars => StoreInv'
<1> SUFFICES ASSUME StoreInv, [Next]_vars PROVE StoreInv'
  OBVIOUS
<1> USE DEF StoreInv
<1>1. ASSUME NEW k \in Key, ResourceUpdated(k) PROVE StoreInv'
  <2>1. mail' \in [Key -> Nat] /\ shown' \in [Pane -> SUBSET Object]
    BY <1>1 DEF ResourceUpdated, TypeOK
  <2> QED BY <1>1, <2>1 DEF ResourceUpdated, storeVars, TypeOK, RegisteredIsWorking,
                            Working, PaneIsFed, DroppedStoreIsIdle
<1>2. ASSUME NEW k \in Key, Fire(k) PROVE StoreInv'
  BY <1>2 DEF Fire, Send, TypeOK, RegisteredIsWorking, Working, PaneIsFed,
     DroppedStoreIsIdle
<1>3. ASSUME NEW k \in Key, NEW o \in Object, Change(k, o) PROVE StoreInv'
  BY <1>3 DEF Change, storeVars, TypeOK, RegisteredIsWorking, Working, PaneIsFed,
     DroppedStoreIsIdle
<1>4. ASSUME NEW k \in EventKey, Describe(k) PROVE StoreInv'
  BY <1>4 DEF Describe, storeVars, TypeOK, RegisteredIsWorking, Working, PaneIsFed,
     DroppedStoreIsIdle
<1>5. CASE UNCHANGED vars
  BY <1>5 DEF vars, TypeOK, RegisteredIsWorking, Working, PaneIsFed,
     DroppedStoreIsIdle
<1> QED BY <1>1, <1>2, <1>3, <1>4, <1>5, StoreInvUsers, StoreInvInformer DEF Next

\* The invariant holds throughout.
LEMMA StoreInvariant == Spec => []StoreInv
  BY StoreInvInit, StoreInvStep, PTL DEF Spec

\* The variables keep their types, whatever users, informers and describes do.
THEOREM StoreTyped == Spec => []TypeOK
  BY StoreInvariant, PTL DEF StoreInv

\* An informer that nobody cancelled is registered under its key, a registered one serves
\* its key and is not cancelled (Subscribe, Unsubscribe, UnsubscribeAll), and the only
\* informers in a store that the Manager has dropped are those of describes that
\* subscribed after the teardown.
THEOREM InformersHeld == Spec => []InformersAreHeld
  BY StoreInvariant, PTL DEF StoreInv, InformersAreHeld

\* No pane is cut off from its key by what other panes, a reload, a describe or
\* the teardown of the cluster do.
THEOREM PanesFed == Spec => []PaneIsFed
  BY StoreInvariant, PTL DEF StoreInv
-----------------------------------------------------------------------------
(* What is settled is current.                                             *)

\* The queue q says nothing of o; what it says of o last is that it is there (b)
\* or gone.
NotIn(q, o) == \A n \in DOMAIN q : q[n].obj # o
LastSays(q, o, b) ==
    \E n \in DOMAIN q : /\ q[n].obj = o /\ q[n].add = b
                        /\ \A m \in DOMAIN q : m > n /\ q[m].obj = o => q[m].add = b

\* Once the queue of informer j is handled, the bucket c is what j knows.
Agrees(j, c) ==
    /\ ~j.listed => j.known = {} /\ j.queue = <<>> /\ c = {}
    /\ \A o \in Object : \/ NotIn(j.queue, o) /\ (o \in j.known <=> o \in c)
                         \/ LastSays(j.queue, o, o \in j.known)

\* The bucket of a registered informer follows it, and without one it is empty,
\* unless a cancelled informer wrote to it.
BucketsFollow ==
    \A k \in Key \ tainted :
        IF informers[k] = NoInformer THEN cache[k] = {}
        ELSE Agrees(job[informers[k]], cache[k])

\* A message is on its way for k, or will be.
Coming(k) == \/ mail[k] > 0 \/ k \in timers
             \/ job[informers[k]].pending \/ ~job[informers[k]].synced

\* A pane that does not show its bucket is about to be told.
RowsFollow ==
    \A p \in Pane : watch[p] \in Key \ tainted =>
        shown[p] = cache[watch[p]] \/ Coming(watch[p])

CurrentInv == BucketsFollow /\ RowsFollow

-----------------------------------------------------------------------------
(* The queue of a handler.                                                 *)

\* What is appended is said last.
LEMMA QueueGrows ==
    ASSUME NEW q \in Seq(Event), NEW e \in Event
    PROVE  /\ LastSays(Append(q, e), e.obj, e.add)
           /\ \A o : o # e.obj /\ NotIn(q, o) => NotIn(Append(q, e), o)
           /\ \A o, b : o # e.obj /\ LastSays(q, o, b) => LastSays(Append(q, e), o, b)
<1> DEFINE r == Append(q, e)
<1>1. /\ DOMAIN r = 1..(Len(q) + 1) /\ DOMAIN q = 1..Len(q) /\ Len(q) \in Nat
      /\ r[Len(q) + 1] = e /\ \A n \in 1..Len(q) : r[n] = q[n]
  OBVIOUS
<1> HIDE DEF r
<1>2. LastSays(r, e.obj, e.add)
  BY <1>1 DEF LastSays
<1>3. ASSUME NEW o, o # e.obj, NotIn(q, o) PROVE NotIn(r, o)
  BY <1>1, <1>3 DEF NotIn
<1>4. ASSUME NEW o, NEW b, o # e.obj, LastSays(q, o, b) PROVE LastSays(r, o, b)
  <2>1. PICK n \in 1..Len(q) : /\ q[n].obj = o /\ q[n].add = b
                               /\ \A m \in 1..Len(q) : m > n /\ q[m].obj = o => q[m].add = b
    BY <1>1, <1>4 DEF LastSays
  <2>2. \A m \in 1..(Len(q) + 1) : m > n /\ r[m].obj = o => r[m].add = b
    BY <1>1, <1>4, <2>1
  <2> QED BY <1>1, <2>1, <2>2 DEF LastSays
<1> QED BY <1>2, <1>3, <1>4 DEF r

\* What is left of a queue says what the whole did, or its head said it.
LEMMA QueueShrinks ==
    ASSUME NEW q \in Seq(Event), q # <<>>
    PROVE  /\ \A o : NotIn(q, o) => NotIn(Tail(q), o) /\ Head(q).obj # o
           /\ \A o, b : LastSays(q, o, b) =>
                 \/ LastSays(Tail(q), o, b)
                 \/ NotIn(Tail(q), o) /\ Head(q).obj = o /\ Head(q).add = b
<1> DEFINE r == Tail(q)
<1>1. /\ Len(q) \in Nat \ {0} /\ DOMAIN q = 1..Len(q) /\ DOMAIN r = 1..(Len(q) - 1)
      /\ Head(q) = q[1] /\ \A n \in 1..(Len(q) - 1) : r[n] = q[n + 1]
  OBVIOUS
<1> HIDE DEF r
<1>2. ASSUME NEW o, NotIn(q, o) PROVE NotIn(r, o) /\ q[1].obj # o
  BY <1>1, <1>2 DEF NotIn
<1>3. ASSUME NEW o, NEW b, LastSays(q, o, b)
      PROVE  LastSays(r, o, b) \/ (NotIn(r, o) /\ q[1].obj = o /\ q[1].add = b)
  <2>1. PICK n \in 1..Len(q) : /\ q[n].obj = o /\ q[n].add = b
                               /\ \A m \in 1..Len(q) : m > n /\ q[m].obj = o => q[m].add = b
    BY <1>1, <1>3 DEF LastSays
  <2>2. CASE n = 1
    <3>1. \A m \in 1..(Len(q) - 1) : r[m].obj = o => r[m].add = b
      BY <1>1, <2>1, <2>2
    <3> QED BY <1>1, <2>1, <2>2, <3>1 DEF LastSays, NotIn
  <2>3. CASE n # 1
    <3>1. n - 1 \in 1..(Len(q) - 1) /\ r[n - 1] = q[n]
      BY <1>1, <2>1, <2>3
    <3>2. \A m \in 1..(Len(q) - 1) : m > n - 1 /\ r[m].obj = o => r[m].add = b
      BY <1>1, <2>1
    <3> QED BY <1>1, <2>1, <3>1, <3>2 DEF LastSays
  <2> QED BY <2>2, <2>3
<1> QED BY <1>1, <1>2, <1>3 DEF r

\* A list says of every object that it is there, and of no other.
LEMMA QueueListed ==
    ASSUME NEW S, Cardinality(S) \in Nat, NEW s \in Orders(S), NEW q,
           q = [n \in DOMAIN s |-> [add |-> TRUE, obj |-> s[n]]]
    PROVE  /\ \A o \in S : LastSays(q, o, TRUE)
           /\ \A o : o \notin S => NotIn(q, o)
<1>1. s \in [1..Cardinality(S) -> S] /\ \A o \in S : \E n \in DOMAIN s : s[n] = o
  BY DEF Orders
<1>2. DOMAIN q = DOMAIN s /\ \A n \in DOMAIN q : q[n].obj = s[n] /\ q[n].add = TRUE
  OBVIOUS
<1> QED BY <1>1, <1>2 DEF LastSays, NotIn

-----------------------------------------------------------------------------
(* The steps that subscribe and unsubscribe.                               *)

\* A key that is neither left nor started keeps its informer as it is.
LEMMA InformerRunsOn ==
    ASSUME TypeOK, RegisteredIsWorking, NEW gone \in SUBSET Key, NEW start,
           Startable(start, gone), Resubscribe(gone, start),
           NEW k \in Key, k \notin gone, k \notin DOMAIN start
    PROVE  /\ informers'[k] = informers[k] /\ cache'[k] = cache[k]
           /\ k \in tainted => k \in tainted'
           /\ k \in timers => k \in timers'
           /\ informers[k] # NoInformer => job'[informers[k]] = job[informers[k]]
<1>1. informers'[k] = informers[k] /\ cache'[k] = cache[k]
  BY DEF Resubscribe
<1>2. (k \in tainted => k \in tainted') /\ (k \in timers => k \in timers')
  BY DEF Resubscribe
<1>3. ASSUME informers[k] # NoInformer PROVE job'[informers[k]] = job[informers[k]]
  <2>1. informers[k] \in Informer /\ job[informers[k]].key = k
    BY <1>3 DEF TypeOK, RegisteredIsWorking
  <2>2. \A j \in gone : informers[j] # informers[k]
    BY <1>3, <2>1, StoreAssumption DEF RegisteredIsWorking
  <2>3. \A j \in DOMAIN start : start[j] # informers[k]
    BY <2>1, StoreAssumption DEF Startable, Idle
  <2> QED BY <2>1, <2>2, <2>3 DEF Resubscribe
<1> QED BY <1>1, <1>2, <1>3

\* A key that is started has a fresh informer.
LEMMA InformerStarts ==
    ASSUME TypeOK, NEW gone \in SUBSET Key, NEW start,
           Startable(start, gone), Resubscribe(gone, start), NEW k \in DOMAIN start
    PROVE  informers'[k] = start[k] /\ start[k] \in Informer /\ job'[start[k]] = Fresh(k)
<1>1. k \in Key /\ start[k] \in Informer
  BY DEF Startable, Idle
<1>2. informers'[k] = start[k]
  BY <1>1 DEF Resubscribe
<1> DEFINE c == CHOOSE j \in DOMAIN start : start[j] = start[k]
<1>3. c = k
  BY DEF Startable
<1>4. job'[start[k]] = Fresh(c)
  BY <1>1 DEF Resubscribe
<1> QED BY <1>1, <1>2, <1>3, <1>4

\* A bucket is empty where an informer starts or nothing is subscribed.
LEMMA ResubscribeFollows ==
    ASSUME StoreInv, BucketsFollow, NEW gone \in SUBSET Key, NEW start,
           Startable(start, gone), Resubscribe(gone, start)
    PROVE  BucketsFollow'
<1> USE DEF StoreInv
<1>1. SUFFICES ASSUME NEW k \in Key, k \notin tainted'
               PROVE  IF informers'[k] = NoInformer THEN cache'[k] = {}
                      ELSE Agrees(job'[informers'[k]], cache'[k])
  BY DEF BucketsFollow
<1>2. CASE k \in DOMAIN start
  <2>1. informers'[k] = start[k] /\ start[k] \in Informer /\ job'[start[k]] = Fresh(k)
    BY <1>2, InformerStarts
  <2>2. cache'[k] = {}
    <3>1. CASE k \in gone
      BY <3>1 DEF Resubscribe
    <3>2. CASE k \notin gone
      BY <1>1, <1>2, <3>2 DEF Resubscribe, Startable, BucketsFollow
    <3> QED BY <3>1, <3>2
  <2>3. Agrees(Fresh(k), {})
    BY DEF Agrees, Fresh, NotIn
  <2> QED BY <2>1, <2>2, <2>3, StoreAssumption
<1>3. CASE k \notin DOMAIN start /\ k \in gone
  BY <1>3 DEF Resubscribe
<1>4. CASE k \notin DOMAIN start /\ k \notin gone
  BY <1>1, <1>4, InformerRunsOn DEF BucketsFollow
<1> QED BY <1>2, <1>3, <1>4

\* A pane whose key is neither left nor started is told what it was to be told.
LEMMA PaneRunsOn ==
    ASSUME StoreInv, RowsFollow, NEW gone \in SUBSET Key, NEW start,
           Startable(start, gone), Resubscribe(gone, start), mail' = mail,
           NEW p \in Pane, NEW k \in Key, watch[p] = k, k \notin tainted', k \notin gone
    PROVE  shown[p] = cache'[k] \/ Coming(k)'
<1> USE DEF StoreInv
<1>1. informers[k] # NoInformer
  BY StoreAssumption DEF PaneIsFed
<1>2. CASE k \in DOMAIN start
  BY <1>1, <1>2 DEF Startable
<1>3. CASE k \notin DOMAIN start
  <2>1. /\ informers'[k] = informers[k] /\ cache'[k] = cache[k]
        /\ k \notin tainted /\ (k \in timers => k \in timers')
        /\ job'[informers[k]] = job[informers[k]]
    BY <1>1, <1>3, InformerRunsOn
  <2> QED BY <1>1, <2>1 DEF RowsFollow, Coming
<1> QED BY <1>2, <1>3

LEMMA CurrentInvUsers ==
    ASSUME StoreInv, CurrentInv,
           \/ \E p \in Pane, k \in Key : Goto(p, k)
           \/ \E p \in Pane, unsubscribe \in BOOLEAN : Leave(p, unsubscribe)
           \/ Reload
           \/ \E k \in EventKey : DescribeRuns(k)
    PROVE  CurrentInv'
<1> USE DEF StoreInv, CurrentInv
<1>1. ASSUME NEW p \in Pane, NEW k \in Key, Goto(p, k) PROVE CurrentInv'
  <2>1. PICK gone \in {Unused(watch[p], watch'), {}}, start \in Starts({k}, {}) :
           Resubscribe(gone, start)
    BY <1>1 DEF Goto
  <2>2. gone \in SUBSET Key /\ \A q \in Pane : watch'[q] \notin gone
    BY <2>1 DEF Unused, Users
  <2>3. Startable(start, gone)
    BY <2>1, StartsStartable, {k} \in SUBSET Key DEF Startable
  <2>4. BucketsFollow'
    BY <2>1, <2>2, <2>3, ResubscribeFollows
  <2>5. ASSUME NEW q \in Pane, NEW j \in Key, watch'[q] = j, j \notin tainted'
        PROVE  shown'[q] = cache'[j] \/ Coming(j)'
    <3>1. CASE q = p
      <4>1. j = k /\ k \notin gone
        BY <1>1, <2>2, <2>5, <3>1 DEF Goto, TypeOK
      <4> QED BY <1>1, <2>1, <3>1, <4>1 DEF Goto, Resubscribe, TypeOK
    <3>2. CASE q # p
      <4>1. watch[q] = j /\ j \notin gone /\ shown'[q] = shown[q] /\ mail' = mail
        BY <1>1, <2>2, <2>5, <3>2 DEF Goto, TypeOK
      <4> QED BY <2>1, <2>2, <2>3, <2>5, <4>1, PaneRunsOn
    <3> QED BY <3>1, <3>2
  <2> QED BY <2>4, <2>5 DEF RowsFollow
<1>2. ASSUME NEW p \in Pane, NEW unsubscribe \in BOOLEAN, Leave(p, unsubscribe)
      PROVE  CurrentInv'
  <2> DEFINE gone == IF ~attached' THEN Key
                     ELSE IF unsubscribe THEN Unused(watch[p], watch') ELSE {}
  <2>1. Resubscribe(gone, <<>>) /\ Startable(<<>>, gone) /\ gone \in SUBSET Key
    BY <1>2, NothingToStart DEF Leave, Unused
  <2>2. BucketsFollow'
    BY <2>1, ResubscribeFollows
  <2>3. ASSUME NEW q \in Pane, NEW j \in Key, watch'[q] = j, j \notin tainted'
        PROVE  shown'[q] = cache'[j] \/ Coming(j)'
    <3>1. q # p /\ watch[q] = j /\ shown'[q] = shown[q] /\ mail' = mail
      BY <1>2, <2>3, StoreAssumption DEF Leave, TypeOK
    <3>2. attached'
      BY <1>2, <2>3, StoreAssumption DEF Leave
    <3>3. j \notin gone
      BY <2>3, <3>2 DEF Unused, Users
    <3> HIDE DEF gone
    <3> QED BY <2>1, <2>3, <3>1, <3>3, PaneRunsOn
  <2> QED BY <2>2, <2>3 DEF RowsFollow
<1>3. ASSUME Reload PROVE CurrentInv'
  <2> DEFINE K == {watch[p] : p \in Pane} \ {NoKey}
  <2>1. K \in SUBSET Key
    BY DEF TypeOK
  <2>2. PICK start \in Starts(K, Key) : Resubscribe(Key, start)
    BY <1>3 DEF Reload
  <2>3. Startable(start, Key) /\ \A k \in K : k \in DOMAIN start
    BY <2>1, <2>2, StartsStartable
  <2>4. BucketsFollow'
    BY <2>2, <2>3, ResubscribeFollows
  <2>5. ASSUME NEW q \in Pane, NEW j \in Key, watch'[q] = j PROVE Coming(j)'
    <3>1. j \in DOMAIN start
      BY <1>3, <2>3, <2>5, StoreAssumption DEF Reload
    <3>2. informers'[j] = start[j] /\ job'[start[j]] = Fresh(j)
      BY <2>2, <2>3, <3>1, InformerStarts
    <3> QED BY <3>2 DEF Coming, Fresh
  <2> QED BY <2>4, <2>5 DEF RowsFollow
<1>4. ASSUME NEW k \in EventKey, DescribeRuns(k) PROVE CurrentInv'
  <2>1. CASE UNCHANGED <<storeVars, tainted, outlived>>
    BY <1>4, <2>1 DEF DescribeRuns, storeVars, BucketsFollow, RowsFollow, Coming
  <2>2. CASE \E start \in Starts({k}, {}) : Resubscribe({}, start)
    <3>1. PICK start \in Starts({k}, {}) : Resubscribe({}, start)
      BY <2>2
    <3>2. Startable(start, {})
      BY StartsStartable, StoreAssumption, {k} \in SUBSET Key
    <3>3. BucketsFollow'
      BY <3>1, <3>2, ResubscribeFollows
    <3>4. ASSUME NEW q \in Pane, NEW j \in Key, watch'[q] = j, j \notin tainted'
          PROVE  shown'[q] = cache'[j] \/ Coming(j)'
      <4>1. watch[q] = j /\ shown'[q] = shown[q] /\ mail' = mail
        BY <1>4, <3>4 DEF DescribeRuns
      <4> QED BY <3>1, <3>2, <3>4, <4>1, PaneRunsOn
    <3> QED BY <3>3, <3>4 DEF RowsFollow
  <2> QED BY <1>4, <2>1, <2>2 DEF DescribeRuns
<1> QED BY <1>1, <1>2, <1>3, <1>4

-----------------------------------------------------------------------------
(* The steps of the informers.                                             *)

\* When one informer moves, it is enough to look at the bucket and the panes of
\* its key, and those only if it is the registered one.
LEMMA OneInformerMoves ==
    ASSUME StoreInv, CurrentInv, NEW i \in Informer,
           UNCHANGED <<informers, watch, shown>>, tainted \subseteq tainted',
           \A j \in Informer \ {i} : job'[j] = job[j],
           \A k \in Key \ tainted' : k # job[i].key \/ job[i].cancelled =>
               cache'[k] = cache[k] /\ mail'[k] = mail[k] /\ (k \in timers => k \in timers'),
           Working(i) /\ job[i].key \in Key \ tainted' =>
               /\ Agrees(job'[i], cache'[job[i].key])
               /\ \A p \in Pane : watch[p] = job[i].key =>
                     \/ shown[p] = cache'[job[i].key]
                     \/ mail'[job[i].key] > 0 \/ job[i].key \in timers'
                     \/ job'[i].pending \/ ~job'[i].synced
    PROVE  CurrentInv'
<1> USE DEF StoreInv, CurrentInv
<1>1. ASSUME NEW k \in Key, informers[k] = i PROVE Working(i) /\ job[i].key = k
  BY <1>1, StoreAssumption DEF RegisteredIsWorking, Working
<1>2. ASSUME NEW k \in Key, informers[k] # i PROVE k # job[i].key \/ job[i].cancelled
  BY <1>2, StoreAssumption DEF RegisteredIsWorking, Working
<1>3. BucketsFollow'
  <2>1. SUFFICES ASSUME NEW k \in Key, k \notin tainted'
                 PROVE  IF informers[k] = NoInformer THEN cache'[k] = {}
                        ELSE Agrees(job'[informers[k]], cache'[k])
    BY DEF BucketsFollow
  <2>2. CASE informers[k] = i
    BY <1>1, <2>1, <2>2, StoreAssumption
  <2>3. CASE informers[k] # i
    <3>1. cache'[k] = cache[k] /\ k \notin tainted
      BY <1>2, <2>1, <2>3
    <3>2. informers[k] # NoInformer => job'[informers[k]] = job[informers[k]]
      BY <2>3 DEF TypeOK
    <3> QED BY <3>1, <3>2 DEF BucketsFollow
  <2> QED BY <2>2, <2>3
<1>4. RowsFollow'
  <2>1. SUFFICES ASSUME NEW p \in Pane, NEW k \in Key, watch[p] = k, k \notin tainted'
                 PROVE  shown[p] = cache'[k] \/ Coming(k)'
    BY DEF RowsFollow
  <2>2. CASE informers[k] = i
    BY <1>1, <2>1, <2>2 DEF Coming
  <2>3. CASE informers[k] # i
    <3>1. /\ cache'[k] = cache[k] /\ k \notin tainted
          /\ mail'[k] = mail[k] /\ (k \in timers => k \in timers')
      BY <1>2, <2>1, <2>3
    <3>2. job'[informers[k]] = job[informers[k]]
      BY <2>1, <2>3, StoreAssumption DEF TypeOK, PaneIsFed
    <3>3. shown[p] = cache[k] \/ Coming(k)
      BY <2>1, <3>1 DEF RowsFollow
    <3> QED BY <3>1, <3>2, <3>3 DEF Coming
  <2> QED BY <2>2, <2>3
<1> QED BY <1>3, <1>4

\* The bucket and the panes of a working informer, before it moves.
LEMMA WorkingFollows ==
    ASSUME StoreInv, CurrentInv, NEW i \in Informer, Working(i), job[i].key \notin tainted
    PROVE  /\ Agrees(job[i], cache[job[i].key])
           /\ \A p \in Pane : watch[p] = job[i].key =>
                 \/ shown[p] = cache[job[i].key]
                 \/ mail[job[i].key] > 0 \/ job[i].key \in timers
                 \/ job[i].pending \/ ~job[i].synced
<1>1. job[i].key \in Key /\ informers[job[i].key] = i
  BY DEF Working, StoreInv, TypeOK, Job, RegisteredIsWorking
<1> QED BY <1>1, StoreAssumption DEF CurrentInv, BucketsFollow, RowsFollow, Coming

\* What the informer learns is queued.
LEMMA LearningFollows ==
    ASSUME StoreInv, CurrentInv, NEW i \in Informer,
           Listed(i) \/ \E o \in Object : Notice(i, o) \/ Resync(i, o)
    PROVE  CurrentInv'
<1> USE DEF StoreInv
<1> DEFINE k == job[i].key
<1>1. job[i] \in Job /\ Working(i) /\ k \in Key /\ UNCHANGED jobOnly
  BY DEF Listed, Notice, Resync, TypeOK, Working, Job
<1>2. \A j \in Informer \ {i} : job'[j] = job[j]
  BY DEF Listed, Notice, Resync, TypeOK
<1>3. job'[i].pending = job[i].pending /\ job'[i].synced = job[i].synced
  <2>1. CASE Listed(i)
    <3>1. PICK s \in Orders(server[k]) :
            job' = [job EXCEPT ![i].listed = TRUE,
                               ![i].known = server[k],
                               ![i].queue = [n \in DOMAIN s |-> [add |-> TRUE, obj |-> s[n]]]]
      BY <2>1 DEF Listed
    <3> QED BY <1>1, <3>1 DEF TypeOK, Job
  <2>2. ASSUME NEW o \in Object, Notice(i, o)
        PROVE  job'[i].pending = job[i].pending /\ job'[i].synced = job[i].synced
    BY <1>1, <2>2 DEF Notice, TypeOK, Job
  <2>3. ASSUME NEW o \in Object, Resync(i, o)
        PROVE  job'[i].pending = job[i].pending /\ job'[i].synced = job[i].synced
    BY <1>1, <2>3 DEF Resync, TypeOK, Job
  <2> QED BY <2>1, <2>2, <2>3
<1>4. ASSUME k \notin tainted PROVE Agrees(job'[i], cache[k])
  <2>1. Agrees(job[i], cache[k])
    BY <1>1, <1>4, WorkingFollows
  <2>2. CASE Listed(i)
    <3>1. Cardinality(server[k]) \in Nat
      BY <1>1, StoreAssumption, FS_Subset, FS_CardinalityType DEF TypeOK
    <3>2. PICK s \in Orders(server[k]) :
            job' = [job EXCEPT ![i].listed = TRUE,
                               ![i].known = server[k],
                               ![i].queue = [n \in DOMAIN s |-> [add |-> TRUE, obj |-> s[n]]]]
      BY <2>2 DEF Listed
    <3> DEFINE S == server[k]
               Q == [n \in DOMAIN s |-> [add |-> TRUE, obj |-> s[n]]]
    <3>3. job' = [job EXCEPT ![i].listed = TRUE, ![i].known = S, ![i].queue = Q]
      BY <3>2
    <3>4. Cardinality(S) \in Nat /\ s \in Orders(S)
      BY <3>1, <3>2
    <3>5. (\A o \in S : LastSays(Q, o, TRUE)) /\ \A o : o \notin S => NotIn(Q, o)
      <4> HIDE DEF S
      <4> QED BY <3>4, QueueListed
    <3> HIDE DEF S, Q
    <3>6. job'[i].listed = TRUE /\ job'[i].known = S /\ job'[i].queue = Q
      BY <1>1, <3>3 DEF TypeOK, Job
    <3>7. cache[k] = {}
      BY <2>1, <2>2 DEF Listed, Agrees
    <3>8. ASSUME NEW o \in Object
          PROVE  \/ NotIn(job'[i].queue, o) /\ (o \in job'[i].known <=> o \in cache[k])
                 \/ LastSays(job'[i].queue, o, o \in job'[i].known)
      <4>1. CASE o \in S
        <5>1. (o \in S) = TRUE
          BY <4>1
        <5> QED BY <3>5, <3>6, <4>1, <5>1
      <4>2. CASE o \notin S
        BY <3>5, <3>6, <3>7, <4>2
      <4> QED BY <4>1, <4>2
    <3> QED BY <3>6, <3>8 DEF Agrees
  <2>3. ASSUME NEW o \in Object, Notice(i, o) PROVE Agrees(job'[i], cache[k])
    <3> DEFINE q == job[i].queue
               e == [add |-> o \in server[k], obj |-> o]
    <3>1. q \in Seq(Event) /\ e \in Event
      BY <1>1 DEF Job, Event
    <3>2. /\ job'[i].listed = job[i].listed /\ job[i].listed
          /\ job'[i].queue = Append(q, e)
          /\ job'[i].known = IF o \in server[k] THEN job[i].known \cup {o}
                             ELSE job[i].known \ {o}
      BY <1>1, <2>3 DEF Notice, TypeOK, Job
    <3>3. e.obj = o /\ e.add = (o \in server[k])
      OBVIOUS
    <3> HIDE DEF e, q
    <3>4. LastSays(job'[i].queue, o, o \in server[k])
      BY <3>1, <3>2, <3>3, QueueGrows
    <3>5. (o \in job'[i].known) = (o \in server[k])
      BY <3>2
    <3>6. ASSUME NEW x \in Object, x # o
          PROVE  \/ NotIn(job'[i].queue, x) /\ (x \in job'[i].known <=> x \in cache[k])
                 \/ LastSays(job'[i].queue, x, x \in job'[i].known)
      <4>1. (x \in job'[i].known) = (x \in job[i].known)
        BY <3>2, <3>6
      <4>2. \/ NotIn(q, x) /\ (x \in job[i].known <=> x \in cache[k])
            \/ LastSays(q, x, x \in job[i].known)
        BY <2>1 DEF Agrees, q
      <4> QED BY <3>1, <3>2, <3>3, <3>6, <4>1, <4>2, QueueGrows
    <3>7. LastSays(job'[i].queue, o, o \in job'[i].known)
      BY <3>4, <3>5
    <3> QED BY <3>2, <3>6, <3>7 DEF Agrees
  <2>4. ASSUME NEW o \in Object, Resync(i, o) PROVE Agrees(job'[i], cache[k])
    <3> DEFINE q == job[i].queue
               e == [add |-> TRUE, obj |-> o]
    <3>1. q \in Seq(Event) /\ e \in Event /\ e.obj = o /\ e.add = TRUE
      BY <1>1 DEF Job, Event
    <3>2. /\ job'[i].listed = job[i].listed
          /\ job'[i].queue = Append(q, e)
          /\ job'[i].known = job[i].known /\ o \in job[i].known
      BY <1>1, <2>4 DEF Resync, TypeOK, Job
    <3>3. job[i].listed
      BY <2>1, <3>2 DEF Agrees
    <3> HIDE DEF e, q
    <3>4. LastSays(job'[i].queue, o, TRUE)
      BY <3>1, <3>2, QueueGrows
    <3>5. (o \in job'[i].known) = TRUE
      BY <3>2
    <3>6. ASSUME NEW x \in Object, x # o
          PROVE  \/ NotIn(job'[i].queue, x) /\ (x \in job'[i].known <=> x \in cache[k])
                 \/ LastSays(job'[i].queue, x, x \in job'[i].known)
      <4>1. \/ NotIn(q, x) /\ (x \in job[i].known <=> x \in cache[k])
            \/ LastSays(q, x, x \in job[i].known)
        BY <2>1 DEF Agrees, q
      <4> QED BY <3>1, <3>2, <3>6, <4>1, QueueGrows
    <3>7. LastSays(job'[i].queue, o, o \in job'[i].known)
      BY <3>4, <3>5
    <3> QED BY <3>2, <3>3, <3>6, <3>7 DEF Agrees
  <2> QED BY <2>2, <2>3, <2>4
<1>5. ~job[i].cancelled
  BY <1>1 DEF Working
<1> HIDE DEF k
<1>6. Working(i) /\ k \in Key \ tainted' =>
         /\ Agrees(job'[i], cache'[k])
         /\ \A p \in Pane : watch[p] = k =>
               \/ shown[p] = cache'[k] \/ mail'[k] > 0 \/ k \in timers'
               \/ job'[i].pending \/ ~job'[i].synced
  BY <1>1, <1>3, <1>4, WorkingFollows DEF jobOnly, k
<1> QED BY <1>1, <1>2, <1>5, <1>6, OneInformerMoves DEF jobOnly, k

\* The handler takes the head of the queue to the bucket, and owes a trigger.
LEMMA HandlingFollows ==
    ASSUME StoreInv, CurrentInv, NEW i \in Informer, Handle(i)
    PROVE  CurrentInv'
<1> USE DEF StoreInv
<1> DEFINE k == job[i].key
           q == job[i].queue
           e == Head(q)
<1>1. job[i] \in Job /\ k \in Key /\ q \in Seq(Event) /\ q # <<>>
  BY DEF Handle, TypeOK, Job
<1>2. e \in Event
  BY <1>1
<1>3. /\ \A j \in Informer \ {i} : job'[j] = job[j]
      /\ job'[i].queue = Tail(q) /\ job'[i].pending
      /\ job'[i].known = job[i].known /\ job'[i].listed = job[i].listed
  BY <1>1 DEF Handle, TypeOK, Job
<1>4. /\ cache'[k] = IF e.add THEN cache[k] \cup {e.obj} ELSE cache[k] \ {e.obj}
      /\ \A j \in Key : j # k => cache'[j] = cache[j]
      /\ UNCHANGED <<informers, watch, shown, mail, timers>>
      /\ tainted \subseteq tainted' /\ (job[i].cancelled => k \in tainted')
  BY <1>1 DEF Handle, TypeOK
<1>5. ASSUME Working(i), k \notin tainted PROVE Agrees(job'[i], cache'[k])
  <2>1. Agrees(job[i], cache[k])
    BY <1>5, WorkingFollows
  <2>2. job[i].listed
    BY <1>1, <2>1 DEF Agrees
  <2>3. ASSUME NEW o \in Object
        PROVE  \/ NotIn(Tail(q), o) /\ (o \in job[i].known <=> o \in cache'[k])
               \/ LastSays(Tail(q), o, o \in job[i].known)
    <3>1. CASE NotIn(q, o) /\ (o \in job[i].known <=> o \in cache[k])
      <4>1. NotIn(Tail(q), o) /\ e.obj # o
        BY <1>1, <3>1, QueueShrinks
      <4> HIDE DEF e, q
      <4> QED BY <1>4, <3>1, <4>1
    <3>2. CASE LastSays(q, o, o \in job[i].known)
      <4> DEFINE b == o \in job[i].known
      <4>1. LastSays(q, o, b)
        BY <3>2
      <4> HIDE DEF b
      <4>2. \/ LastSays(Tail(q), o, b)
            \/ NotIn(Tail(q), o) /\ e.obj = o /\ e.add = b
        BY <1>1, <4>1, QueueShrinks
      <4> HIDE DEF e, q
      <4>3. CASE LastSays(Tail(q), o, b)
        BY <4>3 DEF b
      <4>4. CASE NotIn(Tail(q), o) /\ e.obj = o /\ e.add = b
        BY <1>4, <4>4 DEF b
      <4> QED BY <4>2, <4>3, <4>4
    <3> QED BY <2>1, <3>1, <3>2 DEF Agrees
  <2> QED BY <1>3, <2>2, <2>3 DEF Agrees
<1> HIDE DEF k, q, e
<1>6. \A j \in Key \ tainted' : j # k \/ job[i].cancelled =>
          cache'[j] = cache[j] /\ mail'[j] = mail[j] /\ (j \in timers => j \in timers')
  BY <1>4
<1>7. Working(i) /\ k \in Key \ tainted' =>
         /\ Agrees(job'[i], cache'[k])
         /\ \A p \in Pane : watch[p] = k =>
               \/ shown[p] = cache'[k] \/ mail'[k] > 0 \/ k \in timers'
               \/ job'[i].pending \/ ~job'[i].synced
  BY <1>3, <1>4, <1>5
<1> QED BY <1>3, <1>4, <1>6, <1>7, OneInformerMoves DEF k

\* What the handler owed becomes a timer or, by the end of the first list, a
\* message; a stopped informer owes nothing.
LEMMA TellingFollows ==
    ASSUME StoreInv, CurrentInv, NEW i \in Informer,
           Handled(i) \/ Synced(i) \/ Stopped(i)
    PROVE  CurrentInv'
<1> USE DEF StoreInv
<1> DEFINE k == job[i].key
<1>1. /\ job[i] \in Job
      /\ UNCHANGED <<informers, watch, shown, cache, tainted>>
      /\ \A j \in Informer \ {i} : job'[j] = job[j]
  <2>1. job[i] \in Job /\ UNCHANGED <<informers, watch, shown, cache, tainted>>
    BY DEF Handled, Synced, Stopped, jobOnly, TypeOK
  <2>2. \A j \in Informer \ {i} : job'[j] = job[j]
    BY DEF Handled, Synced, Stopped, TypeOK
  <2> QED BY <2>1, <2>2
<1>2. \A j \in Key : /\ j \in timers => j \in timers'
                     /\ j # k \/ job[i].cancelled => mail'[j] = mail[j]
  BY DEF Handled, Synced, Send, Stopped, jobOnly, TypeOK
<1>3. ASSUME Working(i), k \in Key, k \notin tainted
      PROVE  /\ Agrees(job'[i], cache[k])
             /\ mail'[k] > 0 \/ k \in timers' \/ job'[i].pending \/ ~job'[i].synced
  <2>1. Agrees(job[i], cache[k])
    BY <1>3, WorkingFollows
  <2>2. CASE Handled(i)
    <3>1. /\ job'[i].queue = job[i].queue /\ job'[i].known = job[i].known
          /\ job'[i].listed = job[i].listed /\ job'[i].synced = job[i].synced
      BY <1>1, <2>2 DEF Handled, TypeOK, Job
    <3>2. k \in timers' \/ ~job[i].synced
      BY <2>2 DEF Handled
    <3> QED BY <2>1, <3>1, <3>2 DEF Agrees
  <2>3. CASE Synced(i)
    <3>1. /\ job'[i].queue = job[i].queue /\ job'[i].known = job[i].known
          /\ job'[i].listed = job[i].listed
      BY <1>1, <2>3 DEF Synced, TypeOK, Job
    <3>2. mail'[k] > 0
      BY <1>3, <2>3 DEF Synced, Send, Working, TypeOK
    <3> QED BY <2>1, <3>1, <3>2 DEF Agrees
  <2>4. CASE Stopped(i)
    BY <1>3, <2>4 DEF Stopped, Working
  <2> QED BY <2>2, <2>3, <2>4
<1> HIDE DEF k
<1>4. \A j \in Key \ tainted' : j # k \/ job[i].cancelled =>
          cache'[j] = cache[j] /\ mail'[j] = mail[j] /\ (j \in timers => j \in timers')
  BY <1>1, <1>2
<1>5. Working(i) /\ k \in Key \ tainted' =>
         /\ Agrees(job'[i], cache'[k])
         /\ \A p \in Pane : watch[p] = k =>
               \/ shown[p] = cache'[k] \/ mail'[k] > 0 \/ k \in timers'
               \/ job'[i].pending \/ ~job'[i].synced
  BY <1>1, <1>3
<1> QED BY <1>1, <1>4, <1>5, OneInformerMoves DEF k

-----------------------------------------------------------------------------
\* An empty store is what every informer's bucket should be.
LEMMA CurrentInvInit == Init => CurrentInv
  BY StoreAssumption DEF Init, CurrentInv, BucketsFollow, RowsFollow

LEMMA CurrentInvStep == StoreInv /\ CurrentInv /\ [Next]_vars => CurrentInv'
<1> SUFFICES ASSUME StoreInv, CurrentInv, [Next]_vars PROVE CurrentInv'
  OBVIOUS
<1> USE DEF StoreInv, CurrentInv
<1>1. ASSUME NEW k \in Key, ResourceUpdated(k) PROVE CurrentInv'
  <2>1. BucketsFollow'
    BY <1>1 DEF ResourceUpdated, storeVars, BucketsFollow
  <2>2. ASSUME NEW p \in Pane, NEW j \in Key, watch'[p] = j, j \notin tainted'
        PROVE  shown'[p] = cache'[j] \/ Coming(j)'
    <3>1. watch[p] = j /\ attached /\ cache' = cache /\ j \notin tainted
      BY <1>1, <2>2, StoreAssumption DEF ResourceUpdated, storeVars, PaneIsFed
    <3>2. CASE j = k
      BY <1>1, <3>1, <3>2 DEF ResourceUpdated
    <3>3. CASE j # k
      <4>1. shown'[p] = shown[p] /\ (Coming(j) => Coming(j)')
        BY <1>1, <3>1, <3>3 DEF ResourceUpdated, storeVars, Coming, TypeOK
      <4> QED BY <3>1, <4>1 DEF RowsFollow
    <3> QED BY <3>2, <3>3
  <2> QED BY <2>1, <2>2 DEF RowsFollow
<1>2. ASSUME NEW k \in Key, Fire(k) PROVE CurrentInv'
  <2>1. BucketsFollow'
    BY <1>2 DEF Fire, BucketsFollow
  <2>2. mail'[k] > 0 /\ \A j \in Key : j # k => mail'[j] = mail[j]
    BY <1>2 DEF Fire, Send, TypeOK
  <2>3. RowsFollow'
    BY <1>2, <2>2 DEF Fire, RowsFollow, Coming
  <2> QED BY <2>1, <2>3
<1>3. ASSUME NEW k \in Key, NEW o \in Object, Change(k, o) PROVE CurrentInv'
  BY <1>3 DEF Change, storeVars, BucketsFollow, RowsFollow, Coming
<1>4. ASSUME NEW k \in EventKey, Describe(k) PROVE CurrentInv'
  BY <1>4 DEF Describe, storeVars, BucketsFollow, RowsFollow, Coming
<1>5. CASE UNCHANGED vars
  BY <1>5 DEF vars, BucketsFollow, RowsFollow, Coming
<1>6. ASSUME NEW i \in Informer,
             \/ Listed(i) \/ Handle(i) \/ Handled(i) \/ Synced(i) \/ Stopped(i)
             \/ \E o \in Object : Notice(i, o) \/ Resync(i, o)
      PROVE  CurrentInv'
  BY <1>6, LearningFollows, HandlingFollows, TellingFollows
<1> QED BY <1>1, <1>2, <1>3, <1>4, <1>5, <1>6, CurrentInvUsers DEF Next

\* When nothing is under way for its key, a pane shows what the server has: an
\* empty queue has handed over all the informer knows, and rows that differ from
\* the bucket have a message, a timer, a trigger or a first list to come.
THEOREM SettledIsCurrent == Spec => []SettledPaneIsCurrent
<1>1. StoreInv /\ CurrentInv => SettledPaneIsCurrent
  <2> SUFFICES ASSUME StoreInv, CurrentInv, NEW p \in Pane, NEW k \in Key,
                      watch[p] = k, k \notin tainted, Settled(k)
               PROVE  shown[p] = server[k]
    BY DEF SettledPaneIsCurrent, StoreInv, TypeOK
  <2> DEFINE j == job[informers[k]]
  <2>1. /\ informers[k] # NoInformer /\ informers[k] \in Informer /\ j \in Job
        /\ j.synced /\ ~j.pending /\ j.queue = <<>> /\ j.known = server[k]
        /\ k \notin timers /\ mail[k] = 0
    BY DEF Settled, StoreInv, TypeOK
  <2>2. shown[p] = cache[k]
    BY <2>1 DEF CurrentInv, RowsFollow, Coming
  <2>3. Agrees(j, cache[k])
    BY <2>1 DEF CurrentInv, BucketsFollow
  <2>4. \A o \in Object : o \in server[k] <=> o \in cache[k]
    BY <2>1, <2>3 DEF Agrees, LastSays
  <2>5. server[k] \in SUBSET Object /\ cache[k] \in SUBSET Object
    BY DEF StoreInv, TypeOK
  <2> QED BY <2>2, <2>4, <2>5
<1> QED BY <1>1, StoreInvariant, CurrentInvInit, CurrentInvStep, PTL DEF Spec
=============================================================================
