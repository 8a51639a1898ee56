----------------------- MODULE ClusterSessions_proofs -----------------------
(***************************************************************************)
(* Proofs about ClusterSessions, for any sets of panes and contexts.       *)
(***************************************************************************)
EXTENDS ClusterSessions, TLAPS

USE ContextAssumption

\* The startup states are well-typed.
LEMMA TypeInit == Init => TypeOK
  BY DEF Init, TypeOK, Open, Lists, AllContexts

\* The variables keep their types, in every reachable state of any instance:
\* the marker is on open lists only, a placeholder is an open terminal, the
\* focus is on an open pane, and a discovered cluster is a live one.
THEOREM TypeCorrect == Spec => []TypeOK
<1>1. TypeOK /\ [Next]_vars => TypeOK'
  <2> SUFFICES ASSUME TypeOK, [Next]_vars
               PROVE  TypeOK'
    OBVIOUS
  <2> USE DEF TypeOK, Open, Lists, AllContexts
  <2>1. ASSUME NEW c \in Context, PaneSwitch(c)
        PROVE  TypeOK'
    BY <2>1 DEF PaneSwitch, Retargeted, Emptied, Reconcile, ReferencedIn, Dial
  <2>2. ASSUME NEW c \in Context, GroupSwitch(c)
        PROVE  TypeOK'
    BY <2>2 DEF GroupSwitch, Group, Retargeted, Emptied, Reconcile,
                ReferencedIn, SyncOffline, Dial
  <2>3. ASSUME NEW c \in Context, ClusterReady(c)
        PROVE  TypeOK'
    BY <2>3 DEF ClusterReady, Reconcile, ReferencedIn, SyncOffline, ListsOn
  <2>4. ASSUME NEW c \in Context, ClusterReadyFailed(c)
        PROVE  TypeOK'
    BY <2>4 DEF ClusterReadyFailed, Reconcile, ReferencedIn, SyncOffline, ListsOn
  <2>5. ASSUME NEW c \in Context, DiscoveryRefreshed(c)
        PROVE  TypeOK'
    BY <2>5 DEF DiscoveryRefreshed, paneVars
  <2>6. ASSUME NEW c \in Context, ClusterHealth(c)
        PROVE  TypeOK'
    BY <2>6 DEF ClusterHealth, SyncOffline
  <2>7. ASSUME NEW c \in Pinned, PaneSwitchPinned(c)
        PROVE  TypeOK'
    BY <2>7 DEF PaneSwitchPinned, Retargeted, Populated, Reconcile,
                ReferencedIn, SyncOffline
  <2>8. ASSUME NEW c \in Pinned, GroupSwitchPinned(c)
        PROVE  TypeOK'
    BY <2>8 DEF GroupSwitchPinned, Group, Retargeted, Populated, Reconcile,
                ReferencedIn, SyncOffline
  <2>9. ASSUME NEW p \in Pane, Split(p)
        PROVE  TypeOK'
    BY <2>9 DEF Split, FocusedContext, Populated, SyncOffline
  <2>10. ASSUME NEW p \in Pane, NEW debug \in BOOLEAN, OpenTerminal(p, debug)
         PROVE  TypeOK'
    BY <2>10 DEF OpenTerminal, SyncOffline
  <2>11. ASSUME NEW p \in Pane, DebugReady(p)
         PROVE  TypeOK'
    BY <2>11 DEF DebugReady
  <2>12. ASSUME NEW p \in Pane, NEW next \in Pane, DebugFailed(p, next)
         PROVE  TypeOK'
    <3>1. CASE Open = {p}
      BY <2>12, <3>1 DEF DebugFailed
    <3>2. CASE Open # {p}
      <4>1. RemovePane(p, next) /\ UNCHANGED <<offline, live, discovered, dials, beats>>
        BY <2>12, <3>2 DEF DebugFailed
      <4>2. p \in term /\ Open' = Open \ {p}
        BY <2>12, <4>1 DEF DebugFailed, RemovePane
      <4>3. Lists' = Lists
        BY <4>1, <4>2 DEF RemovePane
      <4>4. ctx' \in [Pane -> AllContexts \cup {NoContext}]
        BY <4>1 DEF RemovePane
      <4>5. feed' \in [Pane -> {"none", "fed", "missing"}]
        BY <4>1 DEF RemovePane, Emptied
      <4> QED
        BY <4>1, <4>2, <4>3, <4>4, <4>5 DEF RemovePane
    <3> QED BY <3>1, <3>2
  <2>13. ASSUME NEW next \in Pane, CloseSplit(next)
         PROVE  TypeOK'
    BY <2>13 DEF CloseSplit, RemovePane, Emptied, Reconcile, ReferencedIn, SyncOffline
  <2>14. ASSUME NEW p \in Pane, Focus(p)
         PROVE  TypeOK'
    BY <2>14 DEF Focus
  <2>15. CASE Repopulate
    BY <2>15 DEF Repopulate, Populated
  <2>16. CASE ReloadAll
    BY <2>16 DEF ReloadAll, Populated
  <2>17. CASE UNCHANGED vars
    BY <2>17 DEF vars
  <2> QED
    BY <2>1, <2>2, <2>3, <2>4, <2>5, <2>6, <2>7, <2>8, <2>9, <2>10, <2>11,
       <2>12, <2>13, <2>14, <2>15, <2>16, <2>17 DEF Next
<1> QED
  BY TypeInit, <1>1, PTL DEF Spec

\* The parts about panes: what a list shows, the shell a terminal holds, the
\* pinned panes and the markers.  Together they are inductive with TypeOK.
PanesInv == /\ RowsHaveACluster
            /\ TerminalKeepsItsCluster
            /\ PinnedPaneShown
            /\ OfflineOnlyWhileDown

\* No pane holds anything of a cluster at the start that is not there.
LEMMA PanesInit == Init => PanesInv
  BY DEF Init, PanesInv, RowsHaveACluster, TerminalKeepsItsCluster,
         PinnedPaneShown, OfflineOnlyWhileDown, Open, Lists, AllContexts

\* Every step keeps the four parts, each of which the others lean on.
LEMMA PanesStep ==
  ASSUME TypeOK, TypeOK', PanesInv, [Next]_vars
  PROVE  PanesInv'
<1> USE DEF PanesInv, RowsHaveACluster, TerminalKeepsItsCluster, PinnedPaneShown,
            OfflineOnlyWhileDown, TypeOK, Open, Lists, AllContexts
<1>1. ASSUME NEW c \in Context, PaneSwitch(c)
     PROVE  PanesInv'
  BY <1>1 DEF PaneSwitch, Retargeted, Emptied, Reconcile, ReferencedIn, Dial
<1>2. ASSUME NEW c \in Context, GroupSwitch(c)
     PROVE  PanesInv'
  BY <1>2 DEF GroupSwitch, Group, Retargeted, Emptied, Reconcile, ReferencedIn, SyncOffline, Dial
<1>3. ASSUME NEW c \in Context, ClusterReady(c)
     PROVE  PanesInv'
  BY <1>3 DEF ClusterReady, Reconcile, ReferencedIn, SyncOffline, ListsOn
<1>4. ASSUME NEW c \in Context, ClusterReadyFailed(c)
     PROVE  PanesInv'
  BY <1>4 DEF ClusterReadyFailed, Reconcile, ReferencedIn, SyncOffline, ListsOn
<1>5. ASSUME NEW c \in Context, DiscoveryRefreshed(c)
     PROVE  PanesInv'
  BY <1>5 DEF DiscoveryRefreshed, paneVars
<1>6. ASSUME NEW c \in Context, ClusterHealth(c)
     PROVE  PanesInv'
  BY <1>6 DEF ClusterHealth, SyncOffline
<1>7. ASSUME NEW c \in Pinned, PaneSwitchPinned(c)
     PROVE  PanesInv'
  BY <1>7 DEF PaneSwitchPinned, Retargeted, Populated, Reconcile, ReferencedIn, SyncOffline
<1>8. ASSUME NEW c \in Pinned, GroupSwitchPinned(c)
     PROVE  PanesInv'
  BY <1>8 DEF GroupSwitchPinned, Group, Retargeted, Populated, Reconcile, ReferencedIn, SyncOffline
<1>9. ASSUME NEW p \in Pane, Split(p)
     PROVE  PanesInv'
  BY <1>9 DEF Split, FocusedContext, Populated, SyncOffline
<1>10. ASSUME NEW p \in Pane, NEW debug \in BOOLEAN, OpenTerminal(p, debug)
      PROVE  PanesInv'
  BY <1>10 DEF OpenTerminal, SyncOffline
<1>11. ASSUME NEW p \in Pane, DebugReady(p)
      PROVE  PanesInv'
  BY <1>11 DEF DebugReady
<1>12. ASSUME NEW p \in Pane, NEW next \in Pane, DebugFailed(p, next)
      PROVE  PanesInv'
  BY <1>12 DEF DebugFailed, RemovePane, Emptied
<1>13. ASSUME NEW next \in Pane, CloseSplit(next)
      PROVE  PanesInv'
  BY <1>13 DEF CloseSplit, RemovePane, Emptied, Reconcile, ReferencedIn, SyncOffline
<1>14. ASSUME NEW p \in Pane, Focus(p)
      PROVE  PanesInv'
  BY <1>14 DEF Focus
<1>15. CASE Repopulate
  BY <1>15 DEF Repopulate, Populated
<1>16. CASE ReloadAll
  BY <1>16 DEF ReloadAll, Populated
<1>17. CASE UNCHANGED vars
  BY <1>17 DEF vars
<1> QED
  BY <1>1, <1>2, <1>3, <1>4, <1>5, <1>6, <1>7, <1>8, <1>9, <1>10, <1>11, <1>12, <1>13, <1>14, <1>15, <1>16, <1>17 DEF Next

\* The four parts hold throughout.
LEMMA PanesInvariant == Spec => []PanesInv
<1>1. TypeOK /\ TypeOK' /\ PanesInv /\ [Next]_vars => PanesInv'
  BY PanesStep
<1> QED
  BY PanesInit, TypeCorrect, <1>1, PTL DEF Spec

\* No pane shows rows of a cluster that was torn down, whatever the order of
\* switches, closes, late dials and failed debug sessions.
THEOREM RowsSafe == Spec => []RowsHaveACluster
BY PanesInvariant, PTL DEF PanesInv

\* A terminal pane's cluster is never torn down while the pane is open.
THEOREM ShellsSafe == Spec => []TerminalKeepsItsCluster
BY PanesInvariant, PTL DEF PanesInv

\* A list on a pinned context is always filled and never marked offline.
THEOREM PinnedSafe == Spec => []PinnedPaneShown
BY PanesInvariant, PTL DEF PanesInv

\* The offline marker outlives the outage by one outstanding dial at most.
THEOREM OfflineSafe == Spec => []OfflineOnlyWhileDown
BY PanesInvariant, PTL DEF PanesInv

\* The step that drops the last reference to a cluster tears it down, with the
\* failure of a debug pre-flight as the only exception.
THEOREM ClustersReleased == Spec => ClustersAreReleased
<1> DEFINE Released == \/ Orphans(live', ctx') \subseteq Orphans(live, ctx)
                       \/ \E p, next \in Pane : DebugFailed(p, next)
<1>1. TypeOK /\ [Next]_vars => [Released]_vars
  <2> SUFFICES ASSUME TypeOK, [Next]_vars
               PROVE  Released
    OBVIOUS
  <2> USE DEF Orphans, ReferencedIn, Open, Lists, TypeOK, AllContexts
  <2>1. ASSUME live' \subseteq ReferencedIn(ctx')
        PROVE  Released
    BY <2>1
  <2>2. ASSUME NEW c \in Context, \/ PaneSwitch(c) \/ GroupSwitch(c)
                                  \/ ClusterReady(c) \/ ClusterReadyFailed(c)
        PROVE  live' \subseteq ReferencedIn(ctx')
    BY <2>2 DEF PaneSwitch, GroupSwitch, ClusterReady, ClusterReadyFailed, Reconcile
  <2>3. ASSUME NEW c \in Pinned, PaneSwitchPinned(c) \/ GroupSwitchPinned(c)
        PROVE  live' \subseteq ReferencedIn(ctx')
    BY <2>3 DEF PaneSwitchPinned, GroupSwitchPinned, Reconcile
  <2>4. ASSUME NEW next \in Pane, CloseSplit(next)
        PROVE  live' \subseteq ReferencedIn(ctx')
    BY <2>4 DEF CloseSplit, Reconcile
  <2>5. ASSUME NEW p \in Pane, Split(p) \/ \E debug \in BOOLEAN : OpenTerminal(p, debug)
        PROVE  Released
    BY <2>5 DEF Split, OpenTerminal
  <2>6. ASSUME \/ \E c \in Context : DiscoveryRefreshed(c) \/ ClusterHealth(c)
               \/ \E p \in Pane : DebugReady(p) \/ Focus(p)
               \/ Repopulate \/ ReloadAll \/ UNCHANGED vars
        PROVE  Released
    BY <2>6 DEF DiscoveryRefreshed, ClusterHealth, DebugReady, Focus, Repopulate,
                ReloadAll, paneVars, vars
  <2> QED
    BY <2>1, <2>2, <2>3, <2>4, <2>5, <2>6 DEF Next
<1> QED
  BY TypeCorrect, <1>1, PTL DEF Spec, ClustersAreReleased

\* Started on a kube-context, every connected cluster has a heartbeat.  The
\* hypothesis is needed: manifest mode caches a cluster without one.
THEOREM ProbesArmed == ASSUME Startup \in Context
                       PROVE  Spec => []EveryClusterProbed
<1> USE DEF EveryClusterProbed
<1>1. Init => EveryClusterProbed
  BY DEF Init
<1>2. TypeOK /\ EveryClusterProbed /\ [Next]_vars => EveryClusterProbed'
  <2> SUFFICES ASSUME TypeOK, EveryClusterProbed, [Next]_vars
               PROVE  EveryClusterProbed'
    OBVIOUS
  <2> USE DEF TypeOK
  <2>1. ASSUME NEW c \in Context, ClusterReady(c)
        PROVE  EveryClusterProbed'
    BY <2>1 DEF ClusterReady, Reconcile
  <2>2. ASSUME NEW c \in Context, ClusterHealth(c)
        PROVE  EveryClusterProbed'
    BY <2>2 DEF ClusterHealth
  <2>3. ASSUME live' \subseteq live, beats' = beats
        PROVE  EveryClusterProbed'
    BY <2>3
  <2>4. ASSUME NEW c \in Context,
               PaneSwitch(c) \/ GroupSwitch(c) \/ ClusterReadyFailed(c)
        PROVE  live' \subseteq live /\ beats' = beats
    BY <2>4 DEF PaneSwitch, GroupSwitch, ClusterReadyFailed, Reconcile
  <2>5. ASSUME NEW c \in Pinned, PaneSwitchPinned(c) \/ GroupSwitchPinned(c)
        PROVE  live' \subseteq live /\ beats' = beats
    BY <2>5 DEF PaneSwitchPinned, GroupSwitchPinned, Reconcile
  <2>6. ASSUME NEW p \in Pane,
               \/ Split(p) \/ DebugReady(p) \/ Focus(p) \/ CloseSplit(p)
               \/ \E debug \in BOOLEAN : OpenTerminal(p, debug)
               \/ \E next \in Pane : DebugFailed(p, next)
        PROVE  live' \subseteq live /\ beats' = beats
    BY <2>6 DEF Split, DebugReady, Focus, CloseSplit, OpenTerminal, DebugFailed, Reconcile
  <2>7. ASSUME Repopulate \/ ReloadAll \/ UNCHANGED vars
               \/ \E c \in Context : DiscoveryRefreshed(c)
        PROVE  live' \subseteq live /\ beats' = beats
    BY <2>7 DEF Repopulate, ReloadAll, DiscoveryRefreshed, vars
  <2> QED
    BY <2>1, <2>2, <2>3, <2>4, <2>5, <2>6, <2>7 DEF Next
<1> QED
  BY <1>1, <1>2, TypeCorrect, PTL DEF Spec
=============================================================================
