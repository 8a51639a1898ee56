------------------------- MODULE MCClusterSessions -------------------------
(***************************************************************************)
(* Instances of ClusterSessions for TLC: two kube-contexts, the pinned     *)
(* manifest context, and panes that are interchangeable.                   *)
(***************************************************************************)
EXTENDS ClusterSessions, TLC

Symmetry == Permutations(Pane)
=============================================================================
