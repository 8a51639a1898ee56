---------------------------- MODULE MCNavigation ----------------------------
(***************************************************************************)
(* Instances of Navigation for TLC: deployments over pods, and the list of *)
(* contexts.                                                               *)
(***************************************************************************)
EXTENDS Navigation

CONSTANTS deploys, pods, contexts

MCDefaultNs == [c \in Context |-> CHOOSE ns \in Ns : TRUE]
MCChildren == [k \in Kind |-> IF k = deploys THEN {pods} ELSE {}]
MCParents == [k \in Kind |-> IF k = pods THEN {deploys} ELSE {}]
Symmetry == Permutations(Pane) \cup Permutations(Context)
=============================================================================
