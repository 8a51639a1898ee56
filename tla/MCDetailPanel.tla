---------------------------- MODULE MCDetailPanel ----------------------------
(***************************************************************************)
(* An instance of DetailPanel for TLC: a pane that lists a and b, and one  *)
(* that lists c, an object of the name and namespace of a on another       *)
(* cluster.                                                                *)
(***************************************************************************)
EXTENDS DetailPanel, TLC

CONSTANTS p1, p2, a, b, c

MCRowsOf == p1 :> {a, b} @@ p2 :> {c}
MCKeyOf == a :> "Kind/a" @@ b :> "Kind/b" @@ c :> "Kind/a"
=============================================================================
