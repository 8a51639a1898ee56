-------------------------- MODULE MCInformerStore --------------------------
(***************************************************************************)
(* InformerStore for TLC: its constants have their values in the .cfg.     *)
(* Liveness is checked on the same graph, so that no symmetry is taken.    *)
(***************************************************************************)
EXTENDS InformerStore
=============================================================================
