----------------------------- MODULE MCLifecycle -----------------------------
(* Small instances of Lifecycle. *)
EXTENDS Lifecycle, TLC

(* Clients do the same operations, and no constant names one of them. *)
ClientSymmetry == Permutations(Clients)
=============================================================================
