-------------------------- MODULE MCOrderLifecycle --------------------------
(* Small instances of OrderLifecycle for TLC. *)
EXTENDS OrderLifecycle, TLC

\* Orders are interchangeable: no action or invariant names one.
Symmetry == Permutations(Orders)
=============================================================================
