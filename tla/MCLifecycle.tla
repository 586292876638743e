---------------------------- MODULE MCLifecycle -----------------------------
(***************************************************************************)
(* The instance of Lifecycle that TLC checks: pids are interchangeable.    *)
(***************************************************************************)
EXTENDS Lifecycle, TLC

Symmetry == Permutations(Pids)
=============================================================================
