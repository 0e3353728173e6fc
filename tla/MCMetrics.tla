----------------------------- MODULE MCMetrics -----------------------------
(* The registry on its own, with recorders that are interchangeable.        *)
EXTENDS Metrics, TLC

Symmetry == Permutations(Requests)
=============================================================================
