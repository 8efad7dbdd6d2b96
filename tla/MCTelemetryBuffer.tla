-------------------------- MODULE MCTelemetryBuffer --------------------------
(***************************************************************************)
(* One or two threads that publish; the bounds are in the configurations.  *)
(***************************************************************************)
EXTENDS TelemetryBuffer, TLC

CONSTANTS c1, c2

Symmetry == Permutations(Callers)

=============================================================================
