-------------------------- MODULE MCMfBackendBase --------------------------
(* MfBackendBase on the constructor's own list of waits.                   *)
EXTENDS MfBackendBase, TLC

MCIntervals == <<500, 1000, 5000, 10000, 30000, 120000>>

=============================================================================
