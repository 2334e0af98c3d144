------------------------------ MODULE MCHostTun ------------------------------
(* Small instances of HostTun. *)
EXTENDS HostTun, TLC

CONSTANTS v1, v2

MCVars == {v1, v2}
MCMtus == {256, 1500}
MCSymmetry == Permutations(MCVars)

=============================================================================
