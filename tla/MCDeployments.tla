--------------------------- MODULE MCDeployments ---------------------------
(* Two semantic Validators of one backend, two releases, one attempt.       *)
EXTENDS Deployments, TLC

CONSTANTS v1, v2, a1

MCValidators == {v1, v2}
MCAttempts == {a1}
Symmetry == Permutations(MCValidators)
=============================================================================
