--------------------------- MODULE MCValidationRun ---------------------------
(* Instances of ValidationRun for TLC: workflows of two and four steps.    *)
(* Workers are interchangeable, so safety runs may use WorkerSymmetry.      *)
EXTENDS RunProperties, TLC

CONSTANTS w1, w2

MCSteps == 1 .. NumSteps
WorkerSymmetry == Permutations(Workers)

TwoContainers == <<"container", "container">>
ContainerThenLocal == <<"container", "local">>
AllKinds == <<"container", "local", "advisory", "credential">>
=============================================================================
