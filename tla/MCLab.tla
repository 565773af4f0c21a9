-------------------------------- MODULE MCLab --------------------------------
(***************************************************************************)
(* Instances of ScenarioLab for TLC.  Threads and run identities are       *)
(* interchangeable; only the run without liveness properties uses that.    *)
(***************************************************************************)
EXTENDS ScenarioLab, TLC

Symmetry == Permutations(Thread) \union Permutations(Run)
=============================================================================
