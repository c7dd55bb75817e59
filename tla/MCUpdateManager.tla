-------------------------- MODULE MCUpdateManager --------------------------
(* UpdateManager with install commands as interchangeable model values. *)
EXTENDS UpdateManager, TLC

Interchangeable == Permutations(Installs)
=============================================================================
