---------------------------- MODULE MCTauriHost ----------------------------
(* TauriHost on both platforms in one run. *)
EXTENDS TauriHost

BothPlatforms == {TRUE, FALSE}
=============================================================================
