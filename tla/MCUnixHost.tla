------------------------------ MODULE MCUnixHost ------------------------------
(* Model-checking instance of UnixHost. *)
EXTENDS UnixHost

BothSystems == {"linux", "mac"}
=============================================================================
