------------------------------- MODULE Absent -------------------------------
(* The absent value of the modules that are checked together.               *)
CONSTANT None
=============================================================================
