--------------------------- MODULE MCConfigStore ----------------------------
(* Model-checking instance of ConfigStore. *)
EXTENDS ConfigStore

MCLegacy(m, k, l) == [modifier |-> m, hotkeys |-> k, list |-> l]
\* No legacy file, one with recorded shortcuts, or one with a bare modifier.
SomeLegacy == {Absent, MCLegacy("CtrlAlt", "Alt", "plain"), MCLegacy("Alt", None, "plain")}

\* An editor removes the file, breaks it or leaves only a modifier in it.
SomeEdits == {Absent, Bad, MCLegacy("Alt", None, "plain")}

TwoModifiers == {"CtrlAlt", "Alt"}
CleanLists == {"plain", "edited"}
=============================================================================
