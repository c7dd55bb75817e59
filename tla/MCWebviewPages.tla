--------------------------- MODULE MCWebviewPages ---------------------------
(* Model-checking instance of WebviewPages: two streams, two presets. *)
EXTENDS WebviewPages

TwoModifiers == {"CtrlAlt", "Alt"}
=============================================================================
