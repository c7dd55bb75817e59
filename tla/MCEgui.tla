------------------------------- MODULE MCEgui -------------------------------
EXTENDS EguiHost
=============================================================================
