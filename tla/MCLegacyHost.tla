------------------------------ MODULE MCLegacyHost ------------------------------
(* The native Windows program on a desktop, a scaled laptop screen too low   *)
(* for the flyout above the overlay, and a small monitor left of the primary.*)
EXTENDS LegacyHost

MCScreens == {[x |-> 0, y |-> 0, w |-> 1920, h |-> 1040, scale |-> 4],
              [x |-> 0, y |-> 0, w |-> 1366, h |-> 660, scale |-> 8],
              [x |-> -800, y |-> 0, w |-> 800, h |-> 560, scale |-> 5]}
=============================================================================
