---------------------------- MODULE VolumeMirror ----------------------------
(***************************************************************************)
(* What a volume controller promises about the copy of the endpoint it     *)
(* keeps: the endpoint moves as it likes, and the copy only ever becomes   *)
(* what one look has seen, the volume at the look's beginning and the mute *)
(* flag at its end.  Abstract specification; AppCore (module VolumeCore)   *)
(* implements it with its cache last_state.                                *)
(***************************************************************************)
CONSTANTS EndpointStates,  \* what the endpoint can be
          Fallback,        \* shown when the first look fails
          None

VARIABLES endpoint, copy,
          glimpse          \* the volume seen by the look in progress, or None

vars == <<endpoint, copy, glimpse>>

Init == endpoint \in EndpointStates /\ copy \in {endpoint, Fallback} /\ glimpse = None

Move == endpoint' \in EndpointStates /\ glimpse' \in {glimpse, None} /\ UNCHANGED copy
Look == glimpse' = endpoint.volume /\ UNCHANGED <<endpoint, copy>>
Adopt ==
    /\ glimpse # None /\ glimpse' = None
    /\ copy' = [volume |-> glimpse, muted |-> endpoint.muted]
    /\ UNCHANGED endpoint

Next == Move \/ Look \/ Adopt

Spec == Init /\ [][Next]_vars
=============================================================================
