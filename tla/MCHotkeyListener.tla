-------------------------- MODULE MCHotkeyListener -------------------------
(* HotkeyListener with two keys and two sets of bindings: in the first both    *)
(* keys repeat, in the second one of them mutes and the other changes meaning. *)
EXTENDS HotkeyListener

CONSTANTS k1, k2

MCActions == {"VolumeUp", "VolumeDown", "ToggleMute"}
MCVolume  == {"VolumeUp", "VolumeDown"}
UpDown == [a \in MCActions |-> CASE a = "VolumeUp" -> k1 [] a = "VolumeDown" -> k2
                                 [] OTHER -> None]
UpMute == [a \in MCActions |-> CASE a = "VolumeUp" -> k2 [] a = "ToggleMute" -> k1
                                 [] OTHER -> None]
StartSet == {UpDown}
TwoSets == {UpDown, UpMute}
=============================================================================
