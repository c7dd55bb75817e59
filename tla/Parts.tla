-------------------------------- MODULE Parts -------------------------------
(***************************************************************************)
(* Parts of the program that share no state with each other, each a state    *)
(* machine of its own: the settings window of the egui host, the legacy      *)
(* settings window, the Windows audio backend, the liquid_glass surfaces, the *)
(* packages of an update, the programs that silence the shortcuts, the        *)
(* settings as text, and the painted windows of the legacy host.  One of them *)
(* runs.                                                                      *)
(***************************************************************************)
EXTENDS EguiSettings, LegacySettings, WindowsAudio, GlassSurfaces, Packages, Blocking, ConfigText, LegacyCards

VARIABLE part   \* chosen at the start

vars == <<part, egui, legacy, audio, glass, package, block, settingsText, cards>>

Init ==
    /\ part \in {"egui", "legacy", "audio", "glass", "packages", "blocking", "text", "cards"}
    \* Each part starts as it does alone if it runs, and in one fixed state if not.
    /\ EguiInit /\ (part = "egui" \/ ~shown)
    /\ LegacyInit
    /\ part = "legacy" \/ disk = CHOOSE c \in LegacyConfigs : c.rest = 0 /\ c.black = {} /\ Invalid(c) = None
    /\ AudioInit /\ (part = "audio" \/ (default = None /\ apartment = {}))
    /\ GlassInit /\ (part = "glass" \/ app = CHOOSE a \in GlassStates : TRUE)
    /\ PackageInit /\ (part = "packages" \/ host = [kind |-> "egui", os |-> "linux"])
    /\ BlockInit /\ (part = "blocking" \/ shell = [window |-> "egui", os |-> "windows", tools |-> None])
    /\ TextInit /\ (part = "text" \/ text = <<>>)
    /\ CardsInit /\ (part = "cards" \/ (caps = [contrast |-> FALSE, compositor |-> TRUE, plain |-> FALSE]
                                        /\ registered = CHOOSE r \in Statuses : TRUE))

Next ==
    \/ part = "egui" /\ EguiNext /\ UNCHANGED <<part, legacy, audio, glass, package, block, settingsText, cards>>
    \/ part = "legacy" /\ LegacyNext /\ UNCHANGED <<part, egui, audio, glass, package, block, settingsText, cards>>
    \/ part = "audio" /\ AudioNext /\ UNCHANGED <<part, egui, legacy, glass, package, block, settingsText, cards>>
    \/ part = "glass" /\ GlassNext /\ UNCHANGED <<part, egui, legacy, audio, package, block, settingsText, cards>>
    \/ part = "packages" /\ PackageNext /\ UNCHANGED <<part, egui, legacy, audio, glass, block, settingsText, cards>>
    \/ part = "blocking" /\ BlockNext /\ UNCHANGED <<part, egui, legacy, audio, glass, package, settingsText, cards>>
    \/ part = "text" /\ TextNext /\ UNCHANGED <<part, egui, legacy, audio, glass, package, block, cards>>
    \/ part = "cards" /\ CardsNext /\ UNCHANGED <<part, egui, legacy, audio, glass, package, block, settingsText>>

Spec == Init /\ [][Next]_vars

-----------------------------------------------------------------------------
\* What is computed anew from its input is right, wherever the running part has got to.  The
\* settings and their file are true to each other: the program reads back what it writes, and
\* reads what a user wrote; the checks of window, core and file agree, and a refused save is
\* refused for what was changed (config_ini.rs, config::validate, AppCore::update_settings,
\* SettingsDraft::validate).  Every control of a Glass scene can be reached (liquid_glass).
\* The help card's callout is laid out inside the card (help.rs).
ResultsAreRight ==
    /\ part = "text" => ReadsItsOwnText /\ WrittenIsRead /\ ChecksAgree /\ RefusalIsOnesOwn
    /\ part = "glass" => ScenesAreUsable
    /\ part = "cards" => ExplanationFits

\* The painted windows tell the truth: what is on the screen is what the window holds, that is
\* what was last read under the running config, a lit close button has the pointer on it, the
\* backdrop outlives DWM's override, and the rail has the colour core gives the sound
\* (mixer.rs, overlay.rs, help.rs, ui/signal_rail.rs).
CardsAreHonest ==
    part = "cards" => /\ PicturesAreCurrent /\ HeldIsConfirmed /\ HighlightIsThePointers
                      /\ BackdropSettles /\ RailsAgree
=============================================================================
