---------------------------- MODULE WebviewPages ----------------------------
(***************************************************************************)
(* The webview pages of the Tauri host, one open at a time: the mixer page    *)
(* or the settings page, each with its own share of the occasions.             *)
(***************************************************************************)
EXTENDS MixerPage, SettingsPage

CONSTANTS MixerInputs, SettingsInputs   \* bounds

ASSUME InputsAssumption == MixerInputs \in Nat /\ SettingsInputs \in Nat

VARIABLE open   \* the page, chosen at the start

pageVars == <<open, mixer, settings, channel, occasions>>

PagesInit ==
    /\ \/ open = "mixer" /\ occasions = MixerInputs
       \/ open = "settings" /\ occasions = SettingsInputs
    /\ MixerInit(open = "mixer") /\ SettingsInit(open = "settings")
    /\ sent = <<>> /\ events = <<>> /\ replies = <<>>

PagesNext ==
    \/ open = "mixer" /\ MixerNext /\ UNCHANGED <<open, settings>>
    \/ open = "settings" /\ SettingsNext /\ UNCHANGED <<open, mixer>>

PagesSpec == PagesInit /\ [][PagesNext]_pageVars
FairPages == PagesSpec /\ MixerFairness

\* At rest the open page shows what the host has, as MixerAgrees and SettingsAgree say.
PagesAgree == MixerAgrees /\ SettingsAgree
=============================================================================
