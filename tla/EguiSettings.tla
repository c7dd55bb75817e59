---------------------------- MODULE EguiSettings ----------------------------
(***************************************************************************)
(* The settings window of the egui host (volumecontrol-egui): the draft and *)
(* its baseline (settings/model.rs), the shortcut recorder, the intents of   *)
(* the views and the frames of app.rs that carry them out.  Three copies of  *)
(* the configuration are at work, the core's, the host's mirror of it and    *)
(* the draft, with the file behind them that other programs edit; the mirror *)
(* follows through overlay events that carry a configuration of their own.   *)
(* The update card is part of the window; its actions are those of           *)
(* EguiUpdates.                                                              *)
(***************************************************************************)
EXTENDS EguiUpdates, Sequences, SequencesExt

CONSTANTS
    MaxInputs,  \* bound: gestures, shortcuts and outside edits in a behaviour
    MaxFaults   \* bound: saves that fail

ASSUME BoundsAssumption == MaxInputs \in Nat /\ MaxFaults \in Nat
ASSUME NoneIsNoPreset == None \notin {"CtrlAlt", "Alt"}

VARIABLES
    pc,       \* the phase of the frame
    core,     \* AppCore.config
    file,     \* config.ini
    edited,   \* the file has a time the core has not seen
    mirror,   \* VolumeControlApp.config
    draft, baseline,
    pending,  \* pending_modifier
    shown,    \* the settings window is visible
    recorder, \* it waits for a shortcut
    error,    \* settings_error: none, field or config
    queue,    \* events: an overlay with its configuration, open or close settings,
              \* open the mixer or the help
    inputs, faults,
    late      \* history: an overlay older than the core's configuration is queued

copies == <<core, file, edited>>
window == <<draft, baseline, pending, shown, recorder, error>>
settings == <<copies, mirror, window>>
egui == <<pc, settings, queue, inputs, faults, late, cardVars>>

\* item stands for the fields without shortcuts; a bad one no save accepts.
Presets == {"CtrlAlt", "Alt"}
Items == {"plain", "other"}
Configs == [item : Items, keys : Presets \cup {"custom"}, modifier : Presets]
Default == [item |-> "plain", keys |-> "CtrlAlt", modifier |-> "CtrlAlt"]
\* What an editor leaves in the file.
Edits == {[Default EXCEPT !.item = "other"], [Default EXCEPT !.keys = "custom"]}

\* from_config: the draft has every field but the modifier.
DraftOf(c) == [item |-> c.item, keys |-> c.keys]
Drafts == [item : Items \cup {"bad"}, keys : Presets \cup {"custom"}]

Overlay(c) == [kind |-> "overlay", config |-> c]
OpenEvent == [kind |-> "open"]
CloseEvent == [kind |-> "close"]
OtherEvent == [kind |-> "other"]

EguiInit ==
    /\ pc = "idle"
    /\ core = Default /\ file = Default /\ edited = FALSE /\ mirror = Default
    /\ draft = DraftOf(Default) /\ baseline = Default /\ pending = None
    /\ shown \in BOOLEAN /\ recorder = FALSE /\ error = "none"
    /\ queue = <<>>
    /\ inputs = 0 /\ faults = 0 /\ late = FALSE
    /\ CardInit

Pristine == draft = DraftOf(baseline)
Input == inputs < MaxInputs /\ inputs' = inputs + 1
Rebase(c) == draft' = DraftOf(c) /\ baseline' = c

-----------------------------------------------------------------------------
(* The events of the queue. *)

State == [mirror |-> mirror, draft |-> draft, baseline |-> baseline,
          shown |-> shown, recorder |-> recorder, error |-> error]

ReopenRebases(s) == [s EXCEPT !.shown = TRUE, !.draft = DraftOf(s.mirror), !.baseline = s.mirror,
                              !.recorder = FALSE, !.error = "none"]
\* was_visible: an open window keeps its draft; pending_modifier is kept in any case.
Opened(s) == IF s.shown THEN s ELSE ReopenRebases(s)

\* show_surface_exclusive: the mixer, the settings and the help never stack, so the
\* event that opens another one hides the settings; the draft is left as it is.
Withdrawn(s) == [s EXCEPT !.shown = FALSE]

OnlyVolumeShown(s, e) ==
    CASE e.kind = "overlay" -> s
      [] e.kind = "open"    -> Opened(s)
      [] e.kind \in {"close", "other"} -> Withdrawn(s)

Handle(s, e) ==
    CASE e.kind = "overlay" -> [s EXCEPT !.mirror = e.config]
      [] e.kind = "open"    -> Opened(s)
      [] e.kind \in {"close", "other"} -> Withdrawn(s)

Drain ==
    /\ pc = "idle" /\ pc' = "poll" /\ ~quitting
    /\ LET s == FoldLeft(Handle, State, queue)
       IN  /\ mirror' = s.mirror /\ draft' = s.draft /\ baseline' = s.baseline
           /\ shown' = s.shown /\ recorder' = s.recorder /\ error' = s.error
    /\ queue' = <<>>
    /\ UNCHANGED <<copies, pending, inputs, faults, late, cardVars>>

-----------------------------------------------------------------------------
(* The polls of a frame: a shortcut or the wheel, a changed file, the update
   threads, the tray. *)

EditFile(c) ==
    /\ Input /\ c # file /\ file' = c /\ edited' = TRUE
    /\ UNCHANGED <<pc, core, mirror, window, queue, faults, late, cardVars>>

\* A volume action shows the HUD with the configuration of that moment.
PollVolume ==
    /\ pc \in {"poll", "wheel"} /\ Input
    /\ queue' = Append(queue, Overlay(core))
    /\ UNCHANGED <<pc, copies, mirror, window, faults, late, cardVars>>

\* reload_config_if_changed in poll_core: the mirror is copied, the draft is not.
ReloadChanged ==
    /\ pc = "poll" /\ pc' = "wheel" /\ edited
    /\ core' = file /\ edited' = FALSE /\ mirror' = file
    /\ queue' = Append(queue, Overlay(file))
    /\ UNCHANGED <<file, window, inputs, faults, late, cardVars>>

\* poll_updates.  An answer that comes after its channel was read waits for the
\* next frame.
PollUpdates ==
    /\ pc = "updates"
    /\ \/ (CheckFound \/ CheckFailed) /\ queue' = Append(queue, Overlay(core))
       \/ (DownloadReady \/ DownloadFailed) /\ UNCHANGED queue
    /\ UNCHANGED <<pc, settings, inputs, faults, late>>

Threads ==
    /\ CheckThread \/ DownloadThread
    /\ UNCHANGED <<pc, settings, queue, inputs, faults, late>>

\* The tray's menu: settings or help, a forced reload with its notice, or a check.
PollTray ==
    /\ pc = "tray" /\ Input
    /\ \/ queue' \in {Append(queue, OpenEvent), Append(queue, OtherEvent)} /\ UNCHANGED <<copies, cardVars>>
       \/ /\ core' = file /\ edited' = FALSE /\ UNCHANGED <<file, cardVars>>
          /\ queue' = queue \o <<Overlay(file), Overlay(file)>>
       \/ StartCheck /\ queue' = Append(queue, Overlay(core)) /\ UNCHANGED copies
    /\ UNCHANGED <<pc, mirror, window, faults, late>>

\* The tray's mixer entry and a second launch show the mixer at once, not by an event.
RaiseMixer ==
    /\ pc = "tray" /\ Input /\ shown' = FALSE
    /\ UNCHANGED <<pc, copies, mirror, draft, baseline, pending, recorder, error, queue, faults, late, cardVars>>

\* A phase ends; the shortcuts and the file are only polled every 150 ms.
Polled ==
    /\ \/ pc = "poll" /\ pc' = "wheel"
       \/ pc = "wheel" /\ pc' = "updates"
       \/ pc = "updates" /\ pc' = "tray"
       \/ pc = "tray" /\ pc' = "view"
    /\ UNCHANGED <<copies, mirror, window, queue, inputs, faults, late, cardVars>>

-----------------------------------------------------------------------------
(* The window's gestures; a frame carries out one. *)

Gesture == pc = "view" /\ shown /\ pc' = "idle" /\ Input

\* The tabs' controls write the draft.
EditField(v) ==
    /\ Gesture /\ v # draft.item /\ draft' = [draft EXCEPT !.item = v]
    /\ UNCHANGED <<copies, mirror, baseline, pending, shown, recorder, error, queue, faults, late, cardVars>>

Preset(m) ==
    /\ Gesture /\ draft' = [draft EXCEPT !.keys = m] /\ pending' = m
    /\ UNCHANGED <<copies, mirror, baseline, shown, recorder, error, queue, faults, late, cardVars>>

Record ==
    /\ Gesture /\ ~recorder /\ recorder' = TRUE
    /\ UNCHANGED <<copies, mirror, draft, baseline, pending, shown, error, queue, faults, late, cardVars>>

\* capture_keys: a combination or Backspace changes the binding, Escape does not; a
\* bare key or modifier goes on recording.
Capture ==
    /\ Gesture /\ recorder /\ recorder' = FALSE
    /\ draft' \in {draft, [draft EXCEPT !.keys = "custom"]}
    /\ UNCHANGED <<copies, mirror, baseline, pending, shown, error, queue, faults, late, cardVars>>

\* Escape belongs to the recorder first; then it hides the window at once and again
\* with the event the core queues.
Escape ==
    /\ Gesture /\ ~recorder /\ shown' = FALSE /\ queue' = Append(queue, CloseEvent)
    /\ UNCHANGED <<copies, mirror, draft, baseline, pending, recorder, error, faults, late, cardVars>>

\* The window's own close button: the recorder stays as it is.
CloseWindow ==
    /\ Gesture /\ shown' = FALSE
    /\ UNCHANGED <<copies, mirror, draft, baseline, pending, recorder, error, queue, faults, late, cardVars>>

Reset ==
    /\ Gesture /\ ~Pristine
    /\ draft' = DraftOf(baseline) /\ pending' = None /\ error' = "none"
    /\ UNCHANGED <<copies, mirror, baseline, shown, recorder, queue, faults, late, cardVars>>

Stale(c) == \E i \in 1..Len(queue) : queue[i].kind = "overlay" /\ queue[i].config # c

\* Cancel reloads the file and closes.
Cancel ==
    /\ Gesture
    /\ core' = file /\ edited' = FALSE /\ UNCHANGED file
    /\ queue' = Append(queue, Overlay(file))
    /\ mirror' = file /\ Rebase(file)
    /\ pending' = None /\ shown' = FALSE /\ recorder' = FALSE /\ error' = "none"
    /\ UNCHANGED <<faults, late, cardVars>>

-----------------------------------------------------------------------------
(* save_settings. *)

CanSave == Gesture /\ ~Pristine

Rejected ==
    /\ CanSave /\ draft.item = "bad" /\ error' = "field"
    /\ UNCHANGED <<copies, mirror, draft, baseline, pending, shown, recorder, queue, faults, late, cardVars>>

Applied == [core EXCEPT !.item = draft.item, !.keys = draft.keys]
\* restore_config puts the snapshot back; like every adoption it takes the file's
\* time for its own, read or not.
Undone == core
SaveFails ==
    /\ CanSave /\ draft.item # "bad" /\ faults < MaxFaults /\ faults' = faults + 1
    /\ core' = Undone /\ mirror' = Undone /\ edited' = FALSE /\ error' = "config"
    /\ late' = (late \/ Stale(Undone))
    /\ UNCHANGED <<file, draft, baseline, pending, shown, recorder, queue, cardVars>>

\* The modifier of the last preset is set after the draft is saved, with the keys
\* of that preset; a failure there is only logged.
WithModifier(c) == [c EXCEPT !.modifier = pending, !.keys = pending]
Save ==
    /\ CanSave /\ draft.item # "bad"
    /\ \/ pending = None /\ core' = Applied /\ UNCHANGED faults
       \/ pending # None /\ core' = WithModifier(Applied) /\ UNCHANGED faults
       \/ pending # None /\ core' = Applied /\ faults < MaxFaults /\ faults' = faults + 1
    /\ file' = core' /\ edited' = FALSE
    /\ mirror' = core' /\ Rebase(core') /\ pending' = None /\ error' = "none"
    /\ late' = (late \/ Stale(core'))
    /\ UNCHANGED <<shown, recorder, queue, cardVars>>

CardButton ==
    /\ Gesture
    /\ CheckUpdates \/ DownloadUpdate \/ InstallUpdate \/ DismissUpdate
    /\ UNCHANGED <<settings, queue, faults, late>>

\* The buttons of the mixer and of the help, which may be open beside the settings.
OtherWindow ==
    /\ pc = "view" /\ pc' = "idle" /\ Input
    /\ queue' \in {Append(queue, OpenEvent), Append(queue, OtherEvent)}
    /\ UNCHANGED <<settings, faults, late, cardVars>>

NoGesture ==
    /\ pc = "view" /\ pc' = "idle"
    /\ UNCHANGED <<copies, mirror, window, queue, inputs, faults, late, cardVars>>

EguiNext ==
    \/ Drain \/ PollVolume \/ ReloadChanged \/ PollTray \/ RaiseMixer \/ Polled
    \/ \E c \in Edits : EditFile(c)
    \/ \E v \in Items \cup {"bad"} : EditField(v)
    \/ \E m \in Presets : Preset(m)
    \/ Record \/ Capture \/ Escape \/ CloseWindow \/ Reset \/ Cancel
    \/ Rejected \/ SaveFails \/ Save \/ CardButton \/ OtherWindow \/ NoGesture
    \/ PollUpdates \/ Threads

-----------------------------------------------------------------------------

TypeOK ==
    /\ pc \in {"idle", "poll", "wheel", "updates", "tray", "view"}
    /\ core \in Configs /\ file \in Configs /\ mirror \in Configs /\ baseline \in Configs
    /\ edited \in BOOLEAN
    /\ draft \in Drafts /\ pending \in Presets \cup {None}
    /\ shown \in BOOLEAN /\ recorder \in BOOLEAN /\ error \in {"none", "field", "config"}
    /\ queue \in Seq([kind : {"overlay"}, config : Configs] \cup {OpenEvent, CloseEvent, OtherEvent})
    /\ inputs \in 0..MaxInputs /\ faults \in 0..MaxFaults /\ late \in BOOLEAN
    /\ CardTypeOK

\* With no event pending the mirror the window works from is the configuration the
\* core runs with, whatever was saved, reloaded, cancelled or undone in whatever
\* order; the exception is an overlay queued before a save of the same frame.
MirrorFollowsConfig == queue = <<>> /\ ~late => mirror = core

\* The copies of the window: the mirror of the configuration and the card's package.
CopiesAgree == MirrorFollowsConfig /\ OfferIsOnDisk

\* Some event of the queue hides the settings and a later one opens them.
Reopened ==
    \E i, j \in DOMAIN queue : i < j /\ queue[i] = OtherEvent /\ queue[j] = OpenEvent

\* An open draft belongs to the user: no event and no reload takes edits away or puts
\* others in, but for settings that the mixer or the help has hidden: opened again, even
\* by the same queue, they start from the mirror.
DraftIsKept ==
    draft' # draft /\ pc # "view" => (~shown \/ Reopened) /\ draft' = DraftOf(baseline')

\* What a save leaves in the file is the draft, with the keys it shows or those of the
\* preset that was pending.
DraftIsSaved ==
    file' # file /\ ~edited' => file'.item = draft.item /\ file'.keys \in {draft.keys} \cup ({pending} \ {None})

DraftIsTheUsers == [][DraftIsKept /\ DraftIsSaved]_egui

\* Not checked, for the code does otherwise: that an open window keeps the edits in it, and
\* that a save writes the keys the draft shows.  A window hidden by Open(Help) in the queue
\* that opens it again takes the mirror; and a preset that is still pending, overruled by
\* a recorded shortcut or left by Escape and forgotten, is set after the draft was saved.
EditsSurviveEvents == [][shown /\ shown' /\ draft' # draft => pc = "view"]_egui
SavesWhatIsShown == [][file' # file /\ ~edited' => DraftOf(file') = draft]_egui

\* "Open a draft from the running config" (settings/model.rs:66), with nothing else
\* pending.  It fails: an overlay queued before a save is read after it, with the old
\* configuration, and the next draft starts from that one; saving it undoes the
\* first save.
OpensOnRunningConfig ==
    [][~shown /\ shown' /\ queue = <<OpenEvent>> => baseline' = core]_egui
=============================================================================
