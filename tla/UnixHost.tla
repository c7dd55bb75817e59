------------------------------- MODULE UnixHost -------------------------------
(***************************************************************************)
(* The two hosts outside Windows that draw their own surfaces: the GTK     *)
(* loop (linux_app.rs) around the reducer HostCore (linux_host_core.rs),   *)
(* and the AppKit loop (macos_app.rs).                                     *)
(*                                                                         *)
(* Each is one thread.  GLib runs a fast callback every 15 ms, which       *)
(* drains the shortcuts and the surfaces' actions, and a slow one every    *)
(* 150 ms, which reloads the configuration, tries for a sound device,      *)
(* reads it and publishes.  The AppKit loop does all of that in a row      *)
(* after every event or 150 ms.  Other programs change the device, the     *)
(* sound server and the configuration file between any two of the calls.   *)
(*                                                                         *)
(* A call to the device works when the sound server is up.  One that fails *)
(* on Linux may say that the device is lost: HostCore then drops it and    *)
(* has MaxRetries polls to open another one.                               *)
(***************************************************************************)
EXTENDS Integers, Sequences, FiniteSets, Absent

CONSTANTS
  Systems,        \* among "linux", "mac"
  Top, Half,      \* the loudest level, and the level a reset sets
  Step,           \* what one press adds
  Modifiers, Looks, \* of a configuration: the shortcuts' modifier, the appearance
  MaxRetries,     \* MAX_AUDIO_RETRIES
  MaxInputs       \* bound: what users and other programs do

ASSUME UnixAssumption == /\ Systems \subseteq {"linux", "mac"} /\ Systems # {}
                         /\ Top \in Nat /\ Half \in 0..Top /\ Step \in 1..Top
                         /\ MaxRetries \in Nat \ {0} /\ MaxInputs \in Nat
                         /\ None \notin Modifiers /\ None \notin 0..Top

VARIABLES system,
          dev, up,      \* the endpoint: level and mute; whether the sound server answers
          audio,        \* HostCore.audio is Some (always on macOS)
          retries,      \* audio_retry_attempts
          state,        \* AppState: level, mute, status, look
          degraded,     \* HostCore.degraded, by kind
          visible,      \* the surfaces AppState shows
          published,    \* what the renderer was last given
          config,       \* the running configuration
          bound,        \* the modifier the listener registered, or None without a listener
          file, dated,  \* the configuration file; the recorded time is that of the file
          asked,        \* config_reload_requested
          keys, acts,   \* the shortcut channel, the renderer's channel
          stage, target, \* the next part of a poll; the level a step is about to write
          alive,        \* the listener's thread runs
          quit, ended, inputs,
          unseen        \* history: another program changed the device since it was read

host == <<audio, retries, state, degraded, visible, published>>
conf == <<config, bound, file, dated, asked>>
work == <<keys, acts, target>>
unixVars == <<system, dev, up, host, conf, work, stage, alive, quit, ended, inputs, unseen>>

Menus == {"Mixer", "Settings", "Help"}
Surfaces == Menus \cup {"Overlay"}
Keys == {"Up", "Down", "Mute", "Reset", "Mixer", "Menu"}
Configs == [modifier : Modifiers, look : Looks]
\* The file holds INI text, JSON text (an older version's), neither, or is missing.
Files == [kind : {"ini", "json"}, config : Configs] \cup [kind : {"bad", "absent"}, config : {None}]
Act(k, v) == [k |-> k, v |-> v]
Acts == [k : {"set"}, v : 0..Top] \cup [k : {"setMute"}, v : BOOLEAN]
        \cup [k : {"adjust"}, v : {-Step, Step}]
        \cup [k : {"mute", "reset", "menu", "reload", "exit"}, v : {None}]
        \cup [k : {"show", "hide", "toggle"}, v : Surfaces]
        \cup [k : {"look", "draft"}, v : Looks]

Linux == system = "linux"
Confirmed == [level |-> dev.level, muted |-> dev.muted, status |-> "Ready", look |-> config.look]

UnixInit ==
  /\ system \in Systems
  /\ dev = [level |-> Half, muted |-> FALSE]
  /\ up \in (IF Linux THEN BOOLEAN ELSE {TRUE}) /\ audio = up
  /\ retries = 0
  /\ config \in Configs /\ file = [kind |-> "ini", config |-> config] /\ dated = TRUE
  /\ state = IF up THEN Confirmed
             ELSE [level |-> 0, muted |-> FALSE, status |-> "Error", look |-> config.look]
  /\ published = state
  /\ bound \in (IF Linux THEN {None, config.modifier} ELSE {config.modifier})
  /\ alive = (bound # None)
  /\ degraded = (IF up THEN {} ELSE {"audio", "start"}) \cup (IF alive THEN {} ELSE {"keys"})
  /\ visible = {} /\ asked = FALSE
  /\ keys = <<>> /\ acts = <<>> /\ target = None /\ stage = "wait"
  /\ quit = FALSE /\ ended = FALSE /\ inputs = 0 /\ unseen = FALSE

(***************************************************************************)
(* The device.  On Linux a failed call may drop it; macOS logs and goes on.*)
(***************************************************************************)
Answers == audio /\ up
Clamped(l) == IF l < 0 THEN 0 ELSE IF l > Top THEN Top ELSE l

Failed ==
  IF Linux
  THEN /\ audio' \in {audio, FALSE}
       /\ state' = [state EXCEPT !.status = "Error"]
       /\ degraded' = degraded \cup {"audio"}
  ELSE UNCHANGED <<audio, state, degraded>>

\* Mutant of Mutate: what was written counts as confirmed.
MutateConfirmed(d) ==
  \/ Answers /\ dev' = d /\ UNCHANGED <<audio, state, degraded>>
  \/ ~Answers /\ Failed /\ UNCHANGED dev
\* mutate_audio: the new state is not taken for confirmed.
Mutate(d) ==
  \/ /\ Answers /\ dev' = d
     /\ state' = IF Linux THEN [state EXCEPT !.status = "Syncing"] ELSE state
     /\ UNCHANGED <<audio, degraded>>
  \/ ~Answers /\ Failed /\ UNCHANGED dev

\* The level a step starts from is the device's, or macOS's last when that cannot be read.
ReadToStep(d) ==
  /\ \/ Answers /\ target' = Clamped(dev.level + d) /\ UNCHANGED <<audio, state, degraded>>
     \/ ~Answers /\ target' = (IF Linux THEN None ELSE Clamped(state.level + d)) /\ Failed
  /\ UNCHANGED dev

\* refresh_audio, refresh_from_audio.
Refreshed ==
  \/ /\ Answers /\ state' = Confirmed /\ degraded' = degraded \ {"audio"}
     /\ unseen' = FALSE /\ UNCHANGED audio
  \/ /\ ~Answers /\ UNCHANGED unseen
     /\ state' = [state EXCEPT !.status = "Error", !.look = config.look]
     /\ IF Linux THEN audio' \in {audio, FALSE} /\ degraded' = degraded \cup {"audio"}
        ELSE UNCHANGED <<audio, degraded>>

(***************************************************************************)
(* apply_action                                                            *)
(***************************************************************************)
\* show_surface_exclusive; macOS has no such rule.
Shown(s) == (IF Linux /\ s \in Menus THEN visible \ Menus ELSE visible) \cup {s}
Surface(k, s) == visible' = IF k = "hide" \/ (k = "toggle" /\ s \in visible)
                            THEN visible \ {s} ELSE Shown(s)

Look(l) == config' = [config EXCEPT !.look = l] /\ state' = [state EXCEPT !.look = l]

\* apply_reloaded_config: a listener is told of another modifier.
Adopt(c) ==
  /\ config' = c /\ state' = [state EXCEPT !.look = c.look]
  /\ bound' = IF bound # None /\ c.modifier # config.modifier THEN c.modifier ELSE bound

\* apply_settings_patch: memory is changed field by field before a later field, the
\* autostart entry or the save may fail.  macOS does not take drafts yet.
Draft(l) ==
  LET c == [config EXCEPT !.look = l] IN
  IF ~Linux THEN UNCHANGED <<conf, state>>
  ELSE \/ /\ Adopt(c) /\ file' = [kind |-> "ini", config |-> c] /\ dated' = TRUE
          /\ UNCHANGED asked
       \/ /\ config' = c /\ UNCHANGED <<bound, file, dated, asked, state>>

\* reload_config_at reads JSON only; load_existing reads INI only, where no legacy
\* file is left to recover from.
Readable == file.kind = IF Linux THEN "json" ELSE "ini"
\* macOS also tries whenever the file has no time.
Outdated == ~dated \/ asked \/ (~Linux /\ file.kind = "absent")
ReloadIfChanged ==
  /\ asked' = FALSE /\ UNCHANGED file
  /\ IF Outdated /\ Readable THEN Adopt(file.config) /\ dated' = TRUE
     ELSE UNCHANGED <<config, bound, dated, state>>

\* Linux leaves a request to its slow poll; macOS forgets the time and looks at once.
Reload ==
  IF Linux THEN asked' = TRUE /\ UNCHANGED <<config, bound, file, dated, state>>
  ELSE /\ UNCHANGED <<file, asked>>
       /\ IF Readable THEN Adopt(file.config) /\ dated' = TRUE
          ELSE dated' = FALSE /\ UNCHANGED <<config, bound, state>>

Sound(a) ==
  /\ CASE a.k = "set" -> Mutate([dev EXCEPT !.level = a.v]) /\ UNCHANGED target
       [] a.k = "reset" -> Mutate([dev EXCEPT !.level = Half]) /\ UNCHANGED target
       [] a.k = "mute" -> Mutate([dev EXCEPT !.muted = ~@]) /\ UNCHANGED target
       [] a.k = "setMute" -> Mutate([dev EXCEPT !.muted = a.v]) /\ UNCHANGED target
       [] a.k = "adjust" -> ReadToStep(a.v)
  /\ UNCHANGED <<conf, visible, quit>>

Silent(a) ==
  /\ UNCHANGED <<dev, audio, degraded, target>>
  /\ \/ a.k \in {"show", "hide", "toggle"} /\ Surface(a.k, a.v) /\ UNCHANGED <<conf, state, quit>>
     \/ a.k = "look" /\ Look(a.v) /\ UNCHANGED <<bound, file, dated, asked, visible, quit>>
     \/ a.k = "draft" /\ Draft(a.v) /\ UNCHANGED <<visible, quit>>
     \/ a.k = "reload" /\ Reload /\ UNCHANGED <<visible, quit>>
     \/ a.k = "menu" /\ UNCHANGED <<conf, state, visible, quit>>
     \/ a.k = "exit" /\ quit' = TRUE /\ UNCHANGED <<conf, state, visible>>

ApplyAction(a) == (IF a.k \in {"set", "reset", "mute", "setMute", "adjust"} THEN Sound(a) ELSE Silent(a))
                  /\ UNCHANGED <<retries, published>>

\* hotkey_to_action
KeyAction(key) ==
  CASE key = "Up" -> Act("adjust", Step)
    [] key = "Down" -> Act("adjust", -Step)
    [] key = "Mute" -> Act("mute", None)
    [] key = "Reset" -> Act("reset", None)
    [] key = "Mixer" -> Act("toggle", "Mixer")
    [] key = "Menu" -> Act("menu", None)

(***************************************************************************)
(* The polls.                                                              *)
(***************************************************************************)
Idle == stage = "wait" /\ ~ended
Outside == <<system, up, alive, inputs>>

\* macOS starts every round with the listener: one that stopped ends the program.
StartDrain ==
  /\ Idle /\ stage' = "keys"
  /\ quit' = (quit \/ (~Linux /\ ~alive))
  /\ UNCHANGED <<Outside, dev, host, conf, work, ended, unseen>>

WriteStep ==
  /\ target # None
  /\ Mutate([dev EXCEPT !.level = target]) /\ target' = None
  /\ UNCHANGED <<Outside, retries, visible, published, conf, keys, acts, stage, quit, ended, unseen>>

DrainKey ==
  /\ stage = "keys" /\ target = None /\ keys # <<>>
  /\ ApplyAction(KeyAction(Head(keys))) /\ keys' = Tail(keys)
  /\ UNCHANGED <<Outside, acts, stage, ended, unseen>>

KeysDrained ==
  /\ stage = "keys" /\ target = None /\ keys = <<>>
  /\ stage' = "acts"
  /\ degraded' = IF Linux /\ bound # None /\ ~alive THEN degraded \cup {"keys"} ELSE degraded
  /\ UNCHANGED <<Outside, dev, audio, retries, state, visible, published, conf, work, quit,
                 ended, unseen>>

DrainAct ==
  /\ stage = "acts" /\ target = None /\ acts # <<>>
  /\ ApplyAction(Head(acts)) /\ acts' = Tail(acts)
  /\ UNCHANGED <<Outside, keys, stage, ended, unseen>>

\* The Linux fast poll ends here, and the loop with it when Exit was drained.
ActsDrained ==
  /\ stage = "acts" /\ target = None /\ acts = <<>>
  /\ IF Linux THEN stage' = "wait" /\ ended' = quit ELSE stage' = "reload" /\ UNCHANGED ended
  /\ UNCHANGED <<Outside, dev, host, conf, work, quit, unseen>>

\* The slow poll of Linux.
StartSlow ==
  /\ Linux /\ Idle /\ stage' = "reload"
  /\ UNCHANGED <<Outside, dev, host, conf, work, quit, ended, unseen>>

ReloadConfig ==
  /\ stage = "reload" /\ stage' = IF Linux THEN "retry" ELSE "refresh"
  /\ ReloadIfChanged
  /\ UNCHANGED <<Outside, dev, audio, retries, degraded, visible, published, work, quit, ended,
                 unseen>>

\* set_audio_backend reads the new device at once.
RetryAudio ==
  /\ stage = "retry" /\ stage' = "refresh"
  /\ IF audio \/ retries = MaxRetries
     THEN UNCHANGED <<audio, retries, state, degraded, unseen>>
     ELSE \/ /\ up /\ audio' = TRUE /\ retries' = 0
             /\ state' = Confirmed /\ degraded' = degraded \ {"audio"} /\ unseen' = FALSE
          \/ /\ ~up /\ retries' = retries + 1
             /\ degraded' = degraded \cup {"audio"} /\ UNCHANGED <<audio, state, unseen>>
  /\ UNCHANGED <<Outside, dev, visible, published, conf, work, quit, ended>>

\* Mutant of Refresh: only a read that changes something is published.
RefreshOnChange ==
  /\ stage = "refresh" /\ stage' = "wait"
  /\ Refreshed /\ published' = (IF state' = state THEN published ELSE state') /\ ended' = quit
  /\ UNCHANGED <<Outside, dev, retries, visible, conf, work, quit>>
\* The round ends: the device is read, the surfaces are told.
Refresh ==
  /\ stage = "refresh" /\ stage' = "wait"
  /\ Refreshed /\ published' = state' /\ ended' = quit
  /\ UNCHANGED <<Outside, dev, retries, visible, conf, work, quit>>

Round == WriteStep \/ DrainKey \/ KeysDrained \/ DrainAct \/ ActsDrained
         \/ ReloadConfig \/ RetryAudio \/ Refresh

(***************************************************************************)
(* The outside.                                                            *)
(***************************************************************************)
CanAct == ~ended /\ inputs < MaxInputs /\ inputs' = inputs + 1

Press == /\ CanAct /\ alive /\ \E key \in Keys : keys' = Append(keys, key)
         /\ UNCHANGED <<system, dev, up, host, conf, acts, target, stage, alive, quit, ended, unseen>>
Gesture == /\ CanAct /\ \E a \in Acts : acts' = Append(acts, a)
           /\ UNCHANGED <<system, dev, up, host, conf, keys, target, stage, alive, quit, ended, unseen>>
ListenerStops == /\ CanAct /\ alive /\ alive' = FALSE
                 /\ UNCHANGED <<system, dev, up, host, conf, work, stage, quit, ended, unseen>>
OthersChange == /\ CanAct /\ dev' \in [level : {0, Top}, muted : BOOLEAN] \ {dev} /\ unseen' = TRUE
          /\ UNCHANGED <<system, up, host, conf, work, stage, alive, quit, ended>>
ServerTurns == /\ CanAct /\ up' = ~up
               /\ UNCHANGED <<system, dev, host, conf, work, stage, alive, quit, ended, unseen>>
EditFile == /\ CanAct /\ file' \in Files \ {file} /\ dated' = FALSE
            /\ UNCHANGED <<system, dev, up, host, config, bound, asked, work, stage, alive, quit,
                           ended, unseen>>

UnixNext == StartDrain \/ StartSlow \/ Round
        \/ Press \/ Gesture \/ ListenerStops \/ OthersChange \/ ServerTurns \/ EditFile

\* The thread goes on.  GLib dispatches every source that is due in each iteration, so
\* neither callback keeps the other one away.
UnixSpec ==
  /\ UnixInit /\ [][UnixNext]_unixVars
  /\ WF_unixVars(Round) /\ SF_unixVars(StartDrain) /\ SF_unixVars(StartSlow)

-----------------------------------------------------------------------------
UnixTypeOK ==
  /\ system \in Systems /\ dev \in [level : 0..Top, muted : BOOLEAN] /\ up \in BOOLEAN
  /\ audio \in BOOLEAN /\ retries \in 0..MaxRetries
  /\ state \in [level : 0..Top, muted : BOOLEAN, status : {"Ready", "Syncing", "Error"}, look : Looks]
  /\ published \in [level : 0..Top, muted : BOOLEAN, status : {"Ready", "Syncing", "Error"}, look : Looks]
  /\ degraded \subseteq {"audio", "start", "keys"} /\ visible \subseteq Surfaces
  /\ config \in Configs /\ bound \in Modifiers \cup {None} /\ file \in Files /\ dated \in BOOLEAN
  /\ asked \in BOOLEAN /\ keys \in Seq(Keys) /\ acts \in Seq(Acts)
  /\ stage \in {"wait", "keys", "acts", "reload", "retry", "refresh"} /\ target \in 0..Top \cup {None}
  /\ alive \in BOOLEAN /\ quit \in BOOLEAN /\ ended \in BOOLEAN
  /\ inputs \in 0..MaxInputs /\ unseen \in BOOLEAN

\* Between polls, a state called ready is the device's, unless another program has
\* changed the device since it was read; and then no sound failure is reported.
ReadyStateIsTheDevices ==
  stage = "wait" /\ state.status = "Ready" =>
    /\ ~unseen => state.level = dev.level /\ state.muted = dev.muted
    /\ "audio" \notin degraded

\* Whatever order shortcuts, gestures and edits come in, Linux shows one of its menu
\* surfaces at most, and a listener has the modifier of the running configuration.
MenusAndKeysAgree ==
  /\ Linux => Cardinality(visible \cap Menus) <= 1
  /\ bound # None => bound = config.modifier

\* What the shell shows and listens to agrees with the host's state.
ReadyIsConfirmed == ReadyStateIsTheDevices /\ MenusAndKeysAgree

\* When the outside comes to rest, the surfaces end up with the device's state while
\* the sound server answers, unless HostCore has used up its retries; and an exit, or
\* on macOS a listener that stopped, ends the program.
GaveUp == ~audio /\ retries = MaxRetries
Settled == /\ published.level = dev.level /\ published.muted = dev.muted
           /\ published.status = "Ready" /\ published.look = config.look
SurfacesCatchUp ==
  /\ <>[](ended \/ ~up \/ GaveUp \/ Settled)
  /\ (quit \/ (~Linux /\ ~alive)) ~> ended
=============================================================================
