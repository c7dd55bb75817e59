------------------------------ MODULE LegacyHost ------------------------------
(***************************************************************************)
(* The native Windows program (app.rs) with its mixer, overlay, help card, *)
(* tray and wheel hook.  One thread owns everything and sleeps in          *)
(* GetMessage.  It is woken by messages posted to its hidden window (the   *)
(* wheel hook, the mixer's and the help card's controls), by a 15 ms timer *)
(* that drains the shortcut channel, by a 150 ms timer that reloads the    *)
(* configuration, drains the tray's commands and publishes the device's    *)
(* state, and by the overlay's hide timer.  Windows hands out posted       *)
(* messages before timers.  A tray menu popped up by a shortcut pumps      *)
(* messages inside its handler, so while it is up the thread counts as     *)
(* idle; the drain it interrupts goes on with the next tick.               *)
(*                                                                         *)
(* Every sound action publishes: it reads the device back into the cache   *)
(* and pushes that to the tray, the open mixer and the overlay.  A failed  *)
(* read pushes nothing.  The settings window is LegacySettings; here it is *)
(* open or not, and where.                                                 *)
(***************************************************************************)
EXTENDS Sequences, SurfaceLayout

CONSTANTS
  Top, Half,     \* the loudest level, and the level Reset sets
  Steps, Large,  \* the small steps a configuration may ask for; the large one
  Screens,       \* work areas with a scale: [x, y, w, h, scale]
  None,          \* no value
  MaxInputs,     \* bound: what users, other programs and the display do
  MaxFaults      \* bound: audio calls that fail

ASSUME HostAssumption == /\ Top \in Nat /\ Half \in 1..Top /\ Large \in 1..Top
                         /\ Steps \subseteq 1..Top
                         /\ MaxInputs \in Nat /\ MaxFaults \in Nat

VARIABLES dev,       \* the device: level and mute
          cache,     \* last_state, what the host last read
          tray,      \* what the tray's menu shows
          mixer,     \* the flyout: open, thumb, rail, where it is, the scale of its controls
          hud,       \* the overlay: what it shows, and where
          help,      \* the card: open, where, the scale of its controls, the scale it takes them to have
          settings,  \* the settings window: open, where
          keys, posts, cmds,  \* the shortcut channel, the posted messages, the menu channel
          pc,        \* "idle", or inside a drain: "keys", "tray"
          show,      \* this poll reloaded, so its publish shows the overlay
          menu,      \* the tray menu is up
          blocked,   \* a blacklisted program has the focus
          step, file, edited,  \* the running step, the file's, the file is newer
          screen, quit, inputs, faults,
          unseen     \* why the cache may not be the device (history)

sound == <<dev, cache, tray>>
windows == <<mixer, hud, help, settings>>
queues == <<keys, posts, cmds>>
conf == <<step, file, edited>>
world == <<blocked, screen, inputs>>
vars == <<sound, windows, queues, pc, show, menu, conf, world, quit, faults, unseen>>

Levels == 0..Top
States == [level : Levels, muted : BOOLEAN]
Wheels == {"Up", "Down", "UpLarge", "DownLarge"}
ASSUME AbsentAssumption == None \notin Wheels
Keys == Wheels \cup {"Mute", "Reset", "Mixer", "Menu"}
Commands == {"mute", "reset", "mixer", "help", "settings", "edit", "reload", "updates", "exit"}
Posts == [k : {"wheel"}, act : Wheels, n : {0}] \cup [k : {"change"}, act : {None}, n : Levels]
         \cup [k : {"mute", "reset", "edit", "settings"}, act : {None}, n : {0}]
Post(k) == [k |-> k, act |-> None, n |-> 0]

Init ==
  /\ dev \in [level : {0, Half}, muted : {FALSE}]
  /\ \E read \in {dev, [level |-> Half, muted |-> FALSE]} :
       cache = read /\ unseen = IF read = dev THEN {} ELSE {"missed"}
  /\ tray = None
  /\ screen \in Screens
  /\ mixer = [open |-> FALSE, thumb |-> Half, rail |-> [level |-> 0, muted |-> FALSE], at |-> screen, q |-> 4]
  /\ hud = [kind |-> "hidden", at |-> screen]
  /\ help = [open |-> FALSE, at |-> screen, q |-> 4, dpi |-> screen.scale]
  /\ settings = [open |-> FALSE, at |-> screen]
  /\ keys = <<>> /\ posts = <<>> /\ cmds = <<>> /\ pc = "idle" /\ show = FALSE
  /\ menu = FALSE /\ blocked = FALSE
  /\ step \in Steps /\ file = step /\ edited = FALSE
  /\ quit = "no" /\ inputs = 0 /\ faults = 0

(***************************************************************************)
(* The device (audio_windows.rs): what a call may leave behind, with the   *)
(* failures it takes.                                                      *)
(***************************************************************************)
Clamped(l) == IF l < 0 THEN 0 ELSE IF l > Top THEN Top ELSE l
Stepped(l, d) == Clamped(l + d)

SetVolume(v) == {[dev |-> dev, cost |-> 1],
                 [dev |-> [dev EXCEPT !.level = v], cost |-> IF v > 0 /\ dev.muted THEN 1 ELSE 0],
                 [dev |-> [level |-> v, muted |-> dev.muted /\ v = 0], cost |-> 0]}
ToggleMute == {[dev |-> dev, cost |-> 1], [dev |-> [dev EXCEPT !.muted = ~@], cost |-> 0]}

(***************************************************************************)
(* The surfaces.                                                           *)
(***************************************************************************)
SyncedThumb(m, d) == [m EXCEPT !.thumb = d.level]
Synced(m, d) == [m EXCEPT !.thumb = d.level, !.rail = d]
ShownUnscaled(m) == [m EXCEPT !.open = TRUE, !.at = screen]
Shown(m) == [m EXCEPT !.open = TRUE, !.at = screen, !.q = screen.scale]
Closed(m) == [m EXCEPT !.open = FALSE]
Overlay(kind) == [kind |-> kind, at |-> screen]

\* publish_confirmed_state: a failed read pushes nothing.  cost: failures of the action before it.
PushedNoCache(d, m, showing) == /\ cache' = cache /\ tray' = d /\ unseen' = {}
                                /\ mixer' = IF m.open THEN Synced(m, d) ELSE m
                                /\ hud' = IF showing THEN Overlay("volume") ELSE hud
Pushed(d, m, showing) == /\ cache' = d /\ tray' = d /\ unseen' = {}
                         /\ mixer' = IF m.open THEN Synced(m, d) ELSE m
                         /\ hud' = IF showing THEN Overlay("volume") ELSE hud
NotPushed(m) == /\ mixer' = m /\ unseen' = unseen \cup {"missed"}
                /\ UNCHANGED <<cache, tray, hud>>
Publish(d, m, showing, cost) ==
  \/ faults + cost <= MaxFaults /\ faults' = faults + cost /\ Pushed(d, m, showing)
  \/ faults + cost < MaxFaults /\ faults' = faults + cost + 1 /\ NotPushed(m)

(***************************************************************************)
(* handle_action, and what each source of actions asks of it.              *)
(***************************************************************************)
Sound(outcomes) ==
  /\ \E o \in outcomes : dev' = o.dev /\ Publish(o.dev, mixer, TRUE, o.cost)
  /\ UNCHANGED <<help, settings, menu, conf, quit>>

\* A mixer about to show is synced first, when the device can be read.
ToggleMixer ==
  /\ \/ mixer.open /\ Publish(dev, Closed(mixer), FALSE, 0)
     \/ ~mixer.open /\ Publish(dev, Shown(Synced(mixer, dev)), FALSE, 0)
     \/ ~mixer.open /\ Publish(dev, Shown(mixer), FALSE, 1)
  /\ UNCHANGED <<dev, help, settings, menu, conf, quit>>

\* The card's buttons are created unscaled and moved only when the scale is not the one it was created at.
ShowHelp == /\ help' = [open |-> TRUE, at |-> screen, dpi |-> screen.scale,
                        q |-> IF screen.scale = help.dpi THEN help.q ELSE screen.scale]
            /\ UNCHANGED <<sound, mixer, hud, settings, menu, conf, quit, faults, unseen>>
ShowSettings == /\ settings' = IF settings.open THEN settings ELSE [open |-> TRUE, at |-> screen]
                /\ UNCHANGED <<sound, mixer, hud, help, menu, conf, quit, faults, unseen>>
ToggleSettings == /\ settings' = IF settings.open THEN [settings EXCEPT !.open = FALSE]
                                 ELSE [open |-> TRUE, at |-> screen]
                  /\ UNCHANGED <<sound, mixer, hud, help, menu, conf, quit, faults, unseen>>
OpenTrayMenu == /\ menu' = TRUE
                /\ UNCHANGED <<sound, windows, conf, quit, faults, unseen>>
ToastOnly == /\ hud' = Overlay("toast")
             /\ UNCHANGED <<sound, mixer, help, settings, menu, conf, quit, faults, unseen>>
Exit == /\ quit' = "asked"
        /\ UNCHANGED <<sound, windows, menu, conf, faults, unseen>>

\* reload_config_if_changed; the tray's command forgets the file's time first, and always reloads.
Reload(due) == /\ step' = IF due THEN file ELSE step
               /\ edited' = (edited /\ ~due)
               /\ UNCHANGED file
ForcedReload == /\ Reload(TRUE)
                /\ hud' = Overlay("toast")
                /\ UNCHANGED <<sound, mixer, help, settings, menu, quit, faults, unseen>>

\* tray_command_to_action
TrayCommand(c) ==
  CASE c = "mute" -> Sound(ToggleMute)
    [] c = "reset" -> Sound(SetVolume(Half))
    [] c = "mixer" -> ToggleMixer
    [] c = "help" -> ShowHelp
    [] c = "settings" -> ToggleSettings
    [] c = "reload" -> ForcedReload
    [] c \in {"edit", "updates"} -> ToastOnly
    [] c = "exit" -> Exit

\* hotkey_to_action; a step starts from the cache.
Delta == [Up |-> step, Down |-> -step, UpLarge |-> Large, DownLarge |-> -Large]
KeyAction(a) ==
  CASE a \in Wheels -> Sound(SetVolume(Stepped(cache.level, Delta[a])))
    [] a = "Mute" -> Sound(ToggleMute)
    [] a = "Reset" -> Sound(SetVolume(Half))
    [] a = "Mixer" -> ToggleMixer
    [] a = "Menu" -> OpenTrayMenu

\* apply_hotkey: the blacklist stops what changes the volume, for keys and wheel alike.
Nothing == UNCHANGED <<sound, windows, menu, conf, quit, faults, unseen>>
ApplyHotkey(a) == IF blocked /\ a \notin {"Menu", "Mixer"} THEN Nothing ELSE KeyAction(a)

(***************************************************************************)
(* The message loop.                                                       *)
(***************************************************************************)
Awake == pc = "idle" /\ quit # "over"
TimersRun == Awake /\ posts = <<>> /\ quit = "no"

HandlePost ==
  /\ Awake /\ posts # <<>>
  /\ posts' = Tail(posts)
  /\ LET p == Head(posts) IN
       CASE p.k = "wheel" -> ApplyHotkey(p.act)
         [] p.k = "change" -> Sound(SetVolume(p.n))
         [] p.k = "mute" -> Sound(ToggleMute)
         [] p.k = "reset" -> Sound(SetVolume(Half))
         [] p.k = "edit" -> ToastOnly
         [] p.k = "settings" -> ShowSettings
  /\ UNCHANGED <<keys, cmds, pc, show, world>>

\* ID_TIMER_HOTKEY: one shortcut at a time until the channel is empty.  A popped up menu pumps messages.
DrainKeys ==
  /\ keys # <<>>
  /\ TimersRun \/ pc = "keys"
  /\ keys' = Tail(keys)
  /\ ApplyHotkey(Head(keys))
  /\ pc' = IF Tail(keys) = <<>> \/ Head(keys) = "Menu" THEN "idle" ELSE "keys"
  /\ UNCHANGED <<posts, cmds, show, world>>

\* ID_TIMER_POLL: reload, the tray's commands, publish.
PollQuietly ==
  /\ TimersRun
  /\ Reload(edited)
  /\ IF cmds = <<>>
     THEN /\ IF edited THEN Publish(dev, mixer, TRUE, 0) ELSE UNCHANGED <<cache, tray, mixer, hud, faults, unseen>>
          /\ UNCHANGED <<pc, show>>
     ELSE pc' = "tray" /\ show' = edited /\ UNCHANGED <<cache, tray, mixer, hud, faults, unseen>>
  /\ UNCHANGED <<dev, help, settings, queues, menu, quit, world>>
Poll ==
  /\ TimersRun
  /\ Reload(edited)
  /\ IF cmds = <<>>
     THEN Publish(dev, mixer, edited, 0) /\ UNCHANGED <<pc, show>>
     ELSE pc' = "tray" /\ show' = edited /\ UNCHANGED <<cache, tray, mixer, hud, faults, unseen>>
  /\ UNCHANGED <<dev, help, settings, queues, menu, quit, world>>
DrainTray ==
  /\ pc = "tray" /\ cmds # <<>>
  /\ cmds' = Tail(cmds)
  /\ TrayCommand(Head(cmds))
  /\ UNCHANGED <<keys, posts, pc, show, world>>
EndPoll ==
  /\ pc = "tray" /\ cmds = <<>>
  /\ Publish(dev, mixer, show, 0)
  /\ pc' = "idle" /\ show' = FALSE
  /\ UNCHANGED <<dev, help, settings, queues, menu, conf, quit, world>>

HideHud ==
  /\ TimersRun /\ hud.kind # "hidden"
  /\ hud' = [hud EXCEPT !.kind = "hidden"]
  /\ UNCHANGED <<sound, mixer, help, settings, queues, pc, show, menu, conf, world, quit, faults, unseen>>

\* GetMessage returns 0 once nothing is posted; the hook and the windows go with the context.
LoopEnds ==
  /\ Awake /\ posts = <<>> /\ quit = "asked"
  /\ quit' = "over" /\ menu' = FALSE
  /\ mixer' = Closed(mixer) /\ help' = [help EXCEPT !.open = FALSE]
  /\ settings' = [settings EXCEPT !.open = FALSE] /\ hud' = [hud EXCEPT !.kind = "hidden"]
  /\ UNCHANGED <<sound, queues, pc, show, conf, world, faults, unseen>>

Host == HandlePost \/ DrainKeys \/ Poll \/ DrainTray \/ EndPoll \/ HideHud \/ LoopEnds

(***************************************************************************)
(* The user and the rest of the world.                                     *)
(***************************************************************************)
Input == inputs < MaxInputs /\ quit # "over" /\ inputs' = inputs + 1
Posted(p) == posts' = Append(posts, p)
still == <<sound, pc, show, conf, quit, faults>>

Key(a) == /\ Input /\ keys' = Append(keys, a)
          /\ UNCHANGED <<still, windows, posts, cmds, menu, blocked, screen, unseen>>

\* mouse_proc runs while the thread waits for a message.
Wheel(a) == /\ Input /\ Awake /\ Posted([k |-> "wheel", act |-> a, n |-> 0])
            /\ UNCHANGED <<still, windows, keys, cmds, menu, blocked, screen, unseen>>

Drag(n) == /\ Input /\ Awake /\ mixer.open /\ n # mixer.thumb
           /\ mixer' = [mixer EXCEPT !.thumb = n]
           /\ Posted([k |-> "change", act |-> None, n |-> n])
           /\ UNCHANGED <<still, hud, help, settings, keys, cmds, menu, blocked, screen, unseen>>
MixerButton(k) == /\ Input /\ Awake /\ mixer.open /\ Posted(Post(k))
                  /\ UNCHANGED <<still, windows, keys, cmds, menu, blocked, screen, unseen>>
CloseMixer == /\ Input /\ Awake /\ mixer.open /\ mixer' = Closed(mixer)
              /\ UNCHANGED <<still, hud, help, settings, queues, menu, blocked, screen, unseen>>

\* The help card's buttons post and hide; its other ways out hide.
HelpButton(k) == /\ Input /\ Awake /\ help.open /\ help' = [help EXCEPT !.open = FALSE]
                 /\ IF k = "close" THEN posts' = posts ELSE Posted(Post(k))
                 /\ UNCHANGED <<still, mixer, hud, settings, keys, cmds, menu, blocked, screen, unseen>>
CloseSettings == /\ Input /\ Awake /\ settings.open /\ settings' = [settings EXCEPT !.open = FALSE]
                 /\ UNCHANGED <<still, mixer, hud, help, queues, menu, blocked, screen, unseen>>

\* The icon's own click pops the menu up; a choice reaches the channel, and no choice just ends it.
ClickIcon == /\ Input /\ Awake /\ ~menu /\ menu' = TRUE
             /\ UNCHANGED <<still, windows, queues, blocked, screen, unseen>>
Choose(c) == /\ Input /\ Awake /\ menu /\ menu' = FALSE /\ cmds' = Append(cmds, c)
             /\ UNCHANGED <<still, windows, keys, posts, blocked, screen, unseen>>
Dismiss == /\ Awake /\ menu /\ menu' = FALSE
           /\ UNCHANGED <<still, windows, queues, world, unseen>>

Meddle(d) == /\ Input /\ d # dev /\ dev' = d /\ unseen' = unseen \cup {"meddled"}
             /\ UNCHANGED <<cache, tray, windows, queues, pc, show, menu, conf, blocked, screen, quit, faults>>
EditFile(s) == /\ Input /\ file' = s /\ edited' = TRUE
               /\ UNCHANGED <<sound, windows, queues, pc, show, menu, step, blocked, screen, quit, faults, unseen>>
FocusMoves == /\ Input /\ blocked' = ~blocked
              /\ UNCHANGED <<still, windows, queues, menu, screen, unseen>>
ScreenChanges(s) == /\ Input /\ s # screen /\ screen' = s
                    /\ UNCHANGED <<still, windows, queues, menu, blocked, unseen>>

World ==
  \/ \E a \in Keys : Key(a)
  \/ \E a \in Wheels : Wheel(a)
  \/ \E n \in Levels : Drag(n)
  \/ \E k \in {"mute", "reset"} : MixerButton(k)
  \/ CloseMixer
  \/ \E k \in {"edit", "settings", "close"} : HelpButton(k)
  \/ CloseSettings \/ ClickIcon
  \/ \E c \in Commands : Choose(c)
  \/ Dismiss
  \/ \E d \in States : Meddle(d)
  \/ \E s \in Steps : EditFile(s)
  \/ FocusMoves
  \/ \E s \in Screens : ScreenChanges(s)

Next == Host \/ World
Fairness == /\ WF_vars(HandlePost) /\ WF_vars(DrainKeys) /\ WF_vars(Poll)
            /\ WF_vars(DrainTray) /\ WF_vars(EndPoll) /\ WF_vars(HideHud) /\ WF_vars(LoopEnds)
Spec == Init /\ [][Next]_vars /\ Fairness

(***************************************************************************)
(* Properties.                                                             *)
(***************************************************************************)
\* Every variable keeps its type.
TypeOK ==
  /\ dev \in States /\ cache \in States /\ (tray = None \/ tray \in States)
  /\ mixer \in [open : BOOLEAN, thumb : Levels, rail : States, at : Screens, q : {4} \cup {s.scale : s \in Screens}]
  /\ hud \in [kind : {"hidden", "volume", "toast"}, at : Screens]
  /\ help \in [open : BOOLEAN, at : Screens, q : {4} \cup {s.scale : s \in Screens}, dpi : {s.scale : s \in Screens}]
  /\ settings \in [open : BOOLEAN, at : Screens]
  /\ keys \in Seq(Keys) /\ posts \in Seq(Posts) /\ cmds \in Seq(Commands)
  /\ pc \in {"idle", "keys", "tray"} /\ show \in BOOLEAN /\ menu \in BOOLEAN /\ blocked \in BOOLEAN
  /\ step \in Steps /\ file \in Steps /\ edited \in BOOLEAN
  /\ screen \in Screens /\ quit \in {"no", "asked", "over"}
  /\ inputs \in 0..MaxInputs /\ faults \in 0..MaxFaults /\ unseen \subseteq {"meddled", "missed"}

\* Whatever order shortcuts, wheel notches, drags, tray commands and polls run in, the tray, the cache and
\* the open flyout show the same sound, but for a read that failed since; the thumb leaves the painted rail
\* only while the host has a drag left to handle (mixer.rs: "the rail and the trackbar never disagree").
ConfirmedEverywhere ==
  /\ tray \in {None, cache}
  /\ mixer.open /\ "missed" \notin unseen =>
       /\ mixer.rail = cache
       /\ mixer.thumb = cache.level \/ \E i \in DOMAIN posts : posts[i].k = "change"

\* A volume step moves the device its own way: it starts from the cache, which may be a poll old, so this
\* needs that nobody else touched the device and no read failed since the cache was filled.
StepsItsOwnWay ==
  [][\A a \in Wheels :
       (unseen = {} /\ ((posts # <<>> /\ posts' = Tail(posts) /\ Head(posts).act = a)
                        \/ (keys # <<>> /\ keys' = Tail(keys) /\ Head(keys) = a)))
         => IF a \in {"Up", "UpLarge"} THEN dev'.level >= dev.level ELSE dev'.level <= dev.level]_vars

\* What a user sees of an open surface: its controls lie inside its window and apart from each other at the
\* scale they were laid out for, and the flyout keeps 16 pixels above an overlay placed on the same screen
\* wherever the work area has room for both, and stays on screen where it has not.  Exception: the help card's
\* buttons while it is shown at the scale it was created at (help.q # help.dpi).
MixerFits == [p \in {4, 5, 6, 7, 8} \X Screens |-> ControlsFitIn(MixerControls, "close", p[1], MixerBox(p[2]), p[2].scale)]
HelpFits == [p \in {4, 5, 6, 7, 8} \X Screens |-> ControlsFitIn(HelpControls, "cross", p[1], HelpBox(p[2]), p[2].scale)]
SettingsFits == [s \in Screens |-> SettingsFit(s, s.scale)]
MixerClears == [s \in Screens |-> /\ MixerBox(s).t >= s.y
                                  /\ HudBox(s).t - 16 - Height(MixerBox(s)) >= s.y
                                       => HudBox(s).t - MixerBox(s).b = 16]
SurfacesFit == /\ mixer.open => MixerFits[<<mixer.q, mixer.at>>] /\ MixerClears[mixer.at]
               /\ help.open /\ help.q = help.dpi => HelpFits[<<help.q, help.at>>]
               /\ settings.open => SettingsFits[settings.at]

\* Left alone, the program comes to rest: every queue is drained, the overlay is gone, an exit has ended the
\* loop, and a running host shows the device everywhere.
AtRest == \/ quit = "over"
          \/ /\ quit = "no" /\ keys = <<>> /\ posts = <<>> /\ cmds = <<>> /\ hud.kind = "hidden"
             /\ cache = dev /\ tray = dev /\ step = file
             /\ mixer.open => mixer.rail = dev /\ mixer.thumb = dev.level
ComesToRest == <>[]AtRest
=============================================================================
