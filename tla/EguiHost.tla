------------------------------ MODULE EguiHost ------------------------------
(***************************************************************************)
(* One frame after another of the egui host (volumecontrol-egui, app.rs):   *)
(* the queue the core publishes into, the surfaces and the modal rule, the  *)
(* root window that is parked and never hidden, the optimistic copy of the  *)
(* volume, the popup of the tray, second launches and the way out.          *)
(*                                                                         *)
(* The core lives on the thread of the frames, so the queue only fills      *)
(* while a frame runs.  The channels of the shortcuts and of the tray, the  *)
(* ShowMixer event, the focus and the endpoint change at any time: every    *)
(* phase of a frame that reads one of them is a step of its own.            *)
(***************************************************************************)
EXTENDS Integers, Sequences

CONSTANTS
    MaxInputs,  \* bound: what the user and other programs do in a behaviour
    MaxFaults   \* bound: sound actions that fail

ASSUME BoundsAssumption == MaxInputs \in Nat /\ MaxFaults \in Nat

VARIABLES
    pc,      \* the phase the frame comes to next, idle between frames
    ui,      \* the surfaces shown, root_shown, the HUD's deadline, the volume shown
    queue,   \* the events the sink has queued
    root,    \* root_visible_last, mixer_seen_focus, the pending close
    popup,   \* the tray's menu: tray_open, tray_menu_seen_focus
    focus,   \* the window the user types into
    device,  \* the endpoint's volume
    cache,   \* AppCore.last_state
    keys,    \* the shortcuts' channel
    clicks,  \* the tray's channel
    wake,    \* the ShowMixer event
    exit,    \* quitting, and the process is gone
    inputs, faults,
    demo,    \* history: the HUD is up since the launch, without a payload
    lost,    \* history: the core moved on without an event, or gave no answer
    parkedClose \* history: a close request reached the parked root

sound == <<device, cache, faults, lost>>
world == <<focus, keys, clicks, wake, inputs>>
hist == <<demo, parkedClose>>
vars == <<pc, ui, queue, root, popup, exit, sound, world, hist>>

Modals == {"mixer", "settings", "help"}
Surfaces == Modals \cup {"overlay"}
Levels == {0, 1}  \* of the volume; 0 stands for muted as well
Event(kind, arg) == [kind |-> kind, arg |-> arg]

-----------------------------------------------------------------------------
(* The surfaces, as functions of ui. *)

Hide(u, s) == [u EXCEPT !.vis = @ \ {s}]

StackedAnyway(u, s) == [u EXCEPT !.vis = @ \cup {s}, !.root = @ \/ s = "mixer"]
\* show_surface_exclusive: the mixer that gives way is parked.
Exclusive(u, s) ==
    [u EXCEPT !.vis = (@ \ Modals) \cup {s}, !.root = s = "mixer"]

\* The HUD is up for the configured time.
Hud(u, v) == [u EXCEPT !.vis = @ \cup {"overlay"}, !.until = "armed", !.vol = v]

\* toggle shows the mixer beside whatever is open.
ToggleMixer(u) ==
    LET shown == "mixer" \notin u.vis
    IN  [u EXCEPT !.vis = IF shown THEN @ \cup {"mixer"} ELSE @ \ {"mixer"},
                  !.root = shown,
                  !.over = @ \/ (shown /\ u.vis \cap Modals # {})]

CloseSurface(u, e) == [Hide(u, e.arg) EXCEPT !.root = @ /\ e.arg # "mixer"]

VolumeIgnored(u, e) == u
\* A confirmed volume that is the one shown brings no HUD.
VolumeEvent(u, e) == IF e.arg = u.vol THEN u ELSE Hud(u, e.arg)

\* What an event does; the others do not touch this state.
Handle(u, e) ==
    CASE e.kind = "volume"  -> VolumeEvent(u, e)
      [] e.kind = "overlay" -> Hud(u, e.arg)
      [] e.kind = "open"    -> Exclusive(u, e.arg)
      [] e.kind = "close"   -> CloseSurface(u, e)
      [] e.kind = "toggle"  -> ToggleMixer(u)

Published(v) == <<Event("volume", v), Event("overlay", v)>>
Opens(s)  == <<Event("open", s)>>
Closes(s) == <<Event("close", s)>>

\* new(): the mixer, nothing (--background), or the surface --surface= names;
\* the root counts as shown until the first frame parks it.
Init ==
    /\ pc = "idle"
    /\ \E s \in Surfaces \cup {"none"} :
          /\ ui = [vis |-> {s} \ {"none"}, root |-> s = "mixer", until |-> "none",
                   vol |-> 0, over |-> FALSE]
          /\ demo = (s = "overlay")
    /\ queue = <<>>
    /\ root = [shown |-> TRUE, seen |-> FALSE, close |-> "no"]
    /\ popup = [open |-> FALSE, seen |-> FALSE]
    /\ focus = "elsewhere" /\ device = 0 /\ cache = 0
    /\ keys = <<>> /\ clicks = <<>> /\ wake = FALSE
    /\ exit = [quitting |-> FALSE, gone |-> FALSE]
    /\ inputs = 0 /\ faults = 0
    /\ lost = FALSE /\ parkedClose = FALSE

-----------------------------------------------------------------------------
(* What happens around the frames. *)

Input == ~exit.gone /\ inputs < MaxInputs /\ inputs' = inputs + 1
Outside == UNCHANGED <<pc, ui, queue, popup, exit, cache, faults, lost, hist>>

Key(k) ==
    /\ Input /\ keys' = Append(keys, k)
    /\ UNCHANGED <<root, device, focus, clicks, wake>> /\ Outside

Click(c) ==
    /\ Input /\ clicks' = Append(clicks, c)
    /\ UNCHANGED <<root, device, focus, keys, wake>> /\ Outside

Wake ==
    /\ Input /\ ~wake /\ wake' = TRUE
    /\ UNCHANGED <<root, device, focus, keys, clicks>> /\ Outside

VolumeKey ==
    /\ Input /\ device' = 1 - device
    /\ UNCHANGED <<root, focus, keys, clicks, wake>> /\ Outside

\* The window system asks the root to close, parked or not.
CloseRoot ==
    /\ Input /\ root.close = "no" /\ root' = [root EXCEPT !.close = "sent"]
    /\ UNCHANGED <<device, focus, keys, clicks, wake>> /\ Outside

Windows == (ui.vis \ {"overlay"}) \cup {"elsewhere"} \cup (IF popup.open THEN {"popup"} ELSE {})
FocusMoves ==
    /\ pc = "idle" /\ ~exit.gone /\ focus' \in Windows \ {focus}
    /\ UNCHANGED <<root, device, keys, clicks, wake, inputs>> /\ Outside

TimeUp ==
    /\ ui.until = "armed" /\ ui' = [ui EXCEPT !.until = "due"]
    /\ UNCHANGED <<pc, queue, root, popup, exit, sound, world, hist>>

-----------------------------------------------------------------------------
(* The core's sound actions, whose answers are only queued. *)

\* The write is done; refused, and the endpoint's volume published all the same;
\* or nobody answers.
Done(v) == device' = v /\ cache' = v /\ queue' = queue \o Published(v) /\ UNCHANGED <<faults, lost>>
Refused ==
    /\ faults < MaxFaults /\ faults' = faults + 1
    /\ cache' = device /\ queue' = queue \o Published(device) /\ UNCHANGED <<device, lost>>
NoAnswer ==
    /\ faults < MaxFaults /\ faults' = faults + 1 /\ lost' = TRUE
    /\ UNCHANGED <<device, cache, queue>>
Sound(v) == Done(v) \/ Refused \/ NoAnswer

Silent == UNCHANGED <<sound, queue>>
Publish(s) == queue' = queue \o s /\ UNCHANGED sound

-----------------------------------------------------------------------------
(* The phases of a frame. *)

At(p, next) == pc = p /\ pc' = next

\* The frame has in its input what the window system asked for so far.
BeginFrame ==
    /\ At("idle", "drain") /\ ~exit.gone
    /\ root' = [root EXCEPT !.close = IF @ = "sent" THEN "now" ELSE @]
    /\ UNCHANGED <<ui, queue, popup, exit, sound, world, hist>>

\* drain_events: one event after the other until the queue is empty.
DrainEvent ==
    /\ pc = "drain" /\ queue # <<>> /\ queue' = Tail(queue)
    /\ ui' = Handle(ui, Head(queue))
    /\ demo' = (demo /\ Head(queue).kind # "overlay")
    /\ UNCHANGED <<pc, root, popup, exit, sound, world, parkedClose>>

Drained ==
    /\ At("drain", "keys") /\ queue = <<>>
    /\ UNCHANGED <<ui, queue, root, popup, exit, sound, world, hist>>

\* poll_hotkeys, every 150 ms.  The core routes the mixer's shortcut to a toggle;
\* the menu's asks for a tray menu, which the queue's reader does not know.
PollKeys ==
    /\ pc = "keys" /\ keys # <<>> /\ keys' = Tail(keys)
    /\ \/ Head(keys) = "mixer" /\ Publish(<<Event("toggle", "mixer")>>)
       \/ Head(keys) = "volume" /\ \E v \in Levels : Sound(v)
       \/ Head(keys) = "menu" /\ Silent
    /\ UNCHANGED <<pc, ui, root, popup, exit, focus, clicks, wake, inputs, hist>>

\* The keys are drained, or their poll is not due.
KeysPolled ==
    /\ pc = "keys" /\ (\/ keys = <<>> /\ pc' = "sync"
                       \/ pc' = "wheel")
    /\ UNCHANGED <<ui, queue, root, popup, exit, sound, world, hist>>

\* sync_external_state, once a second and only while the volume is on screen.
Watched == ui.vis \cap {"mixer", "overlay"} # {}
SyncVolume ==
    /\ At("sync", "reload")
    /\ \/ /\ Watched /\ device # cache /\ cache' = device
          /\ queue' = Append(queue, Event("volume", device)) /\ UNCHANGED <<device, faults, lost>>
       \/ Silent
    /\ UNCHANGED <<ui, root, popup, exit, world, hist>>

\* The file has changed: the core publishes and bootstraps again.
Reload ==
    /\ pc = "reload"
    /\ \/ /\ pc' = "boot" /\ Input /\ cache' = device
          /\ queue' = queue \o Published(device) /\ UNCHANGED <<device, faults, lost>>
       \/ pc' = "wheel" /\ Silent /\ UNCHANGED inputs
    /\ UNCHANGED <<ui, root, popup, exit, focus, keys, clicks, wake, hist>>

\* bootstrap reads the endpoint into the cache and tells nobody but its caller,
\* who takes the configuration only.
Bootstrap ==
    /\ At("boot", "wheel")
    /\ cache' = device /\ lost' = (lost \/ cache # device)
    /\ UNCHANGED <<device, faults, queue, ui, root, popup, exit, world, hist>>

Wheel ==
    /\ At("wheel", "launch")
    /\ \/ Input /\ \E v \in Levels : Sound(v)
       \/ Silent /\ UNCHANGED inputs
    /\ UNCHANGED <<ui, root, popup, exit, focus, keys, clicks, wake, hist>>

PollLaunch ==
    /\ At("launch", "tray") /\ wake' = FALSE
    /\ ui' = IF wake THEN Exclusive(ui, "mixer") ELSE ui
    /\ UNCHANGED <<queue, root, popup, exit, sound, focus, keys, clicks, inputs, hist>>

QuitKeepsRoot == exit' = [exit EXCEPT !.quitting = TRUE] /\ UNCHANGED root
\* Exit hides the children and asks the root to close.
Quit == exit' = [exit EXCEPT !.quitting = TRUE] /\ root' = [root EXCEPT !.close = "sent"]

\* handle_tray_action; u is what the surfaces are once the menu is gone.
TrayAction(a, u) ==
    \/ /\ a = "mute" /\ ui' = [u EXCEPT !.vol = 1 - @] /\ Sound(1 - device) /\ UNCHANGED <<root, exit>>
    \/ /\ a = "reset" /\ ui' = u /\ Sound(1) /\ UNCHANGED <<root, exit>>
    \/ /\ a = "mixer" /\ ui' = Exclusive(u, "mixer") /\ Silent /\ UNCHANGED <<root, exit>>
    \/ /\ a \in {"settings", "help"} /\ ui' = u /\ Publish(Opens(a)) /\ UNCHANGED <<root, exit>>
    \/ /\ a = "exit" /\ ui' = [u EXCEPT !.vis = @ \cap {"mixer"}] /\ Silent /\ Quit

\* The icon: a left click shows the mixer, a right click opens the menu.
PollTray ==
    /\ pc = "tray" /\ clicks # <<>> /\ clicks' = Tail(clicks)
    /\ \/ Head(clicks) = "left" /\ TrayAction("mixer", ui) /\ UNCHANGED popup
       \/ /\ Head(clicks) = "right"
          /\ popup' = IF popup.open THEN popup ELSE [open |-> TRUE, seen |-> FALSE]
          /\ UNCHANGED <<ui, root, exit>> /\ Silent
    /\ UNCHANGED <<pc, focus, keys, wake, inputs, hist>>

TrayPolled ==
    /\ At("tray", "root") /\ clicks = <<>>
    /\ UNCHANGED <<ui, queue, root, popup, exit, sound, world, hist>>

Expire(u) == IF u.until = "due" THEN [Hide(u, "overlay") EXCEPT !.until = "none"] ELSE u

\* sync_root_visibility and the HUD's deadline.  A root that comes back asks for
\* the focus and may not get it; a parked one keeps it.
SyncRoot ==
    /\ At("root", "mixer")
    /\ root' = [root EXCEPT !.shown = ui.root]
    /\ focus' \in {focus} \cup (IF ui.root /\ ~root.shown THEN {"mixer"} ELSE {})
    /\ ui' = Expire(ui)
    /\ UNCHANGED <<queue, popup, exit, sound, keys, clicks, wake, inputs, hist>>

\* A close of the root is cancelled, unless the program is quitting.
Cancels(r) == r.close = "now" /\ ~exit.quitting

\* The view's intents, then what the focus asks for.  Escape hides the surface and
\* leaves root_shown to the event it queues; the button does both.
MixerGesture(g) ==
    \/ g = "none" /\ ui' = ui /\ Silent
    \/ g = "escape" /\ ui' = Hide(ui, "mixer") /\ Publish(Closes("mixer"))
    \/ g = "hide" /\ ui' = [Hide(ui, "mixer") EXCEPT !.root = FALSE] /\ Publish(Closes("mixer"))
    \/ g \in {"settings", "help"} /\ ui' = ui /\ Publish(Opens(g))
    \/ g = "volume" /\ \E v \in Levels : ui' = [ui EXCEPT !.vol = v] /\ Sound(v)
    \/ g = "mute" /\ ui' = [ui EXCEPT !.vol = 1 - @] /\ Sound(1 - device)
Gestures == {"escape", "hide", "settings", "help", "volume", "mute"}
Gesture(g) == IF g = "none" THEN UNCHANGED inputs ELSE Input

\* A close request for the shown root.
CloseMixer ==
    /\ At("mixer", "children") /\ ui.root /\ root.close = "now"
    /\ ui' = IF Cancels(root) THEN [Hide(ui, "mixer") EXCEPT !.root = FALSE] ELSE Hide(ui, "mixer")
    /\ root' = [root EXCEPT !.close = IF Cancels(root) THEN "no" ELSE @,
                            !.seen = @ \/ focus = "mixer"]
    /\ UNCHANGED <<queue, popup, exit, sound, world, hist>>

\* mixer_should_close: the focus is gone, and was there once.
Forsaken == root.seen /\ focus # "mixer" /\ ~exit.quitting

ShowMixer ==
    /\ At("mixer", "children") /\ ui.root /\ root.close # "now" /\ ~Forsaken
    /\ \E g \in Gestures \cup {"none"} :
          MixerGesture(g) /\ Gesture(g)
    /\ root' = [root EXCEPT !.seen = @ \/ focus = "mixer"]
    /\ UNCHANGED <<popup, exit, focus, keys, clicks, wake, hist>>

ForsakeMixer ==
    /\ At("mixer", "children") /\ ui.root /\ root.close # "now" /\ Forsaken
    /\ ui' = [Hide(ui, "mixer") EXCEPT !.root = FALSE]
    /\ UNCHANGED <<queue, root, popup, exit, sound, world, hist>>

ParkedRoot ==
    /\ At("mixer", "children") /\ ~ui.root
    /\ root' = [root EXCEPT !.seen = FALSE]
    /\ parkedClose' = (parkedClose \/ (root.close = "now" /\ ~exit.quitting))
    /\ UNCHANGED <<ui, queue, popup, exit, sound, world, demo>>

\* Settings and help: Escape, the frame's close button, Cancel (which reloads the
\* file and publishes), help's link to the settings.
ChildGesture(s, g) ==
    \/ g = "escape" /\ ui' = Hide(ui, s) /\ Publish(Closes(s))
    \/ g = "close" /\ ui' = Hide(ui, s) /\ Silent
    \/ /\ g = "cancel" /\ s = "settings" /\ ui' = Hide(ui, s)
       /\ cache' = device /\ queue' = queue \o Published(device) /\ UNCHANGED <<device, faults, lost>>
    \/ g = "settings" /\ s = "help" /\ ui' = ui /\ Publish(Opens("settings"))

ShowChildren ==
    /\ At("children", "popup")
    /\ \/ \E s \in ui.vis \cap {"settings", "help"}, g \in {"escape", "close", "cancel", "settings"} :
             Input /\ ChildGesture(s, g)
       \/ UNCHANGED <<ui, inputs>> /\ Silent
    /\ UNCHANGED <<root, popup, exit, focus, keys, clicks, wake, hist>>

\* The popup goes with Escape, a choice, or the focus it has had.
PopupStays == [popup EXCEPT !.seen = @ \/ focus = "popup"]
PopupGone == [open |-> FALSE, seen |-> FALSE]
ShowPopup ==
    /\ At("popup", "hud")
    /\ \/ /\ ~popup.open \/ (popup.seen => focus = "popup")
          /\ popup' = IF popup.open THEN PopupStays ELSE popup
          /\ UNCHANGED <<ui, root, exit, inputs>> /\ Silent
       \/ /\ popup.open /\ popup.seen /\ focus # "popup"
          /\ popup' = PopupGone /\ UNCHANGED <<ui, root, exit, inputs>> /\ Silent
       \/ /\ popup.open /\ Input /\ popup' = PopupGone
          /\ \/ UNCHANGED <<ui, root, exit>> /\ Silent
             \/ \E a \in {"mute", "reset", "mixer", "settings", "help", "exit"} : TrayAction(a, ui)
    /\ UNCHANGED <<focus, keys, clicks, wake, hist>>

\* Escape in the HUD: the core answers nothing for that surface.
ShowHud ==
    /\ At("hud", "end")
    /\ \/ "overlay" \in ui.vis /\ Input /\ ui' = Hide(ui, "overlay")
       \/ UNCHANGED <<ui, inputs>>
    /\ UNCHANGED <<queue, root, popup, exit, sound, focus, keys, clicks, wake, hist>>

\* A close request for the root nobody has cancelled ends the program.
EndFrame ==
    /\ At("end", "idle")
    /\ exit' = [exit EXCEPT !.gone = root.close = "now"]
    /\ UNCHANGED <<ui, queue, root, popup, sound, world, hist>>

FramePhase ==
    \/ BeginFrame \/ DrainEvent \/ Drained \/ PollKeys \/ KeysPolled \/ SyncVolume \/ Reload \/ Bootstrap \/ Wheel
    \/ PollLaunch \/ PollTray \/ TrayPolled \/ SyncRoot
    \/ CloseMixer \/ ShowMixer \/ ForsakeMixer \/ ParkedRoot
    \/ ShowChildren \/ ShowPopup \/ ShowHud \/ EndFrame

Next ==
    \/ \E k \in {"mixer", "volume", "menu"} : Key(k)
    \/ \E c \in {"left", "right"} : Click(c)
    \/ Wake \/ VolumeKey \/ CloseRoot \/ FocusMoves \/ TimeUp
    \/ FramePhase

Spec == Init /\ [][Next]_vars

\* The heartbeat of 150 ms keeps the frames coming, and time passes.
FairSpec == Spec /\ WF_vars(FramePhase) /\ WF_vars(TimeUp)

-----------------------------------------------------------------------------

TypeOK ==
    /\ pc \in {"idle", "drain", "keys", "sync", "reload", "boot", "wheel", "launch", "tray", "root",
               "mixer", "children", "popup", "hud", "end"}
    /\ ui \in [vis : SUBSET Surfaces, root : BOOLEAN, until : {"none", "armed", "due"},
               vol : Levels, over : BOOLEAN]
    /\ \A i \in 1..Len(queue) : queue[i].kind \in {"volume", "overlay", "open", "close", "toggle"}
    /\ root \in [shown : BOOLEAN, seen : BOOLEAN, close : {"no", "sent", "now"}]
    /\ popup \in [open : BOOLEAN, seen : BOOLEAN]
    /\ focus \in Modals \cup {"elsewhere", "popup"}
    /\ device \in Levels /\ cache \in Levels
    /\ exit \in [quitting : BOOLEAN, gone : BOOLEAN]
    /\ inputs \in 0..MaxInputs /\ faults \in 0..MaxFaults

\* Between frames the mixer is listed as visible only while the root is on screen,
\* and a root on screen without the mixer has the event that parks it in the queue
\* (Escape hides the one and leaves the other to the event, app.rs:850).
RootFollowsMixer ==
    pc = "idle" /\ ~exit.quitting =>
        /\ "mixer" \in ui.vis => ui.root
        /\ ui.root /\ "mixer" \notin ui.vis =>
              \E i \in 1..Len(queue) : queue[i] = Event("close", "mixer")

\* Two modal surfaces are on screen together only after the mixer's shortcut has put
\* the mixer beside an open one: every other way goes through the exclusive switch
\* (app.rs:405), also with both kinds of opening in one queue.
StacksOnlyByToggle ==
    ui.over \/ \A a, b \in ui.vis \cap Modals : a = b

\* With no event pending the volume shown is the one the core holds, whatever was
\* shown in advance, in what order answers came and who else moved the endpoint; the
\* exceptions are an action nobody answered and a silent refresh of the cache.
MirrorFollowsCore ==
    pc = "idle" /\ queue = <<>> /\ ~lost => ui.vol = cache

\* What is on screen and what the host believes is on screen agree.
SurfacesAgree == RootFollowsMixer /\ StacksOnlyByToggle

\* The HUD does not stay: every way it comes up leaves a deadline behind, also when
\* Escape hid an earlier one and its deadline is still running.  A HUD asked for on
\* the command line has none and waits for the first payload.
HudGoes == "overlay" \in ui.vis /\ ~demo ~> "overlay" \notin ui.vis \/ exit.gone

\* Only Exit ends the program: a close of the mixer is cancelled and hides it
\* (app.rs:860).  The exception is a request that reaches the root while it is
\* parked, where nothing answers it.
OnlyExitEnds == exit.gone => exit.quitting \/ parkedClose

\* Exit ends the program, also from the popup of a frame that has just cancelled
\* another close.
QuitEnds == exit.quitting ~> exit.gone

\* The HUD ends by itself; Exit, and nothing else, ends the program.
EndsComeAbout == HudGoes /\ []OnlyExitEnds /\ QuitEnds
=============================================================================
