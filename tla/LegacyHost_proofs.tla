-------------------------- MODULE LegacyHost_proofs --------------------------
(***************************************************************************)
(* Theorems about the native Windows program, for any number of levels,     *)
(* steps, screens, inputs and failing audio calls.                          *)
(***************************************************************************)
EXTENDS LegacyHost, SequenceTheorems, TLAPS

Scales == {s.scale : s \in Screens}
Mixers == [open : BOOLEAN, thumb : Levels, rail : States, at : Screens, q : {4} \cup Scales]
Huds == [kind : {"hidden", "volume", "toast"}, at : Screens]
Helps == [open : BOOLEAN, at : Screens, q : {4} \cup Scales, dpi : Scales]
Frames == [open : BOOLEAN, at : Screens]

SoundTyped == dev \in States /\ cache \in States /\ (tray = None \/ tray \in States)
WindowsTyped == mixer \in Mixers /\ hud \in Huds /\ help \in Helps /\ settings \in Frames
QueuesTyped == keys \in Seq(Keys) /\ posts \in Seq(Posts) /\ cmds \in Seq(Commands)
ConfTyped == step \in Steps /\ file \in Steps /\ edited \in BOOLEAN
LoopTyped == pc \in {"idle", "keys", "tray"} /\ show \in BOOLEAN /\ menu \in BOOLEAN /\ quit \in {"no", "asked", "over"}
WorldTyped == blocked \in BOOLEAN /\ screen \in Screens /\ inputs \in 0..MaxInputs
PastTyped == faults \in 0..MaxFaults /\ unseen \subseteq {"meddled", "missed"}
Typed == SoundTyped /\ WindowsTyped /\ QueuesTyped /\ ConfTyped /\ LoopTyped /\ WorldTyped /\ PastTyped

\* What was read last is the device, unless it is noted otherwise, and the tray shows it.
Read == (unseen = {} => cache = dev) /\ tray \in {None, cache}
\* The open flyout shows what was read last, but for a thumb whose drag is still to be handled.
Rail == mixer.open /\ "missed" \notin unseen => mixer.rail = cache
Thumb == mixer.open /\ "missed" \notin unseen => mixer.thumb = cache.level \/ \E i \in DOMAIN posts : posts[i].k = "change"
LegacyInv == Typed /\ Read /\ Rail /\ Thumb

-----------------------------------------------------------------------------
(* Levels and surfaces.                                                     *)

LEMMA LevelTypes ==
    /\ Half \in Levels /\ Large \in Levels
    /\ \A l \in Levels, d \in Int : Stepped(l, d) \in Levels
    /\ \A a \in Wheels, s \in Steps : [Up |-> s, Down |-> -s, UpLarge |-> Large, DownLarge |-> -Large][a] \in Int
<1>1. Half \in Levels /\ Large \in Levels
  BY HostAssumption DEF Levels
<1>2. \A l \in Levels, d \in Int : Stepped(l, d) \in Levels
  BY HostAssumption DEF Levels, Stepped, Clamped
<1>3. Large \in Int /\ -Large \in Int /\ \A s \in Steps : s \in Int /\ -s \in Int
  BY HostAssumption
<1> QED BY <1>1, <1>2, <1>3 DEF Wheels

\* A step up never ends lower, a step down never higher.
LEMMA StepsMonotone ==
    ASSUME NEW l \in Levels, NEW d \in Int
    PROVE  (d >= 0 => Stepped(l, d) >= l) /\ (d <= 0 => Stepped(l, d) <= l)
  BY HostAssumption DEF Levels, Stepped, Clamped

LEMMA SurfaceTypes ==
    ASSUME NEW m \in Mixers, NEW d \in States, screen \in Screens
    PROVE  /\ Synced(m, d) \in Mixers /\ Shown(m) \in Mixers /\ Closed(m) \in Mixers
           /\ Synced(m, d).rail = d /\ Synced(m, d).thumb = d.level /\ Synced(m, d).open = m.open
           /\ Shown(m).open /\ ~Closed(m).open
           /\ Overlay("volume") \in Huds /\ Overlay("toast") \in Huds
<1>1. screen.scale \in Scales
  BY DEF Scales
<1>2. d.level \in Levels
  BY DEF States
<1> HIDE DEF Scales
<1> QED BY <1>1, <1>2 DEF Mixers, Synced, Shown, Closed, Overlay, Huds

-----------------------------------------------------------------------------
(* What a handler may do to the sound, the surfaces and the cache.          *)

\* The flyout after a handler: as it was, or showing what was read.
Settled ==
    mixer'.open /\ "missed" \notin unseen' => mixer'.rail = cache' /\ mixer'.thumb = cache'.level
SoundKept == /\ SoundTyped' /\ PastTyped' /\ Read' /\ mixer' \in Mixers /\ hud' \in Huds
Quiet == /\ mixer' = mixer /\ cache' = cache /\ unseen' = unseen
Handled ==
    /\ SoundKept /\ (Settled \/ Quiet)
    /\ help' \in Helps /\ settings' \in Frames /\ menu' \in BOOLEAN /\ quit' \in {"no", "asked", "over"} /\ ConfTyped'

LEMMA PublishSettles ==
    ASSUME LegacyInv, NEW d \in States, NEW m \in Mixers, NEW showing \in BOOLEAN, NEW cost \in Nat,
           Publish(d, m, showing, cost), dev' = d
    PROVE  SoundKept /\ Settled
<1> USE DEF LegacyInv, Typed
<1>0. faults \in Nat /\ MaxFaults \in Nat
  BY HostAssumption DEF PastTyped
<1>1. CASE faults + cost <= MaxFaults /\ faults' = faults + cost /\ Pushed(d, m, showing)
  <2>1. faults' \in 0..MaxFaults
    BY <1>0, <1>1
  <2>2. screen \in Screens /\ hud \in Huds
    BY DEF WorldTyped, WindowsTyped
  <2>3. mixer' \in Mixers /\ hud' \in Huds
    BY <1>1, <2>2, SurfaceTypes DEF Pushed
  <2>4. Settled
    BY <1>1, <2>2, SurfaceTypes DEF Pushed, Settled
  <2>5. SoundTyped' /\ Read' /\ unseen' = {}
    BY <1>1 DEF Pushed, SoundTyped, Read
  <2> QED BY <2>1, <2>3, <2>4, <2>5 DEF SoundKept, PastTyped
<1>2. CASE faults + cost < MaxFaults /\ faults' = faults + cost + 1 /\ NotPushed(m)
  <2>1. faults' \in 0..MaxFaults
    BY <1>0, <1>2
  <2>2. SoundTyped' /\ Read' /\ "missed" \in unseen' /\ unseen' \subseteq {"meddled", "missed"}
    BY <1>2 DEF NotPushed, SoundTyped, Read, PastTyped
  <2>3. mixer' \in Mixers /\ hud' \in Huds
    BY <1>2 DEF NotPushed, WindowsTyped
  <2> QED BY <2>1, <2>2, <2>3 DEF SoundKept, Settled, PastTyped
<1> QED BY <1>1, <1>2 DEF Publish

\* The device after a call, and what it cost.
LEMMA OutcomeTypes ==
    ASSUME dev \in States
    PROVE  /\ \A v \in Levels : \A o \in SetVolume(v) : o.dev \in States /\ o.cost \in Nat
           /\ \A o \in ToggleMute : o.dev \in States /\ o.cost \in Nat
<1>1. dev.level \in Levels /\ dev.muted \in BOOLEAN
  BY DEF States
<1>2. ASSUME NEW v \in Levels, NEW o \in SetVolume(v) PROVE o.dev \in States /\ o.cost \in Nat
  <2>1. (dev.muted /\ v = 0) \in BOOLEAN
    BY <1>1, Zenon
  <2>2. CASE o = [dev |-> dev, cost |-> 1]
    BY <2>2
  <2>3. CASE o = [dev |-> [dev EXCEPT !.level = v], cost |-> IF v > 0 /\ dev.muted THEN 1 ELSE 0]
    <3>1. [dev EXCEPT !.level = v] \in States
      BY DEF States
    <3> QED BY <2>3, <3>1
  <2>4. CASE o = [dev |-> [level |-> v, muted |-> dev.muted /\ v = 0], cost |-> 0]
    <3>1. [level |-> v, muted |-> dev.muted /\ v = 0] \in States
      BY <2>1 DEF States
    <3> QED BY <2>4, <3>1
  <2> QED BY <1>2, <2>2, <2>3, <2>4 DEF SetVolume
<1>3. \A o \in ToggleMute : o.dev \in States /\ o.cost \in Nat
  <2>1. (~dev.muted) \in BOOLEAN
    BY <1>1, Zenon
  <2>2. [dev EXCEPT !.muted = ~dev.muted] \in States
    BY <2>1 DEF States
  <2> QED BY <2>2 DEF ToggleMute
<1> QED BY <1>2, <1>3

LEMMA SoundSettles ==
    ASSUME LegacyInv, NEW outcomes, \A o \in outcomes : o.dev \in States /\ o.cost \in Nat, Sound(outcomes)
    PROVE  SoundKept /\ Settled /\ Handled
<1>1. PICK o \in outcomes : dev' = o.dev /\ Publish(o.dev, mixer, TRUE, o.cost)
  BY DEF Sound
<1>2. mixer \in Mixers /\ o.dev \in States /\ o.cost \in Nat
  BY DEF LegacyInv, Typed, WindowsTyped
<1>3. SoundKept /\ Settled
  BY <1>1, <1>2, PublishSettles
<1>4. UNCHANGED <<help, settings, menu, step, file, edited, quit>>
  BY DEF Sound, conf
<1> QED BY <1>3, <1>4 DEF Handled, LegacyInv, Typed, WindowsTyped, LoopTyped, ConfTyped

\* A handler that leaves the sound and the flyout alone.
LEMMA QuietHandled ==
    ASSUME LegacyInv, UNCHANGED <<sound, mixer, faults, unseen>>,
           hud' \in Huds, help' \in Helps, settings' \in Frames, menu' \in BOOLEAN,
           quit' \in {"no", "asked", "over"}, ConfTyped'
    PROVE  Handled
  BY DEF LegacyInv, Typed, SoundTyped, PastTyped, WindowsTyped, Read, sound, SoundKept, Quiet, Handled

LEMMA MixerHandled == ASSUME LegacyInv, ToggleMixer PROVE Handled
<1>0. mixer \in Mixers /\ dev \in States /\ screen \in Screens
  BY DEF LegacyInv, Typed, WindowsTyped, SoundTyped, WorldTyped
<1>1. dev' = dev /\ UNCHANGED <<help, settings, menu, conf, quit>>
  BY DEF ToggleMixer
<1>2. Synced(mixer, dev) \in Mixers
  BY <1>0, SurfaceTypes
<1>3. Closed(mixer) \in Mixers /\ Shown(Synced(mixer, dev)) \in Mixers /\ Shown(mixer) \in Mixers
  BY <1>0, <1>2, SurfaceTypes
<1>4. PICK m \in Mixers, cost \in Nat : Publish(dev, m, FALSE, cost)
  BY <1>3 DEF ToggleMixer
<1>5. SoundKept /\ Settled
  BY <1>0, <1>1, <1>4, PublishSettles
<1> QED BY <1>1, <1>5 DEF LegacyInv, Typed, WindowsTyped, LoopTyped, ConfTyped, conf, Handled

LEMMA WindowHandled ==
    ASSUME LegacyInv, ShowHelp \/ ShowSettings \/ ToggleSettings \/ OpenTrayMenu \/ ToastOnly \/ Exit \/ ForcedReload \/ Nothing
    PROVE  Handled
<1>0. /\ screen \in Screens /\ screen.scale \in Scales /\ mixer \in Mixers /\ hud \in Huds /\ help \in Helps /\ settings \in Frames
      /\ menu \in BOOLEAN /\ quit \in {"no", "asked", "over"} /\ ConfTyped
  BY DEF LegacyInv, Typed, WindowsTyped, LoopTyped, WorldTyped, Scales
<1>1. Overlay("toast") \in Huds
  BY <1>0 DEF Overlay, Huds
<1>2. CASE ShowHelp
  <2>1. help' = [open |-> TRUE, at |-> screen, dpi |-> screen.scale,
                 q |-> IF screen.scale = help.dpi THEN help.q ELSE screen.scale]
        /\ UNCHANGED <<sound, mixer, hud, settings, menu, conf, quit, faults, unseen>>
    BY <1>2 DEF ShowHelp
  <2>2. help' \in Helps
    BY <1>0, <2>1 DEF Helps
  <2> QED BY <1>0, <2>1, <2>2, QuietHandled DEF conf, ConfTyped
<1>3. CASE ShowSettings \/ ToggleSettings
  <2>1. /\ settings' = settings \/ settings' = [settings EXCEPT !.open = FALSE] \/ settings' = [open |-> TRUE, at |-> screen]
        /\ UNCHANGED <<sound, mixer, hud, help, menu, conf, quit, faults, unseen>>
    BY <1>3 DEF ShowSettings, ToggleSettings
  <2>2. [settings EXCEPT !.open = FALSE] \in Frames /\ [open |-> TRUE, at |-> screen] \in Frames
    BY <1>0 DEF Frames
  <2>3. settings' \in Frames
    BY <1>0, <2>1, <2>2
  <2> QED BY <1>0, <2>1, <2>3, QuietHandled DEF conf, ConfTyped
<1>4. CASE OpenTrayMenu
  BY <1>0, <1>4, QuietHandled DEF OpenTrayMenu, windows, conf, ConfTyped
<1>5. CASE ToastOnly
  BY <1>0, <1>1, <1>5, QuietHandled DEF ToastOnly, conf, ConfTyped
<1>6. CASE Exit
  BY <1>0, <1>6, QuietHandled DEF Exit, windows, conf, ConfTyped
<1>7. CASE ForcedReload
  <2>1. step' = file /\ edited' = (edited /\ ~TRUE) /\ file' = file
    BY <1>7 DEF ForcedReload, Reload
  <2>2. ConfTyped'
    BY <1>0, <2>1 DEF ConfTyped
  <2> QED BY <1>0, <1>1, <1>7, <2>2, QuietHandled DEF ForcedReload
<1>8. CASE Nothing
  BY <1>0, <1>8, QuietHandled DEF Nothing, windows, conf, ConfTyped
<1> QED BY <1>2, <1>3, <1>4, <1>5, <1>6, <1>7, <1>8

LEMMA HalfHandled == ASSUME LegacyInv, Sound(SetVolume(Half)) \/ Sound(ToggleMute) PROVE Handled
<1>1. dev \in States /\ Half \in Levels
  BY LevelTypes DEF LegacyInv, Typed, SoundTyped
<1> QED BY <1>1, OutcomeTypes, SoundSettles

LEMMA TrayHandled == ASSUME LegacyInv, NEW c \in Commands, TrayCommand(c) PROVE Handled
<1>1. \/ Sound(SetVolume(Half)) \/ Sound(ToggleMute) \/ ToggleMixer
      \/ ShowHelp \/ ToggleSettings \/ ForcedReload \/ ToastOnly \/ Exit
  BY DEF TrayCommand, Commands
<1> QED BY <1>1, HalfHandled, MixerHandled, WindowHandled

LEMMA StepTypes == ASSUME LegacyInv, NEW a \in Wheels PROVE Stepped(cache.level, Delta[a]) \in Levels /\ Delta[a] \in Int
<1>1. cache.level \in Levels /\ step \in Steps
  BY DEF LegacyInv, Typed, SoundTyped, ConfTyped, States
<1>2. Delta[a] \in Int
  BY <1>1, LevelTypes DEF Delta
<1> QED BY <1>1, <1>2, LevelTypes

LEMMA HotkeyHandled == ASSUME LegacyInv, NEW a \in Keys, ApplyHotkey(a) PROVE Handled
<1>0. dev \in States
  BY DEF LegacyInv, Typed, SoundTyped
<1>1. CASE Nothing
  BY <1>1, WindowHandled
<1>2. CASE KeyAction(a) /\ a \in Wheels
  <2>1. Sound(SetVolume(Stepped(cache.level, Delta[a])))
    BY <1>2 DEF KeyAction, Wheels
  <2>2. Stepped(cache.level, Delta[a]) \in Levels
    BY <1>2, StepTypes
  <2> QED BY <1>0, <2>1, <2>2, OutcomeTypes, SoundSettles
<1>3. CASE KeyAction(a) /\ a \notin Wheels
  <2>1. Sound(SetVolume(Half)) \/ Sound(ToggleMute) \/ ToggleMixer \/ OpenTrayMenu
    BY <1>3 DEF KeyAction, Keys
  <2> QED BY <2>1, HalfHandled, MixerHandled, WindowHandled
<1> QED BY <1>1, <1>2, <1>3 DEF ApplyHotkey

-----------------------------------------------------------------------------
(* The queues, and what a step makes of the invariant.                      *)

HasChange(q) == \E i \in DOMAIN q : q[i].k = "change"

LEMMA ChangesKeep ==
    ASSUME NEW q \in Seq(Posts), HasChange(q)
    PROVE  /\ \A p \in Posts : HasChange(Append(q, p))
           /\ q # <<>> /\ Head(q).k # "change" => HasChange(Tail(q))
<1>1. PICK i \in DOMAIN q : q[i].k = "change"
  BY DEF HasChange
<1>2. i \in 1..Len(q) /\ Len(q) \in Nat
  BY <1>1
<1>3. ASSUME NEW p \in Posts PROVE HasChange(Append(q, p))
  <2>1. i \in DOMAIN Append(q, p) /\ Append(q, p)[i] = q[i]
    BY <1>2
  <2> QED BY <1>1, <2>1 DEF HasChange
<1>4. ASSUME q # <<>>, Head(q).k # "change" PROVE HasChange(Tail(q))
  <2>1. i # 1
    BY <1>1, <1>4
  <2>2. i - 1 \in DOMAIN Tail(q) /\ Tail(q)[i - 1] = q[i]
    BY <1>2, <1>4, <2>1
  <2> QED BY <1>1, <2>2 DEF HasChange
<1> QED BY <1>3, <1>4

LEMMA LastChange == ASSUME NEW q \in Seq(Posts), NEW p \in Posts, p.k = "change" PROVE HasChange(Append(q, p))
<1>1. Len(q) + 1 \in DOMAIN Append(q, p) /\ Append(q, p)[Len(q) + 1] = p
  OBVIOUS
<1> QED BY <1>1 DEF HasChange

\* A handler's step: the flyout shows what was read, or nothing about it has changed.
LEMMA HandlerKeeps ==
    ASSUME LegacyInv, Handled, QueuesTyped', WorldTyped', pc' \in {"idle", "keys", "tray"}, show' \in BOOLEAN,
           Settled \/ (HasChange(posts) => HasChange(posts'))
    PROVE  LegacyInv'
<1>1. Typed'
  BY DEF Handled, SoundKept, WindowsTyped, LoopTyped, Typed
<1>2. Read'
  BY DEF Handled, SoundKept
<1>3. Rail'
  BY DEF Handled, Quiet, Settled, LegacyInv, Rail
<1>4. Thumb'
  <2>1. CASE Settled
    BY <2>1 DEF Settled, Thumb
  <2>2. CASE Quiet /\ (HasChange(posts) => HasChange(posts'))
    BY <2>2 DEF Quiet, LegacyInv, Thumb, HasChange
  <2> QED BY <2>1, <2>2 DEF Handled
<1> QED BY <1>1, <1>2, <1>3, <1>4 DEF LegacyInv

LEMMA HandlePostKeeps == ASSUME LegacyInv, HandlePost PROVE LegacyInv'
<1> DEFINE p == Head(posts)
<1>1. /\ posts # <<>> /\ posts' = Tail(posts) /\ UNCHANGED <<keys, cmds, pc, show, world>>
      /\ posts \in Seq(Posts) /\ QueuesTyped /\ WorldTyped /\ LoopTyped
  BY DEF HandlePost, LegacyInv, Typed, QueuesTyped
<1>2. p \in Posts /\ posts' \in Seq(Posts)
  BY <1>1
<1>3. QueuesTyped' /\ WorldTyped' /\ pc' \in {"idle", "keys", "tray"} /\ show' \in BOOLEAN
  BY <1>1, <1>2 DEF QueuesTyped, WorldTyped, LoopTyped, world
<1>4. CASE p.k = "change"
  <2>1. Sound(SetVolume(p.n)) /\ p.n \in Levels
    BY <1>2, <1>4 DEF HandlePost, Posts
  <2>2. dev \in States
    BY DEF LegacyInv, Typed, SoundTyped
  <2>3. Settled /\ Handled
    BY <2>1, <2>2, OutcomeTypes, SoundSettles
  <2> QED BY <1>3, <2>3, HandlerKeeps
<1>5. CASE p.k # "change"
  <2>1. Handled
    <3>1. CASE p.k = "wheel"
      <4>1. ApplyHotkey(p.act) /\ p.act \in Keys
        BY <1>2, <3>1 DEF HandlePost, Posts, Keys
      <4> QED BY <4>1, HotkeyHandled
    <3>2. CASE p.k \in {"mute", "reset", "edit", "settings"}
      <4>1. Sound(ToggleMute) \/ Sound(SetVolume(Half)) \/ ToastOnly \/ ShowSettings
        BY <3>2 DEF HandlePost
      <4> QED BY <4>1, HalfHandled, WindowHandled
    <3> QED BY <1>2, <1>5, <3>1, <3>2 DEF Posts
  <2>2. HasChange(posts) => HasChange(posts')
    BY <1>1, <1>5, ChangesKeep
  <2> QED BY <1>3, <2>1, <2>2, HandlerKeeps
<1> QED BY <1>4, <1>5

LEMMA DrainsKeep == ASSUME LegacyInv, DrainKeys \/ DrainTray PROVE LegacyInv'
<1>0. QueuesTyped /\ WorldTyped /\ LoopTyped
  BY DEF LegacyInv, Typed
<1>1. CASE DrainKeys
  <2>1. /\ keys # <<>> /\ keys' = Tail(keys) /\ ApplyHotkey(Head(keys)) /\ pc' \in {"idle", "keys"}
        /\ UNCHANGED <<posts, cmds, show, world>>
    BY <1>1 DEF DrainKeys
  <2>2. Head(keys) \in Keys /\ Tail(keys) \in Seq(Keys)
    BY <1>0, <2>1 DEF QueuesTyped
  <2>3. Handled
    BY <2>1, <2>2, HotkeyHandled
  <2>4. QueuesTyped' /\ WorldTyped' /\ pc' \in {"idle", "keys", "tray"} /\ show' \in BOOLEAN
    BY <1>0, <2>1, <2>2 DEF QueuesTyped, WorldTyped, LoopTyped, world
  <2> QED BY <2>1, <2>3, <2>4, HandlerKeeps
<1>2. CASE DrainTray
  <2>1. /\ cmds # <<>> /\ cmds' = Tail(cmds) /\ TrayCommand(Head(cmds))
        /\ UNCHANGED <<keys, posts, pc, show, world>>
    BY <1>2 DEF DrainTray
  <2>2. Head(cmds) \in Commands /\ Tail(cmds) \in Seq(Commands)
    BY <1>0, <2>1 DEF QueuesTyped
  <2>3. Handled
    BY <2>1, <2>2, TrayHandled
  <2>4. QueuesTyped' /\ WorldTyped' /\ pc' \in {"idle", "keys", "tray"} /\ show' \in BOOLEAN
    BY <1>0, <2>1, <2>2 DEF QueuesTyped, WorldTyped, LoopTyped, world
  <2> QED BY <2>1, <2>3, <2>4, HandlerKeeps
<1> QED BY <1>1, <1>2

\* What a poll publishes, and when it leaves that to its end.
LEMMA PollsKeep == ASSUME LegacyInv, Poll \/ EndPoll PROVE LegacyInv'
<1>0. /\ QueuesTyped /\ WorldTyped /\ LoopTyped /\ ConfTyped /\ dev \in States
      /\ mixer \in Mixers /\ hud \in Huds /\ help \in Helps /\ settings \in Frames
  BY DEF LegacyInv, Typed, SoundTyped, WindowsTyped
<1>1. ASSUME NEW showing \in BOOLEAN, Publish(dev, mixer, showing, 0), dev' = dev PROVE SoundKept /\ Settled
  BY <1>0, <1>1, PublishSettles
<1>2. CASE Poll
  <2>1. /\ Reload(edited) /\ UNCHANGED <<dev, help, settings, queues, menu, quit, world>>
        /\ \/ Publish(dev, mixer, edited, 0) /\ UNCHANGED <<pc, show>>
           \/ pc' = "tray" /\ show' = edited /\ UNCHANGED <<cache, tray, mixer, hud, faults, unseen>>
    BY <1>2 DEF Poll
  <2>2. edited \in BOOLEAN /\ (edited /\ ~edited) \in BOOLEAN
    BY <1>0, Zenon DEF ConfTyped
  <2>3. ConfTyped'
    BY <1>0, <2>1, <2>2 DEF Reload, ConfTyped
  <2>4. QueuesTyped' /\ WorldTyped' /\ pc' \in {"idle", "keys", "tray"} /\ show' \in BOOLEAN
    BY <1>0, <2>1, <2>2 DEF QueuesTyped, WorldTyped, LoopTyped, world, queues
  <2>5. CASE Publish(dev, mixer, edited, 0)
    <3>1. SoundKept /\ Settled
      BY <1>1, <2>1, <2>2, <2>5
    <3>2. Handled
      BY <1>0, <2>1, <2>3, <3>1 DEF Handled, LoopTyped
    <3> QED BY <2>4, <3>1, <3>2, HandlerKeeps
  <2>6. CASE UNCHANGED <<cache, tray, mixer, hud, faults, unseen>>
    <3>1. Handled
      BY <1>0, <2>1, <2>3, <2>6, QuietHandled DEF sound, LoopTyped
    <3>2. posts' = posts
      BY <2>1 DEF queues
    <3> QED BY <2>4, <3>1, <3>2, HandlerKeeps
  <2> QED BY <2>1, <2>5, <2>6
<1>3. CASE EndPoll
  <2>1. /\ Publish(dev, mixer, show, 0) /\ pc' = "idle" /\ show' = FALSE
        /\ UNCHANGED <<dev, help, settings, queues, menu, conf, quit, world>>
    BY <1>3 DEF EndPoll
  <2>2. QueuesTyped' /\ WorldTyped' /\ pc' \in {"idle", "keys", "tray"} /\ show' \in BOOLEAN /\ ConfTyped'
    BY <1>0, <2>1 DEF QueuesTyped, WorldTyped, LoopTyped, ConfTyped, world, queues, conf
  <2>3. SoundKept /\ Settled
    BY <1>0, <1>1, <2>1 DEF LoopTyped
  <2>4. Handled
    BY <1>0, <2>1, <2>2, <2>3 DEF Handled, LoopTyped
  <2> QED BY <2>2, <2>3, <2>4, HandlerKeeps
<1> QED BY <1>2, <1>3

LEMMA EndsKeep == ASSUME LegacyInv, HideHud \/ LoopEnds PROVE LegacyInv'
<1>0. /\ Typed /\ QueuesTyped /\ WorldTyped /\ LoopTyped /\ ConfTyped /\ SoundTyped /\ PastTyped /\ Read
      /\ mixer \in Mixers /\ hud \in Huds /\ help \in Helps /\ settings \in Frames
  BY DEF LegacyInv, Typed, WindowsTyped
<1>1. [hud EXCEPT !.kind = "hidden"] \in Huds
  BY <1>0 DEF Huds
<1>2. CASE HideHud
  <2>1. /\ hud' = [hud EXCEPT !.kind = "hidden"]
        /\ UNCHANGED <<sound, mixer, help, settings, queues, pc, show, menu, conf, world, quit, faults, unseen>>
    BY <1>2 DEF HideHud
  <2>2. Handled
    BY <1>0, <1>1, <2>1, QuietHandled DEF conf, ConfTyped, LoopTyped
  <2>3. QueuesTyped' /\ WorldTyped' /\ pc' \in {"idle", "keys", "tray"} /\ show' \in BOOLEAN /\ posts' = posts
    BY <1>0, <2>1 DEF QueuesTyped, WorldTyped, LoopTyped, world, queues
  <2> QED BY <2>2, <2>3, HandlerKeeps
<1>3. CASE LoopEnds
  <2>1. /\ quit' = "over" /\ menu' = FALSE /\ mixer' = Closed(mixer)
        /\ help' = [help EXCEPT !.open = FALSE] /\ settings' = [settings EXCEPT !.open = FALSE]
        /\ hud' = [hud EXCEPT !.kind = "hidden"]
        /\ UNCHANGED <<sound, queues, pc, show, conf, world, faults, unseen>>
    BY <1>3 DEF LoopEnds
  <2>2. mixer' \in Mixers /\ ~mixer'.open
    BY <1>0, <2>1, SurfaceTypes DEF WorldTyped, SoundTyped
  <2>3. help' \in Helps /\ settings' \in Frames
    BY <1>0, <2>1 DEF Helps, Frames
  <2>4. QueuesTyped' /\ WorldTyped' /\ LoopTyped' /\ ConfTyped' /\ SoundTyped' /\ PastTyped' /\ Read'
    BY <1>0, <2>1 DEF QueuesTyped, WorldTyped, LoopTyped, ConfTyped, SoundTyped, PastTyped, Read, world, queues, conf, sound
  <2> QED BY <1>1, <2>1, <2>2, <2>3, <2>4 DEF LegacyInv, Typed, WindowsTyped, Rail, Thumb
<1> QED BY <1>2, <1>3

-----------------------------------------------------------------------------
(* The user and the rest of the world.                                      *)

LEMMA InputTypes == ASSUME LegacyInv, Input PROVE inputs' \in 0..MaxInputs
  BY HostAssumption DEF LegacyInv, Typed, WorldTyped, Input

\* Nothing but a drag or a posted message reaches what is read and shown.
LEMMA WorldOnly ==
    ASSUME LegacyInv, UNCHANGED <<sound, faults, unseen, conf>>,
           mixer' \in Mixers, mixer' = mixer \/ ~mixer'.open
                              \/ (mixer'.open = mixer.open /\ mixer'.rail = mixer.rail /\ HasChange(posts')),
           hud' = hud, help' \in Helps, settings' \in Frames, QueuesTyped', LoopTyped', WorldTyped',
           HasChange(posts) => HasChange(posts')
    PROVE  LegacyInv'
<1>1. SoundTyped' /\ PastTyped' /\ ConfTyped' /\ Read'
  BY DEF LegacyInv, Typed, SoundTyped, PastTyped, ConfTyped, Read, sound, conf
<1>2. WindowsTyped'
  BY DEF LegacyInv, Typed, WindowsTyped
<1>3. Rail'
  BY DEF LegacyInv, Rail, sound
<1>4. Thumb'
  BY DEF LegacyInv, Thumb, HasChange, sound
<1> QED BY <1>1, <1>2, <1>3, <1>4 DEF LegacyInv, Typed

LEMMA Longer == ASSUME NEW S, NEW s \in Seq(S), NEW t, t = s \/ \E a \in S : t = Append(s, a) PROVE t \in Seq(S)
<1>1. CASE t = s
  BY <1>1, Zenon
<1>2. CASE \E a \in S : t = Append(s, a)
  <2>1. PICK a \in S : t = Append(s, a)
    BY <1>2
  <2> QED BY <2>1
<1> QED BY <1>1, <1>2

\* Input to the queues, the menu, the focus and the display.
LEMMA InputsKeep ==
    ASSUME LegacyInv,
           \/ \E a \in Keys : Key(a)
           \/ \E a \in Wheels : Wheel(a)
           \/ \E k \in {"mute", "reset"} : MixerButton(k)
           \/ ClickIcon \/ Dismiss \/ FocusMoves
           \/ \E c \in Commands : Choose(c)
           \/ \E s \in Screens : ScreenChanges(s)
    PROVE  LegacyInv'
<1>0. QueuesTyped /\ WorldTyped /\ LoopTyped /\ WindowsTyped /\ posts \in Seq(Posts)
  BY DEF LegacyInv, Typed, QueuesTyped
<1>1. /\ UNCHANGED <<sound, faults, unseen, conf, windows, pc, show, quit>>
      /\ inputs' \in 0..MaxInputs
      /\ keys' = keys \/ \E a \in Keys : keys' = Append(keys, a)
      /\ posts' = posts \/ \E p \in Posts : posts' = Append(posts, p)
      /\ cmds' = cmds \/ \E c \in Commands : cmds' = Append(cmds, c)
      /\ menu' \in BOOLEAN /\ blocked' \in {blocked, ~blocked} /\ screen' \in Screens
  <2>0. inputs \in 0..MaxInputs /\ menu \in BOOLEAN /\ screen \in Screens
    BY <1>0 DEF WorldTyped, LoopTyped
  <2>1. \A a \in Wheels : [k |-> "wheel", act |-> a, n |-> 0] \in Posts
    BY DEF Posts
  <2>2. \A k \in {"mute", "reset"} : Post(k) \in Posts
    BY DEF Posts, Post
  <2>3. CASE \E a \in Keys : Key(a)
    BY <2>0, <2>3, InputTypes DEF Key, still
  <2>4. CASE \E a \in Wheels : Wheel(a)
    BY <2>0, <2>1, <2>4, InputTypes DEF Wheel, Posted, still
  <2>5. CASE \E k \in {"mute", "reset"} : MixerButton(k)
    BY <2>0, <2>2, <2>5, InputTypes DEF MixerButton, Posted, still
  <2>6. CASE ClickIcon
    BY <2>0, <2>6, InputTypes DEF ClickIcon, still, queues
  <2>7. CASE Dismiss
    BY <2>0, <2>7 DEF Dismiss, still, queues, world
  <2>8. CASE FocusMoves
    BY <2>0, <2>8, InputTypes DEF FocusMoves, still, queues
  <2>9. CASE \E c \in Commands : Choose(c)
    BY <2>0, <2>9, InputTypes DEF Choose, still
  <2>10. CASE \E s \in Screens : ScreenChanges(s)
    BY <2>0, <2>10, InputTypes DEF ScreenChanges, still, queues
  <2> QED BY <2>3, <2>4, <2>5, <2>6, <2>7, <2>8, <2>9, <2>10
<1>2. QueuesTyped'
  <2>0. keys \in Seq(Keys) /\ posts \in Seq(Posts) /\ cmds \in Seq(Commands)
    BY <1>0 DEF QueuesTyped
  <2>1. keys' \in Seq(Keys)
    <3>1. keys' = keys \/ \E a \in Keys : keys' = Append(keys, a)
      BY <1>1
    <3> QED BY <2>0, <3>1, Longer, Zenon
  <2>2. posts' \in Seq(Posts)
    <3>1. posts' = posts \/ \E p \in Posts : posts' = Append(posts, p)
      BY <1>1
    <3> QED BY <2>0, <3>1, Longer, Zenon
  <2>3. cmds' \in Seq(Commands)
    <3>1. cmds' = cmds \/ \E c \in Commands : cmds' = Append(cmds, c)
      BY <1>1
    <3> QED BY <2>0, <3>1, Longer, Zenon
  <2> QED BY <2>1, <2>2, <2>3 DEF QueuesTyped
<1>3. blocked' \in BOOLEAN
  BY <1>0, <1>1, Zenon DEF WorldTyped
<1>4. WorldTyped' /\ LoopTyped'
  BY <1>0, <1>1, <1>3 DEF WorldTyped, LoopTyped
<1>5. HasChange(posts) => HasChange(posts')
  BY <1>0, <1>1, ChangesKeep
<1>6. mixer' = mixer /\ hud' = hud /\ help' = help /\ settings' = settings
  BY <1>1 DEF windows
<1> QED BY <1>0, <1>1, <1>2, <1>4, <1>5, <1>6, WorldOnly DEF WindowsTyped

\* Input to the windows.
LEMMA TouchesKeep ==
    ASSUME LegacyInv,
           \/ \E n \in Levels : Drag(n)
           \/ CloseMixer \/ CloseSettings
           \/ \E k \in {"edit", "settings", "close"} : HelpButton(k)
    PROVE  LegacyInv'
<1>0. /\ QueuesTyped /\ WorldTyped /\ LoopTyped /\ posts \in Seq(Posts) /\ screen \in Screens
      /\ mixer \in Mixers /\ help \in Helps /\ settings \in Frames /\ dev \in States
  BY DEF LegacyInv, Typed, QueuesTyped, WindowsTyped, WorldTyped, SoundTyped
<1>1. CASE \E n \in Levels : Drag(n)
  <2>1. PICK n \in Levels : Drag(n)
    BY <1>1
  <2> DEFINE p == [k |-> "change", act |-> None, n |-> n]
  <2>2. /\ mixer' = [mixer EXCEPT !.thumb = n] /\ posts' = Append(posts, p)
        /\ UNCHANGED <<still, hud, help, settings, keys, cmds, menu, blocked, screen, unseen>>
        /\ inputs' \in 0..MaxInputs
    BY <2>1, InputTypes DEF Drag, Posted
  <2>3. p \in Posts /\ p.k = "change"
    BY DEF Posts
  <2>4. posts' \in Seq(Posts) /\ HasChange(posts')
    BY <1>0, <2>2, <2>3, LastChange
  <2>5. mixer' \in Mixers /\ mixer'.open = mixer.open /\ mixer'.rail = mixer.rail
    BY <1>0, <2>2 DEF Mixers
  <2>6. QueuesTyped' /\ WorldTyped' /\ LoopTyped'
    BY <1>0, <2>2, <2>4 DEF QueuesTyped, WorldTyped, LoopTyped, still
  <2> QED BY <1>0, <2>2, <2>4, <2>5, <2>6, WorldOnly DEF still
<1>2. CASE CloseMixer
  <2>1. /\ mixer' = Closed(mixer) /\ inputs' \in 0..MaxInputs
        /\ UNCHANGED <<still, hud, help, settings, queues, menu, blocked, screen, unseen>>
    BY <1>2, InputTypes DEF CloseMixer
  <2>2. mixer' \in Mixers /\ ~mixer'.open
    BY <1>0, <2>1, SurfaceTypes
  <2>3. QueuesTyped' /\ WorldTyped' /\ LoopTyped' /\ posts' = posts
    BY <1>0, <2>1 DEF QueuesTyped, WorldTyped, LoopTyped, still, queues
  <2> QED BY <1>0, <2>1, <2>2, <2>3, WorldOnly DEF still
<1>3. CASE CloseSettings
  <2>1. /\ settings' = [settings EXCEPT !.open = FALSE] /\ inputs' \in 0..MaxInputs
        /\ UNCHANGED <<still, mixer, hud, help, queues, menu, blocked, screen, unseen>>
    BY <1>3, InputTypes DEF CloseSettings
  <2>2. settings' \in Frames
    BY <1>0, <2>1 DEF Frames
  <2>3. QueuesTyped' /\ WorldTyped' /\ LoopTyped' /\ posts' = posts
    BY <1>0, <2>1 DEF QueuesTyped, WorldTyped, LoopTyped, still, queues
  <2> QED BY <1>0, <2>1, <2>2, <2>3, WorldOnly DEF still
<1>4. CASE \E k \in {"edit", "settings", "close"} : HelpButton(k)
  <2>1. PICK k \in {"edit", "settings", "close"} : HelpButton(k)
    BY <1>4
  <2>2. /\ help' = [help EXCEPT !.open = FALSE] /\ inputs' \in 0..MaxInputs
        /\ posts' = posts \/ (k # "close" /\ posts' = Append(posts, Post(k)))
        /\ UNCHANGED <<still, mixer, hud, settings, keys, cmds, menu, blocked, screen, unseen>>
    BY <2>1, InputTypes DEF HelpButton, Posted
  <2>3. k # "close" => Post(k) \in Posts
    BY DEF Posts, Post
  <2>4. posts' \in Seq(Posts) /\ (HasChange(posts) => HasChange(posts'))
    <3>1. CASE posts' = posts
      BY <1>0, <3>1
    <3>2. CASE k # "close" /\ posts' = Append(posts, Post(k))
      BY <1>0, <2>3, <3>2, ChangesKeep
    <3> QED BY <2>2, <3>1, <3>2
  <2>5. help' \in Helps
    BY <1>0, <2>2 DEF Helps
  <2>6. QueuesTyped' /\ WorldTyped' /\ LoopTyped'
    BY <1>0, <2>2, <2>4 DEF QueuesTyped, WorldTyped, LoopTyped, still
  <2> QED BY <1>0, <2>2, <2>4, <2>5, <2>6, WorldOnly DEF still
<1> QED BY <1>1, <1>2, <1>3, <1>4

\* Other programs that move the device, and the file.
LEMMA OthersKeep == ASSUME LegacyInv, (\E d \in States : Meddle(d)) \/ (\E s \in Steps : EditFile(s)) PROVE LegacyInv'
<1>0. Typed /\ QueuesTyped /\ WorldTyped /\ LoopTyped /\ ConfTyped /\ SoundTyped /\ PastTyped /\ WindowsTyped /\ Read /\ Rail /\ Thumb
  BY DEF LegacyInv, Typed
<1>1. CASE \E d \in States : Meddle(d)
  <2>1. PICK d \in States : Meddle(d)
    BY <1>1
  <2>2. /\ dev' = d /\ unseen' = unseen \cup {"meddled"} /\ inputs' \in 0..MaxInputs
        /\ UNCHANGED <<cache, tray, windows, queues, pc, show, menu, conf, blocked, screen, quit, faults>>
    BY <2>1, InputTypes DEF Meddle
  <2>3. SoundTyped' /\ PastTyped' /\ ConfTyped' /\ WindowsTyped'
    BY <1>0, <2>2 DEF SoundTyped, PastTyped, ConfTyped, WindowsTyped, windows, conf
  <2>4. QueuesTyped' /\ WorldTyped' /\ LoopTyped'
    BY <1>0, <2>2 DEF QueuesTyped, WorldTyped, LoopTyped, queues
  <2>5. Read' /\ Rail' /\ Thumb'
    BY <1>0, <2>2 DEF Read, Rail, Thumb, windows, queues
  <2> QED BY <2>3, <2>4, <2>5 DEF LegacyInv, Typed
<1>2. CASE \E s \in Steps : EditFile(s)
  <2>1. PICK s \in Steps : EditFile(s)
    BY <1>2
  <2>2. /\ file' = s /\ edited' = TRUE /\ inputs' \in 0..MaxInputs
        /\ UNCHANGED <<sound, windows, queues, pc, show, menu, step, blocked, screen, quit, faults, unseen>>
    BY <2>1, InputTypes DEF EditFile
  <2>3. SoundTyped' /\ PastTyped' /\ ConfTyped' /\ WindowsTyped'
    BY <1>0, <2>2 DEF SoundTyped, PastTyped, ConfTyped, WindowsTyped, windows, sound
  <2>4. QueuesTyped' /\ WorldTyped' /\ LoopTyped'
    BY <1>0, <2>2 DEF QueuesTyped, WorldTyped, LoopTyped, queues
  <2>5. Read' /\ Rail' /\ Thumb'
    BY <1>0, <2>2 DEF Read, Rail, Thumb, windows, queues, sound
  <2> QED BY <2>3, <2>4, <2>5 DEF LegacyInv, Typed
<1> QED BY <1>1, <1>2

-----------------------------------------------------------------------------
(* What holds of every behaviour.                                           *)

LEMMA InitLegacy == Init => LegacyInv
<1> SUFFICES ASSUME Init PROVE LegacyInv
  OBVIOUS
<1>0. 0 \in Levels /\ Half \in Levels /\ screen \in Screens /\ screen.scale \in Scales
  BY HostAssumption DEF Init, Levels, Scales
<1>1. dev \in States /\ [level |-> Half, muted |-> FALSE] \in States /\ [level |-> 0, muted |-> FALSE] \in States
  BY <1>0 DEF Init, States
<1>2. cache \in States /\ tray = None /\ (unseen = {} => cache = dev) /\ unseen \subseteq {"missed"}
  BY <1>1 DEF Init
<1>3. mixer \in Mixers /\ ~mixer.open /\ hud \in Huds /\ help \in Helps /\ settings \in Frames
  BY <1>0, <1>1 DEF Init, Mixers, Huds, Helps, Frames
<1>4. SoundTyped /\ WindowsTyped
  BY <1>1, <1>2, <1>3 DEF SoundTyped, WindowsTyped
<1>5. QueuesTyped
  BY DEF Init, QueuesTyped
<1>6. ConfTyped /\ LoopTyped
  BY DEF Init, ConfTyped, LoopTyped
<1>7. WorldTyped /\ PastTyped
  <2>1. 0 \in 0..MaxInputs /\ 0 \in 0..MaxFaults
    BY HostAssumption
  <2> QED BY <1>0, <1>2, <2>1 DEF Init, WorldTyped, PastTyped
<1>8. Read /\ Rail /\ Thumb
  BY <1>2, <1>3 DEF Read, Rail, Thumb
<1> QED BY <1>4, <1>5, <1>6, <1>7, <1>8 DEF LegacyInv, Typed

LEMMA LegacyStep == LegacyInv /\ [Next]_vars => LegacyInv'
<1> SUFFICES ASSUME LegacyInv, [Next]_vars PROVE LegacyInv'
  OBVIOUS
<1>1. CASE Host
  BY <1>1, HandlePostKeeps, DrainsKeep, PollsKeep, EndsKeep DEF Host
<1>2. CASE World
  BY <1>2, InputsKeep, TouchesKeep, OthersKeep DEF World
<1>3. CASE UNCHANGED vars
  BY <1>3 DEF vars, sound, windows, queues, conf, world, LegacyInv, Typed, SoundTyped, WindowsTyped, QueuesTyped,
              ConfTyped, LoopTyped, WorldTyped, PastTyped, Read, Rail, Thumb
<1> QED BY <1>1, <1>2, <1>3 DEF Next

LEMMA LegacyAlways == Spec => []LegacyInv
  BY InitLegacy, LegacyStep, PTL DEF Spec

\* Every variable keeps its type, for any number of levels, screens, inputs and failing calls.
THEOREM LegacyTypeCorrect == Spec => []TypeOK
<1>1. LegacyInv => TypeOK
  BY DEF LegacyInv, Typed, SoundTyped, WindowsTyped, QueuesTyped, ConfTyped, LoopTyped, WorldTyped, PastTyped,
         Mixers, Huds, Helps, Frames, Scales, TypeOK
<1> QED BY <1>1, LegacyAlways, PTL

\* Whatever order shortcuts, notches, drags, commands and polls run in, the tray, the cache and the open flyout
\* show the same sound, but for a failed read, and the thumb leaves the rail only while its drag is to be
\* handled (app.rs: publish_confirmed_state).
THEOREM ConfirmationReachesAll == Spec => []ConfirmedEverywhere
<1>1. LegacyInv => ConfirmedEverywhere
  BY DEF LegacyInv, Read, Rail, Thumb, ConfirmedEverywhere
<1> QED BY <1>1, LegacyAlways, PTL

-----------------------------------------------------------------------------
(* A volume step moves the device its own way.                              *)

\* A step that takes from a queue does not leave it or add to it.
LEMMA TailsDiffer ==
    ASSUME NEW S, NEW q \in Seq(S), q # <<>>
    PROVE  Tail(q) # q /\ \A e \in S : Tail(q) # Append(q, e)
<1>1. Len(q) \in Nat \ {0} /\ Len(Tail(q)) = Len(q) - 1 /\ \A e \in S : Len(Append(q, e)) = Len(q) + 1
  OBVIOUS
<1>2. \A n \in Nat \ {0} : n - 1 # n /\ n - 1 # n + 1
  OBVIOUS
<1>3. Len(Tail(q)) # Len(q) /\ \A e \in S : Len(Tail(q)) # Len(Append(q, e))
  BY <1>1, <1>2, Zenon
<1> QED BY <1>3, Zenon

\* Only the message loop takes posted messages, and only the drain takes shortcuts.
LEMMA WhoTakes ==
    ASSUME Typed, [Next]_vars
    PROVE  /\ HandlePost \/ posts' = posts \/ \E p \in Posts : posts' = Append(posts, p)
           /\ DrainKeys \/ keys' = keys \/ \E a \in Keys : keys' = Append(keys, a)
<1>1. \A a \in Wheels : [k |-> "wheel", act |-> a, n |-> 0] \in Posts
  BY DEF Posts
<1>2. \A n \in Levels : [k |-> "change", act |-> None, n |-> n] \in Posts
  BY DEF Posts
<1>3. \A k \in {"mute", "reset", "edit", "settings"} : Post(k) \in Posts
  BY DEF Posts, Post
<1>4. CASE HandlePost
  BY <1>4 DEF HandlePost
<1>5. CASE DrainKeys
  BY <1>5 DEF DrainKeys
<1>6. CASE Poll \/ DrainTray \/ EndPoll \/ HideHud \/ LoopEnds
  BY <1>6 DEF Poll, DrainTray, EndPoll, HideHud, LoopEnds, queues
<1>7. CASE \E a \in Keys : Key(a)
  BY <1>7 DEF Key
<1>8. CASE \E a \in Wheels : Wheel(a)
  BY <1>1, <1>8 DEF Wheel, Posted
<1>9. CASE \E n \in Levels : Drag(n)
  BY <1>2, <1>9 DEF Drag, Posted
<1>10. CASE \E k \in {"mute", "reset"} : MixerButton(k)
  BY <1>3, <1>10 DEF MixerButton, Posted
<1>11. CASE \E k \in {"edit", "settings", "close"} : HelpButton(k)
  <2>1. PICK k \in {"edit", "settings", "close"} : HelpButton(k)
    BY <1>11
  <2>2. keys' = keys /\ (posts' = posts \/ (k # "close" /\ posts' = Append(posts, Post(k))))
    BY <2>1 DEF HelpButton, Posted
  <2> QED BY <1>3, <2>2
<1>12. CASE CloseMixer \/ CloseSettings \/ ClickIcon \/ Dismiss \/ FocusMoves
  BY <1>12 DEF CloseMixer, CloseSettings, ClickIcon, Dismiss, FocusMoves, queues
<1>13. CASE \/ \E c \in Commands : Choose(c)
            \/ \E d \in States : Meddle(d)
            \/ \E s \in Steps : EditFile(s)
            \/ \E s \in Screens : ScreenChanges(s)
  BY <1>13 DEF Choose, Meddle, EditFile, ScreenChanges, queues
<1>14. CASE UNCHANGED vars
  BY <1>14 DEF vars, queues
<1> QED BY <1>4, <1>5, <1>6, <1>7, <1>8, <1>9, <1>10, <1>11, <1>12, <1>13, <1>14 DEF Next, Host, World

\* What a step's shortcut or notch does to the device.
Moves(a) == IF a \in {"Up", "UpLarge"} THEN dev'.level >= dev.level ELSE dev'.level <= dev.level
LEMMA StepMoves == ASSUME LegacyInv, unseen = {}, NEW a \in Wheels, ApplyHotkey(a) PROVE Moves(a)
<1>0. dev \in States /\ dev.level \in Levels /\ dev.level \in Int /\ cache = dev /\ step \in Steps
  BY HostAssumption DEF LegacyInv, Typed, SoundTyped, ConfTyped, Read, States, Levels
<1>1. CASE Nothing
  <2>1. dev' = dev
    BY <1>1 DEF Nothing, sound
  <2> QED BY <1>0, <2>1 DEF Moves
<1>2. CASE KeyAction(a)
  <2> DEFINE v == Stepped(dev.level, Delta[a])
  <2>1. Sound(SetVolume(v))
    BY <1>0, <1>2 DEF KeyAction, Wheels
  <2>2. PICK o \in SetVolume(v) : dev' = o.dev
    BY <2>1 DEF Sound
  <2>3. v \in Levels
    BY <1>0, StepTypes
  <2>4. dev'.level \in {dev.level, v}
    <3>1. [dev EXCEPT !.level = v].level = v
      BY <1>0 DEF States
    <3>2. \/ o = [dev |-> dev, cost |-> 1]
          \/ o = [dev |-> [dev EXCEPT !.level = v], cost |-> IF v > 0 /\ dev.muted THEN 1 ELSE 0]
          \/ o = [dev |-> [level |-> v, muted |-> dev.muted /\ v = 0], cost |-> 0]
      BY <2>2 DEF SetVolume
    <3>3. o.dev \in {dev, [dev EXCEPT !.level = v], [level |-> v, muted |-> dev.muted /\ v = 0]}
      BY <3>2
    <3>4. [level |-> v, muted |-> dev.muted /\ v = 0].level = v
      OBVIOUS
    <3> QED BY <2>2, <3>1, <3>3, <3>4, Zenon
  <2>5. CASE a \in {"Up", "UpLarge"}
    <3>1. Delta[a] \in Int /\ Delta[a] >= 0
      BY <1>0, <2>5, HostAssumption DEF Delta
    <3>2. v >= dev.level
      BY <1>0, <3>1, StepsMonotone
    <3> QED BY <1>0, <2>4, <2>5, <3>2 DEF Moves
  <2>6. CASE a \in {"Down", "DownLarge"}
    <3>1. Delta[a] \in Int /\ Delta[a] <= 0
      BY <1>0, <2>6, HostAssumption DEF Delta
    <3>2. v <= dev.level
      BY <1>0, <3>1, StepsMonotone
    <3> QED BY <1>0, <2>4, <2>6, <3>2 DEF Moves
  <2> QED BY <2>5, <2>6 DEF Wheels
<1> QED BY <1>1, <1>2 DEF ApplyHotkey

\* A step never moves the device the other way, as long as nobody else has touched it and no read has failed
\* since the cache was filled (app.rs: hotkey_to_action).
THEOREM StepsKeepDirection == Spec => StepsItsOwnWay
<1>1. LegacyInv /\ [Next]_vars =>
        [\A a \in Wheels :
           (unseen = {} /\ ((posts # <<>> /\ posts' = Tail(posts) /\ Head(posts).act = a)
                            \/ (keys # <<>> /\ keys' = Tail(keys) /\ Head(keys) = a)))
             => IF a \in {"Up", "UpLarge"} THEN dev'.level >= dev.level ELSE dev'.level <= dev.level]_vars
  <2> SUFFICES ASSUME LegacyInv, [Next]_vars, NEW a \in Wheels, unseen = {},
                      \/ posts # <<>> /\ posts' = Tail(posts) /\ Head(posts).act = a
                      \/ keys # <<>> /\ keys' = Tail(keys) /\ Head(keys) = a
               PROVE  Moves(a)
    BY DEF Moves
  <2>0. Typed /\ posts \in Seq(Posts) /\ keys \in Seq(Keys)
    BY DEF LegacyInv, Typed, QueuesTyped
  <2>1. CASE posts # <<>> /\ posts' = Tail(posts) /\ Head(posts).act = a
    <3>1. HandlePost
      BY <2>0, <2>1, TailsDiffer, WhoTakes
    <3>2. Head(posts) \in Posts /\ a # None
      BY <2>0, <2>1, AbsentAssumption
    <3>3. Head(posts).k = "wheel"
      BY <2>1, <3>2 DEF Posts
    <3>4. ApplyHotkey(a)
      BY <2>1, <3>1, <3>3 DEF HandlePost
    <3> QED BY <3>4, StepMoves
  <2>2. CASE keys # <<>> /\ keys' = Tail(keys) /\ Head(keys) = a
    <3>1. DrainKeys
      BY <2>0, <2>2, TailsDiffer, WhoTakes
    <3>2. ApplyHotkey(a)
      BY <2>2, <3>1 DEF DrainKeys
    <3> QED BY <3>2, StepMoves
  <2> QED BY <2>1, <2>2
<1> QED BY <1>1, InitLegacy, LegacyStep, PTL DEF Spec, StepsItsOwnWay
=============================================================================
