# VolumeControl in TLA+

VolumeControl shows and changes the volume of the default audio output from global
shortcuts, the mouse wheel, a tray menu, a command line and a few small windows. The
repository holds several programs around one library: a Tauri host with web pages, an
egui host, an older native Windows program, a GTK host, an AppKit host and a command
line, with an updater and settings that all of them share.

These modules describe the parts where things happen in an order nobody wrote down:
handlers between whose calls the world moves, threads, windows, messages, files that
others edit, processes that die. Each definition is written from the source;
`PROJECT.json` maps it to the lines it stands for, lists the components, the hazards
of the code with the properties that cover them, the runs and the theorems.

1. [The system](#the-system)
2. [Modules](#modules)
3. [Runs](#runs): what is checked, within which bounds, under which fairness
4. [Proofs](#proofs): what is proved, and along which argument
5. [Assumptions about the world](#assumptions-about-the-world)
6. [Where the code and its documentation part](#where-the-code-and-its-documentation-part)
7. [Not modelled](#not-modelled)
8. [Plan](#plan)

## The system

| Part | State it keeps | Operations | Hard behaviour | What makes it correct |
|---|---|---|---|---|
| `AppCore`, volume half (`host_core.rs`) | `last_state`, `mute_restore_volume`, `backend_status` | `handle_action` for volumes and mutes, the command line's fallible twins, `publish_confirmed_state`, `sync_external_state`, `bootstrap` | the endpoint belongs to the system and moves between two calls of a handler; any call may fail; `get_state` is two calls | the cache is the endpoint, the tray shows the cache, a mute can be undone, nothing is reported that did not happen |
| Audio backends (`audio_*.rs`, `audio_sessions_*.rs`) | a cached endpoint, COM references and apartments (Windows), a connection (PulseAudio) | `get_state`, `set_volume`, `set_mute`, `toggle_mute`, sessions | devices and streams go away and come back between calls | every reference is given back, calls follow the default output, a row acts on its own session |
| Configuration store (`config.rs`, `config_ini.rs`, config half of `host_core.rs`) | `config`, `last_config_mtime`, `config_notice`; `config.ini`, `config.json` | load, migrate, recover, reload, save, adopt, undo | editors write between any two file operations, writes fail, the process dies | an outside edit is loaded, an own save is not taken for one, memory is what the file says |
| Settings text and field rules (`config_ini.rs`, `config.rs`, egui settings rows) | a text, a configuration, a draft | parse, write, validate, range rows, record | one rule written in four places | what is written is read back; the rules agree |
| Global shortcuts (`hotkeys_global.rs`) | bindings, registered ids, the worker's requests | register, `set_bindings`, worker loop, drop | a condition variable, a listener thread, callbacks | status tells what is registered; one press, one action; a released key is quiet |
| Blacklist and gate | the list, the foreground window, the gate | edit, pick, save, look up, pass or stop | names in many spellings, three systems | the gate stops what the list says, the picker shows what the gate does |
| Tauri host threads and windows (`src-tauri/src/lib.rs`, `commands.rs`, `window_manager.rs`, `events_sink.rs`) | the core's lock, posted operations, the active window of each surface, the overlay's timer number | commands, 20 ms and 150 ms polls, open, close, toggle, ready, destroyed | locks held while waiting for the main thread; asynchronous creation and destruction | windows and the manager's idea of them agree; nobody waits for ever |
| Web pages (`frontend/`) | the mixer's store, optimistic sliders; the settings' draft and baseline | commands, events, a save of three commands | answers and events overtake each other; a page closes between two awaits | the page ends at the host's state |
| Update manager (`update_manager.rs`, `UpdateCard.tsx`) and packages (`lifecycle.rs`, `updates.rs`, install scripts) | published state with a revision, prepared package, three flags, the card; files, locks, markers of the helpers | check, download, install; verify, hand over, replace | threads emit after unlocking; helpers, kills, a release published anew | ready means prepared; the installed program is whole |
| Launching (`autostart.rs`, `single_instance.rs`, `native_win32.rs`, `main.rs`) | a mutex and events of the kernel, the sign-in entry | start, `--quit`, sign-in, exit, crash | processes meet between any two calls | one instance, also after a crash; launches answered; quiet sign-ins |
| egui host (`volumecontrol-egui`) | surfaces, event queue, a mirror of volume and configuration, the settings draft, the recorder | frame loop, save, cancel, reset, record | several copies of one configuration; modal surfaces; frames that must come | surfaces exclude each other, copies agree, the HUD and the program end |
| Native Windows program (`app.rs`, `settings.rs`, `mixer.rs`, `help.rs`, `overlay.rs`) | a cache, windows, a draft with controls, pictures | message loop, timers, posted messages | one thread, but every message comes at its own time | surfaces agree with the device, an Apply writes what was edited, pictures are current |
| GTK and AppKit hosts (`linux_host_core.rs`, `linux_app.rs`, `macos_app.rs`) | a reducer's state, retries, menus | callbacks, polls, retries, reload | the sound server comes and goes | a state called ready is the device's |
| Liquid Glass surfaces (`liquid_glass`) | a controller, four surfaces, scenes, focus | publish, frame, gesture, tick | gestures aim at the last drawn frame | what is drawn and sent is the host's |
| Renderers, texts, packaging | pixels, tables | | | |

The parts meet in one place: every current host wraps one `AppCore` in a mutex.
Shortcuts, tray events, commands and timers lock it and call a handler; the handler calls
the audio backend and the file system synchronously and reports through the `EventSink`.
In the Tauri host the sink emits events and posts window operations to the main thread;
in the egui host it fills the queue the next frame drains. The older hosts keep a cache
and a loop of their own. The GTK and AppKit hosts are superseded, as the documentation
says, but still compiled.

## Modules

| Module | Models | How it corresponds to the code |
|---|---|---|
| `VolumeMirror` | abstract: what a copy of the endpoint may become | the endpoint moves, a look takes a volume, an adoption ends a look |
| `VolumeCore` | `AppCore`'s volume handlers and the backends they call | `last`, `restore`, `backend` are the fields of `AppCore`; `tray` and `banner` what the sink was last told; `(pc, op, arg)` the audio call the handler makes next |
| `ConfigStore` | the configuration in memory, on disk and in the listener | `mem`, `seen`, `notice` are `AppCore`'s fields, `ini`, `mtime`, `json` the files, `bound` what the listener registered; `pc` the next file operation |
| `HotkeyListener` | listener thread, repeat worker, `set_bindings`, drop | `hold` holds the atomics of `HotkeyHold`; `listener` and `todo` are the stores a thread has still to make, `worker` the worker's program counter |
| `TauriHost` | event loop, two polls, commands, timers, windows | `core` is the lock's owner, `main` what waits for the main thread, a job the rest of a poll; a command is one step once it has the lock |
| `UpdateManager` | worker, downloader, install commands, the card | `state`, `prepared`, the three flags are the fields behind their locks; `emitting` is the copy a thread has not emitted yet |
| `EguiHost` | frames, phase by phase | `ui` the surfaces and the shown volume, `queue` the sink's events, `pc` the next phase; channels change between phases |
| `LegacyHost`, `SurfaceLayout` | the native Windows program's loop; where surfaces and controls go | one thread, posted messages before timers; rectangles in integers, scales in quarters |
| `UnixHost` | the GTK reducer and loop, the AppKit round | one module: `system` says which of the two runs |
| `PageChannel`, `MixerPage`, `SettingsPage`, `WebviewPages` | the two pages with state of their own, the roads to the host | commands and answers on one FIFO road, events on another; a command is one step of the host |
| `Launches` | processes, named mutex and events, the sign-in entry | a process is an actor with a program counter; a kernel object exists while somebody holds a handle |
| `EguiSettings`, `EguiUpdates` | the egui settings window and its update card with two threads | core, mirror, draft and file are four copies; overlay events carry one; opening the mixer or the help hides the settings |
| `LegacySettings` | the native settings window | draft `orig`/`cur`, what the controls read as (a material the combo box lacks reads as `Auto`), the messages to the host |
| `WindowsAudio` | the Windows backend call by call | `task.at` is the next COM call; `refs` counts references, `apartment` the threads inside one |
| `GlassScene`, `GlassSurfaces` | the scenes, hit test and Tab order; controller and surfaces | a frame fills a new scene; a gesture aims at the frame last drawn |
| `Packages` | release page, download, hand-over, helper, installed program | a file's content stands for its SHA-256; a kill can fall after any step |
| `Blocking` | from what is typed into a blacklist to the gate | a name is a stem, its extensions, and rough or not |
| `ConfigText` | `config.ini` as lines, the rules of fields in the file, the core and the window | one field with named values, one ranged number, the shortcuts and thresholds |
| `LegacyCards` | flyout, overlay and help card as painted | a window is its data, the region still to be painted, the picture |
| `Parts` | the last eight, one of which runs | they share no state; `part` is chosen at the start, the others keep one fixed state |
| `Absent` | `None`, the value the parts have in common | |
| `..._proofs` | theorems about the module they are named for | |
| `MC...` | instances for TLC | |

Every handler of `AppCore` runs under one mutex. So `VolumeCore` and `ConfigStore` have
one handler in progress, but what the handler does not own (the endpoint, the files)
may change between any two of its calls, and each call is a step of its own that may
fail. `HotkeyListener`, `UpdateManager` and `TauriHost` have real threads: each store to
an atomic, each critical section, each emit or post is a step, and all threads
interleave. Atomics are taken as sequentially consistent. The code writes `HotkeyHold`
with `Release` and reads it with `Acquire`, and `SeqCst` elsewhere, so a weaker order
could add behaviours of `HotkeyHold` that are not explored here. The hosts with one
thread (`EguiHost`, `LegacyHost`, `UnixHost`) step from one callback, message or phase
of a frame to the next, and the world moves in between.

The modules divide the system by what shares state. Where a module needs a neighbour, it
has the neighbour's effect and not its inside: for `TauriHost` a volume command is
something that holds the lock and publishes; for `MixerPage` a command is one step on the
volume; for `UpdateManager` a download is one success or failure, whose verification is
in `Packages`. The composed modules are `WebviewPages` (both pages over one channel),
`EguiSettings` with `EguiUpdates`, `LegacyHost` with `SurfaceLayout`, `GlassSurfaces` with
`GlassScene`, and `VolumeCore`, which implements `VolumeMirror`. `Parts` joins machines
that never meet, so that one run checks them; it adds no behaviour.

Variables marked *history* belong to no line of code. They record what a property has to
refer to: whether a call failed since the last adopted probe, what a hold has waited, what
was asked and what was launched, why a copy may be behind.

## Runs

Every run explores its instance completely. `PROJECT.json` says for every run what it is
about, and for every property a mutant: a change of a definition, as a bug in the mapped
code would make it, under which TLC finds the property violated.

| Run | Shows |
|---|---|
| `volume` | one failing call and one interfering change anywhere between the calls of any handlers: the cache is exact but for these (`CacheExact`), the mute fallback can be undone until a call fails (`SilencedRemembers`), the cache implements `VolumeMirror` (`MirrorSpec`), and the poll brings a settled endpoint to the cache (`CacheCatchesUp`; the tray need not follow, see below) |
| `config_core` | the store under the egui host, with a legacy file, an editor at every moment, drafts and resets that change the shortcuts, crashes, one failing file operation: the listener follows the configuration, memory is the file but for named moments, a migration or repair keeps the meaning through crashes and restarts, but for the shortcuts of a bare modifier (`MigrationIsFaithful`), a settled edit is adopted |
| `hotkeys_calm` | overlapping presses, auto-repeats, spurious wake-ups, a rebinding that may fail in part, a drop, while nobody types during the rebinding: status tells the truth and a hold has its key (`StatusIsHonest`), one press sends one action, everything settles |
| `tauri_host` | the event loop, both polls, the timers and the pages on both platforms: the manager's active set is what exists and mixer and help exclude each other (`WindowsAgree`), a second launch reveals the mixer, the HUD goes, waits end and an exit happens (`WaitsEnd`) |
| `tauri_stuck` | violation: an edited file and a command at the same moment lock the host up (`NeverStuck`, a finding) |
| `egui_host` | frames under three inputs and one failing action: what is on screen is what the host takes to be (`SurfacesAgree`), the shown volume is the core's (`MirrorFollowsCore`), the HUD goes, and an exit, and only that, ends the program (`EndsComeAbout`) |
| `updates` | two checks, their downloads, two install commands, a failure, a card that opens at any moment: ready means prepared, and the card ends current, but for a copy of the state emitted between its snapshot and its registration (`CardIsCurrent`) |
| `legacy_host` | the native Windows program on three screens: tray, flyout and cache agree (`ConfirmedEverywhere`), a step goes its own way, surfaces and controls have their places (`SurfacesFit`), and it comes to rest |
| `unix_host` | the GTK and the AppKit loop: a state called ready is the device's, one menu surface at a time (`ReadyIsConfirmed`), surfaces catch up and a quit ends the loop |
| `webviews` | the mixer page with two streams and a server that comes and goes, the settings page with saves, closes, outside edits and failures: a settled page shows the host's state (`PagesAgree`), rows follow streams |
| `parts` | the eight parts: copies of the egui settings agree (`CopiesAgree`), a draft changes only by its user, unless the settings were hidden and reopened, and a save writes the draft, but for the keys of a pending preset (`DraftIsTheUsers`); the Save button, the errors and the focus of the native settings window fit its draft, and an Apply leaves alone what nobody edited, but for a material its combo box lacks (`LegacyWindowIsHonest`); the Windows backend (`AudioIsSound`); the Glass surfaces (`GlassIsHonest`); the packages (`PackagesAreWhole`); blacklist and gate (`BlockingIsHonest`); the painted windows (`CardsAreHonest`); and what is computed from texts, scenes and measurements (`ResultsAreRight`) |
| `launches` | three processes, started by hand, by `--quit` or by a sign-in, with one failing call or crash: one instance, also after a crash, quiet sign-ins, and every launch answered where nothing fails |

Several of these properties are conjunctions of parts that belong together, each defined
by itself next to the property: `StatusIsHonest` (status is registration; a hold has its
key), `MemoryAndFileAgree` (memory is persisted; edits are seen), `WindowsAgree` (active
is window; no stacked surfaces), `WaitsEnd` (a wait for the lock ends; an exit happens),
`SurfacesAgree` (root follows mixer; stacking only by toggle), `EndsComeAbout`
(`HudGoes`, `OnlyExitEnds`, `QuitEnds`), `ReadyIsConfirmed` (the ready state is the
device's; menus and keys agree), `LegacyWindowIsHonest` (the Save button, the error and the
focus; the baseline is what runs; others are left alone), `DraftIsTheUsers` (the draft is kept; the
draft is saved), `AudioIsSound` (nothing leaks; calls follow the default;
rows keep their session), `GlassIsHonest` (a gesture acts on the row it aimed at; the
draft's theme is the wanted one; the overlay shows the host's volume and goes),
`CopiesAgree` (the mirror follows; an offer is on disk), `BlockingIsHonest` (the gate is
the list; what is checked is blocked; rows are the programs), `CardsAreHonest`
(`PicturesAreCurrent`, `HeldIsConfirmed`, `HighlightIsThePointers`, `BackdropSettles`,
`RailsAgree`), `ResultsAreRight` (`ReadsItsOwnText`, `WrittenIsRead`, `ChecksAgree`,
`RefusalIsOnesOwn` of the text, `ScenesAreUsable` of the Glass scenes, `ExplanationFits` of
the painted cards).

### Bounds

What users, other programs and failures do is counted and bounded; the handlers are not.
The theorems need none of these bounds.

- `VolumeCore`: volumes 0 to 2, one unit per percent: both clamps and a middle for
  `ResetVolume`. One failure, one interference: the safety part is proved for any number,
  the run keeps the liveness affordable.
- `ConfigStore`: two modifiers, so that a preset can differ; no recorded shortcuts that are no
  preset (`Recorded`), because the other modifier's preset does as well; blacklists clean enough that a
  patch stays savable; four file times. At most three times are in use at once (the
  file's, the recorded one and the one a reload carries), so a fresh one always exists: this
  does not bound the number of writes or edits. One failing file operation.
- `HotkeyListener`: two combinations, three actions of which two repeat, two sets of
  bindings that swap a combination's meaning. Two presses, one rebinding, one failure:
  overlapping presses need two. The queue counts one waiting action, because what matters is
  whether actions wait, not how many.
- `TauriHost`: three inputs, enough for a command, a file edit and an exit or second launch
  to meet, on both platforms.
- `EguiHost`: three inputs and one failing action; two levels of volume, 0 standing for
  muted as well.
- `UpdateManager`: two checks, because what a check can disturb is the download or the
  install that the check before it began; two install commands; one failure; one release.
  Requests that wait in the bounded trigger channel together are one.
- `LegacyHost`: levels 0 to 4 with Reset in the middle, two small steps and a large one,
  three inputs, one failing call; a desktop, a scaled screen too low for flyout and
  overlay together, a small second monitor.
- `UnixHost`: any two inputs, two retries where the code has twenty: what matters is the
  first, a later and none left.
- `WebviewPages`: two streams, three inputs on the mixer page; five on the settings page,
  because a save alone is up to three commands.
- `Launches`: three processes, one mishap.
- `Parts`: four inputs on the egui settings; four gestures on the native settings, from six start
  configurations (`StartDisks`) with every material and both modifiers; three
  audio operations with one failing call and one change, two devices, two sessions of one
  process; three Glass inputs over five sessions in four lists, two queries, volumes 0
  and 50, settings windows of 400, 620 and 1000 by 400 and 620 pixels, around
  the smallest card of 520 by 620; one new publication, versions
  on both sides of 0.1.12, of two to four parts, one of which may be no number, two
  processes, downloads and launches, one mishap; four inputs to a blacklist; three to the
  texts, from four start texts, with 13 lines an editor may add; two cards and one failing
  paint. Each bound is the smallest with which every mutant is caught and every action
  and disjunct fires.

`CHECK_DEADLOCK FALSE` is set where the system stops or the inputs are used up: the
listener ends with a drop, the update manager with the hand-over, a host with its exit, a
process with its end, and a part when nobody does anything any more. `volume` and
`config_core` never stop and are checked for deadlock.

### Fairness

Fairness is assumed only of threads that hold nothing they wait for, and never of users,
other programs or failures.

- `VolumeCore`, `ConfigStore`: a handler that has taken the mutex runs to its end; the
  150 ms poll of the hosts comes round.
- `HotkeyListener`: each thread keeps running; nobody has to press, rebind or drop; a
  sleeping worker is not scheduled unless it is notified.
- `TauriHost`: the event loop, both polls and each timer. A poll with nothing to do is a
  stutter, so weak fairness says that it comes round when there is something.
- `EguiHost`: the frames (the host asks for one every 150 ms) and time.
- `LegacyHost`: weak fairness of each source of messages. Windows hands out posted messages
  before a quit and a quit before timers, which is in the guards.
- `UnixHost`: strong fairness of the two GLib sources, because GLib dispatches every due
  source in an iteration and one callback may be due, over and due again; weak fairness of the
  AppKit round.
- `MixerPage`: the host's main thread, its poll, both roads to the page, the page's timers.
- `Launches`: processes run, hosts poll their events.

`CacheCatchesUp`, `EditsAreAdopted`, `SurfacesCatchUp`, `RowsCatchUp` and the like are
conditional on the world leaving the program alone. While somebody keeps turning the
volume, a particular state need never be cached.

### What a property excepts

Where the code really leaves something behind, the property names the moment by a history
variable, and the mutants show that the exception is not the rule. They are: `doubt` in
`VolumeCore`; `missed`, `saver`, `unsaved`, `behind`, `carried` in `ConfigStore`; `refused`,
`abandoned` in `TauriHost`; `owed` in `Launches`; `over`, `lost`, `demo`, `parkedClose` in
`EguiHost`; `late`, `relabelled` and `Reopened` in `EguiSettings` and `EguiUpdates`; `unsure` and `owned` in
`LegacySettings`; `passedBy` in `UpdateManager`; `unguarded` in `Launches`; `unseen`
in `LegacyHost` and `UnixHost`; `stale`, `unseen`, `note` in `GlassSurfaces`; `stale` in
`WindowsAudio`; `marked` (`Strayed`) in `Packages`; `moved`, `recovered`, `strayed` in
`MixerPage`; `edited`, `half`, `overwritten`, `missed`, `misread`, `unsaved` in
`SettingsPage`; `AsTyped` in `Blocking`; `wiped`, `unheard`, `unarmed` in `LegacyCards`.
Each stands for one of the divergences listed below.

## Proofs

TLAPS checks 18161 obligations in eight modules, from nothing, with no assumption but
those named in the modules that declare the constants. These say what the code fixes: a
scale that divides evenly, integer steps, error texts that are not the ready status,
program names made of the suffixes there are (`exe` and `app` among them), desktops whose
windows bear such names, natural bounds, and `None` apart from everything else. Where a
theorem needs more, its statement says so.

| Module | Theorem | States |
|---|---|---|
| `VolumeCore_proofs` | `TypeCorrect`, `TrayIsTheCache`, `ImplementsMirror`, `CacheIsExact`, `MuteRemembers`, `CliIsHonest` | types; the tray without webviews; `MirrorSpec`; `CacheExact`; `SilencedRemembers`; the command line |
| `ConfigStore_proofs` | `StoreTypeCorrect`, `ListenerIsTold`, `MemoryFollowsFile`, `MigrationKeepsMeaning` | types; `ListenerFollowsConfig`; `MemoryAndFileAgree`; `MigrationIsFaithful` |
| `HotkeyListener_proofs` | `ListenerTypeCorrect`, `StatusTellsRegistration`, `HoldsHaveTheirKeys`, `PressesActOnce` | types; status without any hypothesis; `StatusIsHonest`; `OnePressOneAction` |
| `TauriHost_proofs`: threads and windows | `TauriTypeCorrect`, `AnswersMeetCalls`, `WindowsTellOneStory` | types; an answer meets its call; `WindowsAgree` |
| the same: updates | `TypeCorrect`, `ReadyIsPrepared`, `InstallsExclude`, `DownloadsExclude`, `CardCatchesUp` | types; `ReadyHasPackage`; one install, one download at a time; `CardIsCurrent` |
| the same: launches | `LaunchTypeCorrect`, `OnlyOneInstance`, `SignInsAreQuiet` | types; `OneInstance`; `SignInsStayQuiet` |
| the same: web pages | `PagesStayTrue` | `PagesAgree` |
| `EguiHost_proofs` | `EguiTypeCorrect`, `SurfacesExclude`, `MirrorFollows`, `StaysUntilExit` | types; `SurfacesAgree`; `MirrorFollowsCore`; the safety part of `EndsComeAbout` |
| `LegacyHost_proofs` | `LegacyTypeCorrect`, `ConfirmationReachesAll`, `StepsKeepDirection` | types; `ConfirmedEverywhere`; `StepsItsOwnWay` |
| `VolumeCore_proofs`: GTK and AppKit | `UnixTypeCorrect`, `ShellsConfirm` | types; `ReadyIsConfirmed` |
| `Parts_proofs` | `AudioKeepsItsWord`, `PackagesStayWhole`, `LegacyWindowStaysHonest` | `AudioIsSound`; `PackagesAreWhole`; `LegacyWindowIsHonest` |
| the same: surfaces | `GlassStaysHonest`, `CardsStayHonest` | `GlassIsHonest`; `CardsAreHonest` |
| the same: settings and names | `CopiesStayTogether`, `DraftsStayTheUsers`, `BlockingStaysHonest` | `CopiesAgree`; `DraftIsTheUsers`; `BlockingIsHonest` |
| `FoldFacts` | lemmas only | what a fold over a sequence keeps and what follows from its steps |

`TauriHost_proofs` holds the theorems about the Tauri host's four machines, threads and
windows, updates, launches, web pages, each about its own specification (`Spec`, `UpdateSpec`,
`LaunchSpec`, `PagesSpec`); `VolumeCore_proofs` those about the volume core and, for `UnixSpec`, about
the two superseded Unix hosts. Machines that share a proof module share no state, only the
value `None`.

The inductive invariants, and why the properties need them:

- **Volume.** `TypeOK` is inductive by itself; the interesting leaves are the clamps.
  `CacheExact` speaks of moments when the mutex is free: its invariant adds that a probe nobody
  disturbed still holds the endpoint's volume when its mute flag is read, and that a rollback
  happens only after a call has failed. `ImplementsMirror` maps every step of a handler to a
  look, an adoption, a move or a stutter of `VolumeMirror`, with `probe` as the glimpse: the
  formal version of "no target and no guess enters the cache". `MuteRemembers` follows the
  remembered volume through the calls of a mute and of an unmute, where it is in `arg` and
  not in `restore`; it holds until the first failed call.
- **Configuration.** What is carried through a handler: between the change of memory and the
  end of the handler the listener and the file may lag, and `pc` says how far. `MemoryInv`,
  `FileInv` and `RepairInv` say for each step which of memory, file and recorded time are
  already new. `MigrationKeepsMeaning` holds for every legacy file: `carried` says whether
  `config.ini` was last written by a migration or by a repair, which spell a bare modifier's
  shortcuts differently, and the invariant follows that through a crash between the write and the load.
- **Shortcuts.** `Collects` and `Registered` relate the ids being registered, the table and
  the status while `set_bindings` is half-way; hence the status theorem with keys pressed
  all along. The hold and the press need `Calm`, that bindings change with hands off the
  keyboard: `InOrder` and `DownAt` place every event still on its way in the order of the
  keyboard, and `OwnersHold` says whose stores of `start()` and `stop()` are still to come.
- **Tauri host.** `AnswersFindCalls`: a posted call has one caller that waits or one that has
  given up. `Agree`: for every surface the active set is the window that exists, but for the
  posted operation that is to change it.
- **Updates.** `PackageStays`: a prepared package is never taken away, so whoever has once
  seen the phase ready may rely on it. `FlagsHold`: a thread that works has its flag set.
  `CardFollows`: every copy of the state on its way has a revision at most the state's, and the
  same only if it is the state; a card that has had its answer shows the state unless some
  thread has it still to emit. The revision makes that inductive. `UpdateCard` sends the
  registration of its listener before the request for the snapshot, but does not wait for it.
  Should the host answer the snapshot first, an event in between is lost and the card stays
  behind until the next one: `passedBy` is the newest revision lost in this way, and `CardCatchesUp`
  excepts a card older than that.
- **egui host.** The queue between the core and the frames may be of any length, so the invariant
  `EguiInv` says what it tells: `Told`, that the last event that speaks of a volume speaks of
  the cache's, and that without one the volume shown is the cache's already. With the queue
  empty that is `MirrorFollowsCore`. `Parked` holds in every phase of a frame, not only between
  frames: a root on screen without the mixer has its close event in the queue, and every event
  before that one leaves it there or brings the mixer or its root along. `Stays` follows a
  close request from the phase that should cancel it to the end of the frame. The drain of
  the queue is one event per step, and an event at a time keeps `Told`.
- **Native Windows program.** `LegacyInv`: what was read last is the device unless `unseen`
  names the reason (`Read`), the rail of an open flyout is what was read last (`Rail`), and
  its thumb is too unless a drag is among the posted messages (`Thumb`). Every handler either
  publishes or leaves all three alone, and only the handler of a drag takes a drag away: it
  publishes. `StepsKeepDirection` then needs `Read`, that a clamp keeps the order of two
  levels, and that no other step takes from the queues.
- **GTK and AppKit.** `UnixInv` says where the state may lag behind the device: on macOS only
  within a round, on Linux never while it is called ready; and that a lost device is never
  ready.
- **Launches.** The mutex's owner is a process that has not gone (`LaunchTypeOK` with the
  events somebody holds open). `OwnersHold`: every instance holds the mutex or was let through
  because none could be created (`unguarded`), and the kernel gives the mutex to one; a crash or a
  log-off only takes holders away. `EntryMends` follows a sign-in entry of an older version from
  the first process that reads it to the one that rewrites it.
- **Web pages.** `PagesInv` says what the roads of any length carry. The mixer page
  (`MixerInv`): the last volume event on its way speaks of the core's volume, and without one
  the page has it, or the one bootstrap answer brings it (`VolumeTold`; a page that heard an
  event before that answer, `raced`, keeps the event's); the same of the backend's status
  (`HealthTold`, `AlarmIsTrue`); and a thumb away from the page's volume waits for an event or
  a command that is still on a road (`ThumbWaits`). The settings page (`SettingsInv`): an open
  page has at most one command or answer of a save under way, and a closed one none that it
  will hear (`OwnCommands`); and for each stage of a save, what memory and registration
  already are and what is still to be sent (`SaveTold`: `SendsUpdate`, `SendsModifier`,
  `SendsAutostart` for a command, `EndsStep` for an answer). With nothing to be sent that is
  the saved draft, which becomes the baseline.
- **Windows audio.** `AudioInv` counts the references of each kind exactly at each stage of an
  operation (`Holding`), says which thread is in which apartment, and records what the world
  did since the round of calls began (`RoundSoFar`): that is what makes "a call that succeeds
  was made on a default of its round" inductive.
- **Packages.** `PackagesInv` says where the bytes of each file come from (`Sources`), what an
  offer still holds against a page published anew, and that a readiness marker was written by
  the helper the host waits for or by a strayed one. `TriplesCompare` and
  `OffersAreNewer` compare versions, whatever their numbers.
- **Native settings window.** `WindowInv` joins the property with what carries it: the config
  in memory and the one on the disk pass the checks of a load, so a reload, a reset or a save
  always yields a draft whose error `None` agrees with the line shown; and `touched` and
  `unsure` say when file and button are allowed to lag. Its three parts are what a gesture
  alters (`WindowHolds`), what the host alters (`HostHolds`) and the counters. `OwnedInv` follows
  each field nobody has worked on: draft and control have the baseline's value, or what a combo
  box without it reads as.
- **egui settings.** `EguiInv` (of `Parts_proofs`) says what the queue tells the frame that
  will drain it: the last overlay event carries the core's configuration, and without one the
  mirror has it already, unless `late` names the reason (`QueueTells`); a settings window that
  is shown has no close event in the queue (`ClosedAtOnce`); a download is of the release the
  card names, unless a check has relabelled the card (`LabelHolds`). The frame drains the
  whole queue in one fold; that the mirror ends at the last overlay's configuration is
  `FoldFollows` of `FoldFacts` with the frame's own step. That an open draft outlives the queue, if
  nothing in it hides and reopens the settings (`Spares`), is a second such relation, `DrainFollows`.
- **Blacklist.** `BlockInv`: saved entries and the rows of the picker are normalized, what was
  typed consists of names, the focus is on a window or on none. Taking off a suffix and putting it back is where gate and picker
  could part; `StripNormal` and `StripTells` say that two normalized names that agree without
  their suffix are one. `RowsTold` follows the fold over
  the windows: each program has one row, and each window that can be picked has a row with a
  title if it has one.
- **Liquid Glass.** `GlassInv`: an overlay that is up shows what was published unless `note` or
  `unseen` says why not, and is younger than its limit (`HudFits`); the panel's draft has the
  theme that is wanted, the user's or the host's (`PanelFits`); and a gesture acts on the
  session it was aimed at (`AimHolds`). For that, `PressesStayOnTheirRail` shows for any number
  of sessions that what answers a press on a rail, if anything does, belongs to that rail.
- **Painted windows.** `CardsInv`: a window that owes no painting shows what it holds
  (`FlyoutFits`, `CapsuleFits`, `CardFits`), and what it holds is the program's state until
  something it has not heard of (`FlyoutHolds`, `CardHolds`). `RailsAgree`, that hit test and
  picture place the thumb alike, is arithmetic over all levels.

Proving corrected the models twice, where the invariant found what no run of the size at
hand had:

- `WindowsAudio`: an endpoint that became invalid before the round, and whose device came back
  under its old id, uses up the one retry; a change of the default in the same round is then not
  followed. The history `stale` names it and `FollowsDefault` excepts it.
- `Packages`: a helper started by an earlier process, still waiting for the script's lock, can
  write the readiness marker a new process is waiting for. The new process then leaves for a
  helper that has not taken over. The history `marked` and `Strayed` name it.

Induction over a sequence is not out of reach, only its theorem in the library is:
`FoldFacts` proves, for a step that is a constant of the module, how a fold unfolds
(`FoldIsFunction`), and that a relation between a sequence and a value that each step keeps
relates the sequence to its fold (`FoldFollows`). `Parts_proofs` takes two instances, with the
frame's step and the picker's.

Model-checked only: all liveness (it needs fairness and `ENABLED`, which the prover does not
handle); what reading and writing a whole text computes (`ResultsAreRight` for the text: four
nested folds over lines, whose step is another parser for each section); and computations over
the constants (`SurfacesFit`, and `ScenesAreUsable` and `ExplanationFits` of
`ResultsAreRight`: the run evaluates them on the code's own measurements, which is all there
is to know).

## Assumptions about the world

What is not in the repository is modelled from how the code uses it, and marked external in
`PROJECT.json`.

- **Tauri host**: synchronous commands and tray events run on the main thread; a menu item or a
  native HUD called from another thread waits for it without a limit; `destroy` is posted
  and a window's label is taken until `Destroyed`. The two FIFO roads of the pages are Tauri's
  IPC answers and events.
- **Windows**: posted messages come before a quit, a quit before timers; a tray popup pumps
  messages; a disabled window refuses the focus; when a window is painted, told of the pointer
  or of its leaving is Windows' choice. DWM overrides the backdrop of a window just shown under
  high contrast; `mixer.rs` and `help.rs` give the measurements. Named mutexes and events are
  those of Win32.
- **egui host**: the core lives on the thread of the frames, so the queue fills only while a
  frame runs; a frame comes at least every 150 ms.
- **GTK, AppKit**: GLib dispatches every due source in an iteration; AppKit runs one round
  after an event or 150 ms.
- **Audio**: devices and sessions change between any two calls, any call may fail, an interface
  of a device that went stays invalid also when the device comes back under its id.
  `S_FALSE` of `CoInitializeEx` is never uninitialized (`com_guard.rs` says so). For `UnixHost`
  a call may report a lost device, as the trait allows, though `LinuxAudio` itself reports `Io`
  only.
- **Glass**: no program links the crate; windows and the answers of the host are its tests'.
- **Packages**: a program is torn only by a kill inside a copy; the Windows setup is one
  step; `update-state.json` is readable.
- **Legacy painted windows**: the positions of pointer and windows are disjoint cases; one
  `theme` stands for theme, accent and language.

## Where the code and its documentation part

`tauri_stuck` is a finding in `PROJECT.json`, with the line and the sentence it
contradicts. The models show more, which no run repeats; the properties except exactly these
cases. Some are contradictions of a comment, others only what a reader would not expect.

`AppCore` and its stores:

- `TrayShowsCache` fails once a webview may mount: `bootstrap` refreshes `last_state` without
  telling the tray, and the poll compares with `last_state` (`host_core.rs:397`).
- A failed unmute forgets the volume that mute had remembered (`host_core.rs:950`).
- `ListenerAlwaysFollows` fails: `update_settings` compares with memory that a draft or a reset has
  already changed, so shortcuts in use are not re-registered (`host_core.rs:1137`; the doc at
  667 says they are).
- `EveryEditIsSeen` fails: an edit between an own save and the reading of its time is taken
  for the save, though the repository's README promises that edits are applied.
- `MemoryIsSavable` fails: a patch may put an entry with a line break into the blacklist; later
  saves are refused until it is gone.
- `BareModifierIsUpgraded` fails: a migrated legacy file that names only a modifier is written with
  the default shortcuts before it is normalized (`config_ini.rs` 270, 380), though the comments at
  `config.rs` 251 and 764 promise the modifier's preset.
- `LiveReloadKeepsLastGood` fails when a malformed `config.ini` meets a valid `config.json`.
- `config.ini`: a `[hotkeys]` section above the modifier that leaves shortcuts out is filled from
  the preset of `CtrlAlt`; a file may hold thresholds that are out of order or above 100, and every save of
  the egui window is then refused (drawing the Appearance tab alters the draft instead); the
  overlay's 200 to 499 ms pass the file, the core and the row, and the egui window refuses them
  (`model.rs`); the comment about `normalize` at `config.rs` 618 is not what `load_ini` does;
  a language nobody knows is an error, not English; a refusal for a shortcut turns to a tab whose
  rows do not show it (`config.rs` 659); a save loses comments and unknown keys; changing
  only `modifier=` in a complete file changes no shortcut.
- Recorder: a key without a name records `Unidentified`, which no save accepts and no message
  explains; recording goes on when the tab changes.
- Blacklist: the X11 fallback on Linux is never reached when `xprop` or `wmctrl` cannot be run,
  so the gate is open; `/proc` cuts names to 15 bytes; the web page keeps entries as typed
  after a save, so its picker shows unchecked what the gate stops (`AsTyped`); an empty
  entry in an edited file normalizes to `.exe` on Windows; the egui text field loses its
  text in every frame (`views.rs`, about 497).

Shortcuts (`hotkeys_global.rs`):

- `FirstRepeatWaits` fails: a press during another hold ends that hold's wait, and the first repeat
  comes early (line 139; comments at 238 and 833).
- `HeldKeyRepeats` and `DropEnds` fail: a notification without the mutex can fall between the
  worker's test and its wait; the held key does not repeat, the drop does not end (139, 535).
- `KeysUpMeansQuiet` fails without `Calm`: `set_bindings` stops the hold before it replaces
  the table, and a press in between starts a hold whose release is never recognized.

Tauri host, updates and launches:

- An overlay opened by a post whose caller had given up has no hide timer; the timer of an earlier
  payload may close a newer HUD; an open is refused while the label is being destroyed.
- `ListensFirst` fails: the card asks for the snapshot without waiting for its listener
  (`UpdateCard.tsx`; "Listen first to prevent race", line 22).
- `FailedCheckKeepsReady` fails: the comment says a failed check retains `Ready`, but the phase
  is `Checking` by then (`update_manager.rs:319`). `LaunchedIsExpected` fails: what is installed may
  be another release than the confirmed one (383 against 506). A release found while another
  downloads is announced as available and not downloaded until the next check; a downloader
  that cannot be spawned leaves `is_downloading` set for good. `UpdateCard` calls
  `install_update` with `expected_version`, the command's argument arrives under Tauri's
  default naming; the model takes the call as received.
- Packages: after the host has left, a failed verification leaves the user without a running
  program; two scripts may both reclaim one stale lock (`rm -rf` of the other's); the egui
  Windows helper does not verify again; a bad file keeps the package's name, because it is
  checked after the rename; leaving between showing and storing an announcement announces it
  again; the readiness marker has no owner.
- Launches: the egui host never mends old sign-in entries; a secondary that briefly holds the
  mutex turns another launch away though the instance has ended; an event set while only a dying
  process holds it is lost.

Web pages:

- The comment in `sessionStore.ts` (132) that an event is newer than the bootstrap does not
  hold when the event was sent first, or when the bootstrap itself refreshed the state silently.
- A backend event before a degraded bootstrap leaves the notice for good; a failed `set_volume` is
  swallowed and leaves the slider off; a volume that arrives during a drag never reaches the
  slider; a re-sort ends a drag; a failed session write removes a live row until the next refresh.
- Settings: a save that fails half-way leaves the baseline behind, and a later one may skip
  `set_modifier`; `set_modifier` after the save overwrites recorded keys; the answer of `get_autostart`
  is ignored; every field is sent, so an outside edit not yet loaded is overwritten; status
  events between bootstrap and listener are lost.

egui host:

- The mixer's shortcut puts the mixer beside an open modal surface; `mixer_seen_focus` outlives a
  window; a close request that reaches the parked root ends the program; the shortcut for the
  menu does nothing; a left click on the tray shows and never toggles; the HUD is shown for
  outside changes, and has no deadline when it came with `--surface=overlay`.
- `OpensOnRunningConfig` fails: an overlay event carries the configuration of its queuing, and
  a draft opens on it (`app.rs:683` against `settings/model.rs:66`). A preset pending from a
  window left by Escape, or overruled by a recorded shortcut, is applied by the next save
  (`SavesWhatIsShown` fails, `app.rs` 1024 to 1065).
- `EditsSurviveEvents` fails: opening the mixer or the help hides the settings window, and opening
  that again, even in the same queue, starts a new draft (`app.rs` 407 to 432, 644 to 651).
- Sliders of the mixer are named by position: a re-sort during a drag moves it to another row.

Native Windows program:

- `CleanDraftCannotSave` fails: the combo box of the materials has three entries (`settings.rs:1655`),
  `material_index` goes to 7 (2177); with any other material an untouched window has Save enabled,
  though 2594 says otherwise, and an Apply makes the material `Auto`.
- `UntouchedFollowsReloads` and `TypingSurvivesReloads` fail: a reload moves the baseline before it
  asks whether the draft is dirty, and typing is not in the draft until Apply (`settings.rs:1784`
  says that a reload never clobbers it).
- Save may be disabled while it has the focus; the label of the accent overlaps (about 608).
- The update check blocks the only thread; the HUD keeps its level after an outside change;
  the help card's buttons are not scaled at the scale it was created at (`help.rs` 37, 751).
- Painted windows: the mixer opened under the pointer keeps its cross lit until it is hidden
  (`unarmed`); help may be shown blank for a moment under high contrast (`wiped`), a reload of
  configuration or theme repaints help only when it is shown again (`unheard`); help's chips show
  the modifier's preset, not recorded keys; a third line of the explanation would overlap the
  second with much wider fonts.

GTK, AppKit, Glass:

- The GTK host's reload parses `config.ini` as JSON: edits are never adopted, and tried again
  in every poll (`linux_app.rs:109`); the first audio error is never cleared from the degraded
  list; a patch that fails half-way stays in memory; after twenty polls nobody looks for
  a sound server again. The AppKit reload leaves accent and language; its surfaces do not exclude
  each other. The trait's "clamp and unmute" (`audio/mod.rs:87`) is only Windows'.
- `SlidersTakeTheirPresses` fails: where the fill covers a Glass slider, the hit test answers with the
  fill (`hit_test.rs` 12), which the surface ignores (`mixer.rs` 120).
- Glass: hiding a root leaves its children visible in a retained scene; `SettingsState` reads the
  volume step as 2 whatever is saved (`settings.rs:101`), and the next save writes that; a save
  clears the dirty mark before it is confirmed; a reset leaves the draft dirty; row ids are
  positions.

## Not modelled

- Pixels: renderers, fonts, blur, springs, styles; whether a paint fails and is tried again is in
  `LegacyCards`.
- Texts: locales, tray texts, formatting of notices.
- The help page of the web frontend, the update check and the popup of the Tauri tray, changes of
  language, sessions in the hosts that have rows of their own (their sources are in
  `WindowsAudio` and `MixerPage`), the search field, the E2E and smoke switches.
- The wheel hook itself: two atomics and a posted message, which `LegacyHost` and `EguiHost` take
  as an input.
- macOS's part of packages; install receipts; the crash log and the signal handlers, which only write.
- Packaging, shipping and test scripts, vendored and generated files.

## Plan

Done: the inventory, every component above, the runs and the proofs of the table. What a
continuation would take up:

1. The search field of the painted mixer, and the wheel bridge as its own machine, once they
   keep more than a flag.
2. A weaker memory order for `HotkeyHold`.
