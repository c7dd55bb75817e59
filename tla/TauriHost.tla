------------------------------ MODULE TauriHost ------------------------------
(***************************************************************************)
(* The threads of the Tauri host and the windows they share: the main       *)
(* thread runs the event loop, the synchronous commands and the tray menu;  *)
(* the fast poll takes hotkeys and second launches, the slow poll takes     *)
(* edits and external volume changes (src-tauri/src/lib.rs).  Window        *)
(* operations belong to the main thread: another thread posts them and      *)
(* waits (window_manager.rs), while it may hold the core's lock that a       *)
(* command on the main thread waits for.                                    *)
(*                                                                         *)
(* A command on the main thread is one step once it has the lock: nothing   *)
(* in it waits for another thread.  An asynchronous command is a step of    *)
(* the main thread at any later moment, for its post may be late.           *)
(***************************************************************************)
EXTENDS Integers, Sequences, Absent

CONSTANTS
    Platforms,  \* TRUE for Windows (native HUD and tray), FALSE for Linux and macOS
    MaxInputs   \* bound: what users, other programs and the system do in a behaviour

ASSUME PlatformsAssumption == Platforms \subseteq BOOLEAN
ASSUME BoundAssumption == MaxInputs \in Nat
ASSUME NoneAssumption == None \notin {"fast", "slow", "mixer", "settings", "help", "overlay"}

Surfaces == {"mixer", "settings", "help", "overlay"}
Polls    == {"fast", "slow"}
Call(op, s) == [op |-> op, surface |-> s]
By(call, t) == [op |-> call.op, surface |-> call.surface, by |-> t]

VARIABLES
    windows,  \* the platform, chosen at the start
    core,     \* the poll that holds the core's lock, or None
    main,     \* the call the main thread waits for the lock with, or None
    wm,       \* WindowManager and event loop: each window's stage, the active
              \*   set, the posted calls, whether the overlay's page has heard a payload
    job,      \* the sink calls each poll has still to make
    wait,     \* a poll's current call: run, timed, forever, ok or err
    hud,      \* TauriSink: overlay_seq and the armed hide timers
    hotkeys,  \* the hotkey and wheel channels
    edited,   \* the configuration file has a new time
    changed,  \* the volume was changed outside
    launch,   \* the ShowMixer event
    exit,     \* the Exit event, EXIT_REQUESTED, the fast poll has ended, the process is gone
    inputs,
    asked,    \* history: somebody asked to exit
    refused,  \* history: an open met a window that was being destroyed
    abandoned \* history: an overlay's open ran after its caller had given up

vars == <<windows, core, main, wm, job, wait, hud, hotkeys, edited, changed,
          launch, exit, inputs, asked, refused, abandoned>>
threads == <<core, main, job, wait>>
signals == <<hotkeys, edited, changed, launch>>
history == <<asked, refused, abandoned>>

Live == {"new", "booted", "shown"}

-----------------------------------------------------------------------------
(* The window manager, as functions of its state w. *)

MixerKeepsHelp(s) == IF s \in {"help", "settings"} THEN {"mixer"} ELSE {}
ClosesBeforeOpening(s) ==
    CASE s \in {"help", "settings"} -> {"mixer"}
      [] s = "mixer"                -> {"help"}
      [] OTHER                      -> {}

\* destroy() only posts the destruction: the label stays taken until it is handled.
CloseImpl(w, s) ==
    [w EXCEPT !.active = @ \ {s},
              !.win[s] = IF @ \in Live THEN "dying" ELSE @,
              !.posted = IF w.win[s] \in Live THEN Append(@, By(Call("destroy", s), None)) ELSE @]

\* No surface displaces more than one other.
ClearedFor(w, s) ==
    LET rivals == ClosesBeforeOpening(s) \cap w.active
    IN  IF rivals = {} THEN w ELSE CloseImpl(w, CHOOSE r \in rivals : TRUE)

\* A window being destroyed is neither shown again nor built anew.
Refuses(w, s) == w.win[s] = "dying"

OpenImpl(w, s) ==
    LET c == ClearedFor(w, s)
    IN  IF Refuses(c, s) THEN c
        ELSE IF s \in c.active /\ c.win[s] \in Live THEN [c EXCEPT !.win[s] = "shown"]
        ELSE [c EXCEPT !.win[s] = "new", !.active = @ \cup {s},
                       !.heard = IF s = "overlay" THEN FALSE ELSE @]

Toggled(w, s) == IF s \in w.active THEN CloseImpl(w, s) ELSE OpenImpl(w, s)

\* The Destroyed event of the window.
Destroyed(w, s) == [w EXCEPT !.win[s] = "none", !.active = @ \ {s}]

ArmedStale(h) == [seq |-> h.seq + 1, timers |-> h.timers \cup {h.seq}]
\* TauriSink::overlay once the window is open: the payload reaches the page if it
\* listens already, the counter moves on and a hide timer is armed.
Armed(h) == [seq |-> h.seq + 1, timers |-> h.timers \cup {h.seq + 1}]
Heard(w) == {w} \cup {[w EXCEPT !.heard = w.win["overlay"] \in Live]}

Posted(w, call, t) == [w EXCEPT !.posted = Append(@, By(call, t))]

Idle == main = None /\ ~exit.gone
Notes(w, s) == refused' = (refused \/ Refuses(w, s))

Closed == [win |-> [s \in Surfaces |-> "none"], active |-> {}, posted |-> <<>>, heard |-> FALSE]

\* A launch by the user opens the mixer, one at login does not.
Init ==
    /\ windows \in Platforms
    /\ core = None /\ main = None
    /\ wm \in {Closed, OpenImpl(Closed, "mixer")}
    /\ job = [t \in Polls |-> <<>>] /\ wait = [t \in Polls |-> "run"]
    /\ hud = [seq |-> 0, timers |-> {}]
    /\ hotkeys = <<>> /\ edited = FALSE /\ changed = FALSE /\ launch = FALSE
    /\ exit = [event |-> FALSE, requested |-> FALSE, ended |-> FALSE, gone |-> FALSE]
    /\ inputs = 0
    /\ asked = FALSE /\ refused = FALSE /\ abandoned = FALSE

-----------------------------------------------------------------------------
(* What users, other programs and the system do. *)

Input == ~exit.gone /\ inputs < MaxInputs /\ inputs' = inputs + 1

Hotkey(call) ==
    /\ Input /\ hotkeys' = Append(hotkeys, call)
    /\ UNCHANGED <<windows, threads, wm, hud, edited, changed, launch, exit, history>>

Edit ==
    /\ Input /\ ~edited /\ edited' = TRUE
    /\ UNCHANGED <<windows, threads, wm, hud, hotkeys, changed, launch, exit, history>>

VolumeKey ==
    /\ Input /\ ~changed /\ changed' = TRUE
    /\ UNCHANGED <<windows, threads, wm, hud, hotkeys, edited, launch, exit, history>>

SecondLaunch ==
    /\ Input /\ windows /\ ~launch /\ launch' = TRUE
    /\ UNCHANGED <<windows, threads, wm, hud, hotkeys, edited, changed, exit, history>>

ExitEvent ==
    /\ Input /\ windows /\ ~asked /\ asked' = TRUE
    /\ exit' = [exit EXCEPT !.event = TRUE]
    /\ UNCHANGED <<windows, threads, wm, hud, signals, refused, abandoned>>

\* A synchronous command of a page or the tray menu, on the main thread.
Commands == {Call("volume", None), Call("toggle", "mixer"), Call("open", "help"),
             Call("open", "settings"), Call("exit", None)}
Command(call) ==
    /\ Input /\ Idle /\ main' = call
    /\ UNCHANGED <<windows, core, wm, job, wait, hud, signals, exit, history>>

\* Esc or lost focus closes the mixer; the mixer's links open the others.
CloseSurface ==
    /\ Input /\ Idle /\ wm.win["mixer"] = "shown"
    /\ wm' = CloseImpl(wm, "mixer")
    /\ UNCHANGED <<windows, threads, hud, signals, exit, history>>

OpenSurface(s) ==
    /\ Input /\ Idle /\ wm.win["mixer"] = "shown" /\ s \in {"settings", "help"}
    /\ wm' = OpenImpl(wm, s) /\ Notes(wm, s)
    /\ UNCHANGED <<windows, threads, hud, signals, exit, asked, abandoned>>

\* The close button: the surface stays active until Destroyed.
Dying(w, s) == [w EXCEPT !.win[s] = "dying", !.posted = Append(@, By(Call("destroy", s), None))]
CloseButton(s) ==
    /\ Input /\ Idle /\ s # "overlay" /\ wm.win[s] = "shown"
    /\ wm' = Dying(wm, s)
    /\ UNCHANGED <<windows, threads, hud, signals, exit, history>>

-----------------------------------------------------------------------------
(* The main thread. *)

\* request_exit: the mark, then the posted exit.
Requested(e) == [e EXCEPT !.requested = TRUE]
ExitPosted(w) == [w EXCEPT !.posted = Append(@, By(Call("exit", None), None))]

\* SIGTERM: the signal thread.
Signal ==
    /\ Input /\ ~windows /\ ~asked /\ asked' = TRUE
    /\ exit' = Requested(exit) /\ wm' = ExitPosted(wm)
    /\ UNCHANGED <<windows, threads, hud, signals, refused, abandoned>>

\* The command has the lock: handle_action, its sink calls made in place.
Locked == main # None /\ core = None /\ ~exit.gone /\ main' = None

RunVolume ==
    /\ Locked /\ main.op = "volume"
    /\ IF windows THEN UNCHANGED <<wm, hud, refused>>
       ELSE LET w == OpenImpl(wm, "overlay")
            IN  /\ Notes(wm, "overlay")
                /\ IF Refuses(wm, "overlay") THEN wm' = w /\ UNCHANGED hud
                   ELSE wm' \in Heard(w) /\ hud' = Armed(hud)
    /\ UNCHANGED <<windows, core, job, wait, signals, exit, inputs, asked, abandoned>>

RunSurface ==
    /\ Locked /\ main.op \in {"toggle", "open"}
    /\ wm' = IF main.op = "toggle" THEN Toggled(wm, main.surface) ELSE OpenImpl(wm, main.surface)
    /\ IF main.op = "toggle" /\ main.surface \in wm.active THEN UNCHANGED refused
       ELSE Notes(wm, main.surface)
    /\ UNCHANGED <<windows, core, job, wait, hud, signals, exit, inputs, asked, abandoned>>

RunExit ==
    /\ Locked /\ main.op = "exit"
    /\ asked' = TRUE /\ exit' = Requested(exit) /\ wm' = ExitPosted(wm)
    /\ UNCHANGED <<windows, core, job, wait, hud, signals, inputs, refused, abandoned>>

RunBootstrap ==
    /\ Locked /\ main.op = "boot"
    /\ wm' = [wm EXCEPT !.win[main.surface] = IF @ = "new" THEN "booted" ELSE @]
    /\ UNCHANGED <<windows, core, job, wait, hud, signals, exit, inputs, history>>

\* A new page asks for its bootstrap, then reports that it is ready.
Bootstrap(s) ==
    /\ Idle /\ wm.win[s] = "new" /\ main' = Call("boot", s)
    /\ UNCHANGED <<windows, core, wm, job, wait, hud, signals, exit, inputs, history>>

SurfaceReady(s) ==
    /\ Idle /\ wm.win[s] = "booted" /\ wm' = [wm EXCEPT !.win[s] = "shown"]
    /\ UNCHANGED <<windows, threads, hud, signals, exit, inputs, history>>

\* The overlay's own timer, armed by a payload it heard.
PageTimer ==
    /\ Idle /\ wm.heard /\ wm.win["overlay"] \in Live
    /\ wm' = [Dying(wm, "overlay") EXCEPT !.heard = FALSE]
    /\ UNCHANGED <<windows, threads, hud, signals, exit, inputs, history>>

\* ExitRequested: prevented unless the exit was marked.
ExitRequested(e) == [e EXCEPT !.gone = e.requested]

Post1 == Head(wm.posted)
Served == Idle /\ wm.posted # <<>>
Rest == [wm EXCEPT !.posted = Tail(@)]
Answer(r) == wait' = [t \in Polls |-> IF t = Post1.by THEN r ELSE wait[t]]

ServeOpen ==
    /\ Served /\ Post1.op = "open"
    /\ wm' = OpenImpl(Rest, Post1.surface)
    /\ Notes(Rest, Post1.surface)
    /\ Answer(IF Refuses(Rest, Post1.surface) THEN "err" ELSE "ok")
    /\ abandoned' = (abandoned \/ (Post1.surface = "overlay" /\ Post1.by = None))
    /\ UNCHANGED <<windows, core, main, job, hud, signals, exit, inputs, asked>>

ServeClose ==
    /\ Served /\ Post1.op = "close"
    /\ wm' = CloseImpl(Rest, Post1.surface) /\ Answer("ok")
    /\ UNCHANGED <<windows, core, main, job, hud, signals, exit, inputs, history>>

\* A tray item, or the messages a window operation sends.
ServeItem ==
    /\ Served /\ Post1.op \in {"tray", "hud"}
    /\ wm' = Rest /\ Answer("ok")
    /\ UNCHANGED <<windows, core, main, job, hud, signals, exit, inputs, history>>

\* The last window to go raises ExitRequested too.
ServeDestroy ==
    /\ Served /\ Post1.op = "destroy"
    /\ wm' = Destroyed(Rest, Post1.surface)
    /\ exit' = IF \A s \in Surfaces : wm'.win[s] = "none" THEN ExitRequested(exit) ELSE exit
    /\ UNCHANGED <<windows, threads, hud, signals, inputs, history>>

ServeExit ==
    /\ Served /\ Post1.op = "exit"
    /\ wm' = Rest /\ exit' = ExitRequested(exit)
    /\ UNCHANGED <<windows, threads, hud, signals, inputs, history>>

-----------------------------------------------------------------------------
(* The polls. *)

Free(t) == ~exit.gone /\ job[t] = <<>> /\ wait[t] = "run"
Alive == ~exit.ended

FastExit ==
    /\ Free("fast") /\ Alive /\ core # "fast" /\ exit.event
    /\ exit' = [Requested(exit) EXCEPT !.event = FALSE, !.ended = TRUE]
    /\ wm' = ExitPosted(wm)
    /\ UNCHANGED <<windows, threads, hud, signals, inputs, history>>

FastLaunchIfFree ==
    /\ Free("fast") /\ Alive /\ core # "fast" /\ ~exit.event /\ launch
    /\ launch' = FALSE
    /\ job' = IF core = None THEN [job EXCEPT !["fast"] = <<Call("open", "mixer")>>] ELSE job
    /\ UNCHANGED <<windows, core, main, wm, wait, hud, hotkeys, edited, changed, exit, inputs, history>>

\* A second launch is served before the lock is tried.
FastLaunch ==
    /\ Free("fast") /\ Alive /\ core # "fast" /\ ~exit.event /\ launch
    /\ launch' = FALSE
    /\ job' = [job EXCEPT !["fast"] = <<Call("open", "mixer")>>]
    /\ UNCHANGED <<windows, core, main, wm, wait, hud, hotkeys, edited, changed, exit, inputs, history>>

\* A poll that finds the lock taken, or nothing to do, sleeps: it changes nothing.
FastLock ==
    /\ Free("fast") /\ Alive /\ core = None /\ ~exit.event /\ ~launch /\ hotkeys # <<>>
    /\ core' = "fast"
    /\ UNCHANGED <<windows, main, wm, job, wait, hud, signals, exit, inputs, history>>

Publish(overlay) == <<Call("tray", None)>> \o (IF overlay THEN <<Call("hud", None)>> ELSE <<>>)

FastDrain ==
    /\ Free("fast") /\ core = "fast" /\ hotkeys # <<>>
    /\ hotkeys' = Tail(hotkeys)
    /\ job' = [job EXCEPT !["fast"] = IF Head(hotkeys).op = "volume" THEN Publish(TRUE)
                                      ELSE <<Head(hotkeys)>>]
    /\ UNCHANGED <<windows, core, main, wm, wait, hud, edited, changed, launch, exit, inputs, history>>

\* A reload publishes the state it reads, which covers an external change too.
SlowPoll ==
    /\ Free("slow") /\ core = None /\ (edited \/ changed)
    /\ core' = "slow"
    /\ job' = [job EXCEPT !["slow"] = Publish(edited)]
    /\ edited' = FALSE /\ changed' = FALSE
    /\ UNCHANGED <<windows, main, wm, wait, hud, hotkeys, launch, exit, inputs, history>>

Unlock(t) ==
    /\ Free(t) /\ core = t /\ (t = "fast" => hotkeys = <<>>)
    /\ core' = None
    /\ UNCHANGED <<windows, main, wm, job, wait, hud, signals, exit, inputs, history>>

\* The poll's next sink call: post it and wait, for 10 s or without limit.
Head1(t) == Head(job[t])
Calls(t) == ~exit.gone /\ job[t] # <<>> /\ wait[t] = "run"
Window(t) ==
    CASE Head1(t).op = "hud"    -> Call("open", "overlay")
      [] Head1(t).op = "toggle" -> Call(IF "mixer" \in wm.active THEN "close" ELSE "open", "mixer")
      [] OTHER                  -> Head1(t)

CallItem(t) ==
    /\ Calls(t) /\ Head1(t).op = IF windows THEN "hud" ELSE "tray"
    /\ wm' = Posted(wm, Head1(t), t)
    /\ wait' = [wait EXCEPT ![t] = "forever"]
    /\ UNCHANGED <<windows, core, main, job, hud, signals, exit, inputs, history>>

CallWindow(t) ==
    /\ Calls(t) /\ Head1(t).op \in {"open", "toggle"} \cup (IF windows THEN {} ELSE {"hud"})
    /\ wm' = Posted(wm, Window(t), t)
    /\ wait' = [wait EXCEPT ![t] = "timed"]
    /\ UNCHANGED <<windows, core, main, job, hud, signals, exit, inputs, history>>

CallTray(t) ==
    /\ Calls(t) /\ windows /\ Head1(t).op = "tray"
    /\ job' = [job EXCEPT ![t] = Tail(@)]
    /\ UNCHANGED <<windows, core, main, wm, wait, hud, signals, exit, inputs, history>>

WaitOn(t) == FALSE
\* recv_timeout: the main thread answers in time unless it waits for the lock.
\* The posted call stays posted.
GiveUp(t) ==
    /\ ~exit.gone /\ wait[t] = "timed" /\ main # None
    /\ wait' = [wait EXCEPT ![t] = "err"]
    /\ wm' = [wm EXCEPT !.posted = [i \in DOMAIN @ |->
                 IF @[i].by = t THEN [@[i] EXCEPT !.by = None] ELSE @[i]]]
    /\ UNCHANGED <<windows, core, main, job, hud, signals, exit, inputs, history>>

Return(t) ==
    /\ ~exit.gone /\ wait[t] \in {"ok", "err"}
    /\ wait' = [wait EXCEPT ![t] = "run"]
    /\ job' = [job EXCEPT ![t] = Tail(@)]
    /\ IF ~windows /\ Head1(t).op = "hud" /\ wait[t] = "ok"
       THEN wm' \in Heard(wm) /\ hud' = Armed(hud)
       ELSE UNCHANGED <<wm, hud>>
    /\ UNCHANGED <<windows, core, main, signals, exit, inputs, history>>

\* A hide timer closes the overlay if no later payload was sent.
Current(n) == hud.seq = n
TimerFires(n) ==
    /\ ~exit.gone /\ n \in hud.timers
    /\ hud' = [hud EXCEPT !.timers = @ \ {n}]
    /\ wm' = IF Current(n) THEN Posted(wm, Call("close", "overlay"), None) ELSE wm
    /\ UNCHANGED <<windows, threads, signals, exit, inputs, history>>

-----------------------------------------------------------------------------
Users ==
    \/ \E c \in {Call("volume", None), Call("toggle", "mixer")} : Hotkey(c)
    \/ Edit \/ VolumeKey \/ SecondLaunch \/ ExitEvent \/ Signal
    \/ \E c \in Commands : Command(c)
    \/ CloseSurface
    \/ \E s \in Surfaces : OpenSurface(s) \/ CloseButton(s)

Main ==
    \/ RunVolume \/ RunSurface \/ RunExit \/ RunBootstrap
    \/ ServeOpen \/ ServeClose \/ ServeItem \/ ServeDestroy \/ ServeExit
    \/ \E s \in Surfaces : Bootstrap(s) \/ SurfaceReady(s)

Poll(t) ==
    \/ Unlock(t) \/ CallItem(t) \/ CallWindow(t) \/ CallTray(t) \/ GiveUp(t) \/ Return(t)
    \/ t = "fast" /\ (FastExit \/ FastLaunch \/ FastLock \/ FastDrain)
    \/ t = "slow" /\ SlowPoll

Timer == \E n \in hud.timers : TimerFires(n)

Next == Users \/ Main \/ PageTimer \/ Timer \/ \E t \in Polls : Poll(t)

(* The threads and the timers run: a thread that can make a step makes one. *)
Spec == Init /\ [][Next]_vars /\ WF_vars(Main) /\ WF_vars(Timer)
             /\ \A t \in Polls : WF_vars(Poll(t))

-----------------------------------------------------------------------------
Ops == {"volume", "toggle", "open", "close", "exit", "boot", "tray", "hud", "destroy"}
Stages == Live \cup {"none", "dying"}
\* What is done to a window names it.
Operations == [op : Ops, surface : Surfaces \cup {None}]
CallSet == {c \in Operations : c.op \in {"toggle", "open", "close", "boot", "destroy"} => c.surface \in Surfaces}
Posts == {By(c, t) : c \in CallSet, t \in Polls \cup {None}}
Windows == [win : [Surfaces -> Stages], active : SUBSET Surfaces, posted : Seq(Posts), heard : BOOLEAN]

(* Types of the threads, their channels and the windows; a poll that waits has the
   call it waits for at the head of its job. *)
TypeOK ==
    /\ windows \in BOOLEAN /\ core \in Polls \cup {None} /\ main \in CallSet \cup {None}
    /\ wm \in Windows
    /\ job \in [Polls -> Seq(CallSet)]
    /\ wait \in [Polls -> {"run", "timed", "forever", "ok", "err"}]
    /\ \A t \in Polls : wait[t] # "run" => job[t] # <<>>
    /\ hud \in [seq : Nat, timers : SUBSET Nat] /\ hud.timers \subseteq 1 .. hud.seq
    /\ hotkeys \in Seq(CallSet)
    /\ edited \in BOOLEAN /\ changed \in BOOLEAN /\ launch \in BOOLEAN
    /\ asked \in BOOLEAN /\ refused \in BOOLEAN /\ abandoned \in BOOLEAN
    /\ exit \in [event : BOOLEAN, requested : BOOLEAN, ended : BOOLEAN, gone : BOOLEAN]
    /\ inputs \in 0 .. MaxInputs

(* Every usable window is in the active set, and an active surface has a window:
   a stale entry would turn open() into a no-op (window_manager.rs, Destroyed). *)
ActiveIsWindow ==
    \A s \in Surfaces :
        /\ wm.win[s] \in Live => s \in wm.active
        /\ s \in wm.active => wm.win[s] # "none"

(* The topmost mixer and the help window it would cover are never open together,
   whichever thread opened the second (window_manager.rs, closes_before_opening). *)
NoStackedSurfaces == ~(wm.win["mixer"] \in Live /\ wm.win["help"] \in Live)

(* The window manager's active set and the windows tell the same story, and no two
   of the exclusive surfaces are up, between any two steps of any threads. *)
WindowsAgree == ActiveIsWindow /\ NoStackedSurfaces

(* The host has locked up: the main thread waits for the core and the poll that
   holds the core waits for the main thread without a limit. *)
Stuck == main # None /\ core # None /\ wait[core] = "forever"

(* A second launch brings the mixer, though the core's lock be taken (lib.rs, fast
   poll), unless the host locks up or exits or the old mixer is being destroyed. *)
LaunchReveals == launch ~> (wm.win["mixer"] \in Live \/ Stuck \/ exit.requested \/ refused)

(* The webview HUD goes away again by the host's timers (events_sink.rs), whatever
   the order of its opens, timers and closes, unless the host locks up. *)
HudHides == (wm.win["overlay"] \in Live) ~> (wm.win["overlay"] \notin Live \/ Stuck \/ exit.gone \/ abandoned)

(* A command that waits for the core gets it: the wait of a poll that holds the
   core for the main thread ends (on_main's ten seconds), unless Stuck. *)
LockWaitEnds == (main # None) ~> (main = None \/ Stuck)

(* An exit asked by the tray, a signal or another process happens, though closing
   the last window does not exit (lib.rs, ExitRequested). *)
ExitHappens == asked ~> (exit.gone \/ Stuck)

(* Nobody waits for ever for the core or for the end, unless Stuck. *)
WaitsEnd == LockWaitEnds /\ ExitHappens

(* The polls never stall a command for ever (lib.rs, slow poll). *)
NeverStuck == ~Stuck
=============================================================================
