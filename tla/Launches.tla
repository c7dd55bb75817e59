------------------------------ MODULE Launches ------------------------------
(***************************************************************************)
(* Starting and ending the program on Windows: the command line (main.rs of *)
(* both hosts), the single instance (single_instance.rs of the egui host,   *)
(* ensure_single_instance of the Tauri host) and the sign-in entry in the   *)
(* registry (autostart.rs).  A process is an actor; the named mutex and the *)
(* named events are kernel objects that exist while a process holds a       *)
(* handle to them.  What a running host does with a request is the subject  *)
(* of EguiHost and TauriHost; here it reveals its mixer or it ends.         *)
(***************************************************************************)
EXTENDS Integers, FiniteSets, Absent

CONSTANTS
    MaxLaunches,  \* bound: processes started in a behaviour
    MaxMishaps    \* bound: failing system calls and processes that die

ASSUME LaunchesAssumption == MaxLaunches \in Nat /\ MaxMishaps \in Nat
ASSUME EntryAssumption == None \notin {"old", "flagged"}

VARIABLES
    host,    \* which program the processes run
    pc,      \* how far each process is
    kind,    \* what its command line asks for
    mutex,   \* the processes with a handle to Local\...SingleInstance
    show,    \* the ShowMixer event: who has a handle, and whether it is set
    exitEvent, \* the Exit event of the Tauri host
    entry,   \* this program's Run value: None, old (without --background) or flagged
    fresh,   \* the session has not run its sign-in entry yet
    owed,    \* history: requests whose user still waits for a mixer or the program's
             \* end, but for those that met a process on its way out
    popups,  \* history: sign-ins that opened the mixer
    unguarded, \* history: processes let through without a mutex
    mishaps

kernel == <<mutex, show, exitEvent>>
launchHistory == <<owed, popups, unguarded>>
launchVars == <<host, pc, kind, kernel, entry, fresh, launchHistory, mishaps>>

Procs == 1..MaxLaunches
Hosts == {"egui", "tauri"}
Arguments == {"--version", "--quit", "--background", "verb"}

\* main: a verb of the egui host stands alone (cli::parse), with anything beside it the
\* program starts; the Tauri host takes --version, then --quit, then a host launch.
Kind(args) ==
    IF host = "egui"
    THEN IF args = {"verb"} THEN "once"
         ELSE IF "--background" \in args THEN "background" ELSE "interactive"
    ELSE IF "--version" \in args THEN "once"
    ELSE IF "--quit" \in args THEN "quit"
    ELSE IF args \subseteq {"--background"}
         THEN (IF args = {} THEN "interactive" ELSE "background")
    ELSE "once"

\* startup_command, has_background_flag and the old entries without it.
UnflaggedArguments(e) == {}
SignInArguments(e) == IF e = "flagged" THEN {"--background"} ELSE {}
Enabled(e) == e \in {"old", "flagged"}

Coming == {"creating", "ensuring", "writing"}
Instances == {p \in Procs : pc[p] \in Coming \cup {"running"}}
Guarded == Instances \cap mutex
Present == {p \in Procs : pc[p] \notin {"absent", "gone"}}

ClosedEvent == [open |-> {}, set |-> FALSE]
\* Closing the last handle destroys the object and the request in it.
Without(event, p) ==
    IF event.open \subseteq {p} THEN ClosedEvent ELSE [event EXCEPT !.open = @ \ {p}]

LaunchInit ==
    /\ host \in Hosts
    /\ pc = [p \in Procs |-> "absent"] /\ kind = [p \in Procs |-> "once"]
    /\ mutex = {} /\ show = ClosedEvent /\ exitEvent = ClosedEvent
    /\ entry \in {None, "old", "flagged"} /\ fresh = TRUE
    /\ owed = {} /\ popups = 0 /\ unguarded = {} /\ mishaps = 0

Step(p, from, to) == pc[p] = from /\ pc' = [pc EXCEPT ![p] = to]
Mishap == mishaps < MaxMishaps /\ mishaps' = mishaps + 1

-----------------------------------------------------------------------------
(* A process starts. *)

Starts(p, args) ==
    /\ pc[p] = "absent" /\ \A q \in 1..(p - 1) : pc[q] # "absent"
    /\ kind' = [kind EXCEPT ![p] = Kind(args)]
    /\ pc' = [pc EXCEPT ![p] = IF Kind(args) = "once" THEN "gone"
                               ELSE IF Kind(args) = "quit" THEN "asking" ELSE "starting"]
    /\ owed' = (IF Kind(args) = "interactive" \/ (Kind(args) = "quit" /\ Guarded # {})
                THEN owed \cup {p} ELSE owed)

Launch(p, args) ==
    /\ Starts(p, args)
    /\ UNCHANGED <<host, kernel, entry, fresh, popups, unguarded, mishaps>>

\* Windows runs the sign-in entry once in a session, some time after its start.
SignIn(p) ==
    /\ fresh /\ fresh' = FALSE /\ Enabled(entry)
    /\ Starts(p, SignInArguments(entry))
    /\ popups' = (IF Kind(SignInArguments(entry)) = "interactive" THEN popups + 1 ELSE popups)
    /\ UNCHANGED <<host, kernel, entry, unguarded, mishaps>>

\* CreateMutexW: the first handle makes an instance.  A mutex that only other
\* secondary launches hold open, or one that ends, turns a launch away as well.
AcquireAnyway(p) ==
    /\ Step(p, "starting", "creating") /\ mutex' = mutex \cup {p}
    /\ UNCHANGED <<host, kind, show, exitEvent, entry, fresh, launchHistory, mishaps>>

Acquire(p) ==
    /\ Step(p, "starting", IF mutex = {} THEN "creating" ELSE "second")
    /\ mutex' = mutex \cup {p}
    /\ owed' = (IF mutex # {} /\ Guarded = {} THEN owed \ {p} ELSE owed)
    /\ UNCHANGED <<host, kind, show, exitEvent, entry, fresh, popups, unguarded, mishaps>>

\* A mutex that cannot be created lets the launch through, without any handle.
AcquireFails(p) ==
    /\ Mishap /\ Step(p, "starting", IF host = "tauri" THEN "ensuring" ELSE "running")
    /\ owed' = (IF host = "egui" THEN owed \ {p} ELSE owed)
    /\ unguarded' = unguarded \cup {p}
    /\ UNCHANGED <<host, kind, kernel, entry, fresh, popups>>

\* CreateEventW opens the object that an earlier request holds, or a new one.
\* Without an event the instance runs, and later launches stay silent.
CreateEvents(p) ==
    /\ Step(p, "creating", IF host = "tauri" THEN "ensuring" ELSE "running")
    /\ show' = [show EXCEPT !.open = @ \cup {p}]
    /\ exitEvent' = (IF host = "tauri" THEN [exitEvent EXCEPT !.open = @ \cup {p}] ELSE exitEvent)
    /\ owed' = (IF host = "egui" THEN owed \ {p} ELSE owed)
    /\ UNCHANGED <<host, kind, mutex, entry, fresh, popups, unguarded, mishaps>>

CreateEventFails(p) ==
    /\ Mishap /\ Step(p, "creating", IF host = "tauri" THEN "ensuring" ELSE "running")
    /\ owed' = (IF host = "egui" THEN owed \ {p} ELSE owed)
    /\ UNCHANGED <<host, kind, kernel, entry, fresh, popups, unguarded>>

-----------------------------------------------------------------------------
(* A second launch, and --quit: up to a hundred tries to open the event. *)

SignalsInBackground(p) == kind[p] = "background"
Signals(p) == kind[p] = "interactive"

Secondary(p) ==
    /\ Step(p, "second", IF Signals(p) THEN "asking" ELSE "gone")
    /\ mutex' = mutex \ {p}
    /\ UNCHANGED <<host, kind, show, exitEvent, entry, fresh, launchHistory, mishaps>>

OpenEvent(p) ==
    /\ Step(p, "asking", "setting")
    /\ \/ /\ kind[p] = "quit" /\ exitEvent.open # {}
          /\ exitEvent' = [exitEvent EXCEPT !.open = @ \cup {p}] /\ UNCHANGED show
       \/ /\ kind[p] = "interactive" /\ show.open # {}
          /\ show' = [show EXCEPT !.open = @ \cup {p}] /\ UNCHANGED exitEvent
    /\ UNCHANGED <<host, kind, mutex, entry, fresh, launchHistory, mishaps>>

\* The tries outlast the moment between an instance's mutex and its events.
FindNoEvent(p) ==
    /\ Step(p, "asking", "gone")
    /\ (IF kind[p] = "quit" THEN exitEvent ELSE show).open = {}
    /\ ~ \E q \in mutex : pc[q] = "creating"
    /\ UNCHANGED <<host, kind, kernel, entry, fresh, launchHistory, mishaps>>

\* An event that only a process on its way out has open takes the request along.
SetEvent(p) ==
    /\ Step(p, "setting", "gone")
    /\ LET event == IF kind[p] = "quit" THEN exitEvent ELSE show
           set == Without([event EXCEPT !.set = TRUE], p)
       IN  /\ (IF kind[p] = "quit" THEN exitEvent' = set /\ UNCHANGED show
                                   ELSE show' = set /\ UNCHANGED exitEvent)
           /\ owed' = (IF Instances \cap event.open = {} THEN owed \ {p} ELSE owed)
    /\ UNCHANGED <<host, kind, mutex, entry, fresh, popups, unguarded, mishaps>>

-----------------------------------------------------------------------------
(* The instance. *)

\* ensure_background_flag reads the Run value and, apart from that, writes it; the
\* mixer is opened at the end of the setup.
EnsureReads(p) ==
    /\ Step(p, "ensuring", IF entry = "old" THEN "writing" ELSE "running")
    /\ owed' = (IF entry = "old" THEN owed ELSE owed \ {p})
    /\ UNCHANGED <<host, kind, kernel, entry, fresh, popups, unguarded, mishaps>>

EnsureWrites(p) ==
    /\ Step(p, "writing", "running") /\ entry' = "flagged" /\ owed' = owed \ {p}
    /\ UNCHANGED <<host, kind, kernel, fresh, popups, unguarded, mishaps>>

EnsureFails(p) ==
    /\ Mishap /\ (Step(p, "ensuring", "running") \/ Step(p, "writing", "running"))
    /\ owed' = owed \ {p}
    /\ UNCHANGED <<host, kind, kernel, entry, fresh, popups, unguarded>>

\* set_enabled: the value is this executable's, with the flag, or it is deleted.
SetEnabled(p, on) ==
    /\ pc[p] = "running" /\ entry' = (IF on THEN "flagged" ELSE None)
    /\ UNCHANGED <<host, pc, kind, kernel, fresh, launchHistory, mishaps>>

Finished == {p \in owed : pc[p] = "gone" /\ kind[p] = "interactive"}

\* poll_show_mixer, take_show_mixer_request: an auto-reset event, one answer for all
\* who asked; the Tauri host looks for an exit request first.
PollShow(p) ==
    /\ pc[p] = "running" /\ p \in show.open /\ show.set
    /\ ~ (p \in exitEvent.open /\ exitEvent.set)
    /\ show' = [show EXCEPT !.set = FALSE]
    /\ owed' = owed \ Finished
    /\ UNCHANGED <<host, pc, kind, mutex, exitEvent, entry, fresh, popups, unguarded, mishaps>>

\* Requests under way meet the end of a process.
Met == {p \in owed : pc[p] \in {"second", "asking", "setting", "gone"}}

PollExit(p) ==
    /\ Step(p, "running", "exiting") /\ p \in exitEvent.open /\ exitEvent.set
    /\ exitEvent' = [exitEvent EXCEPT !.set = FALSE]
    /\ owed' = owed \ Met
    /\ UNCHANGED <<host, kind, mutex, show, entry, fresh, popups, unguarded, mishaps>>

Quit(p) ==
    /\ Step(p, "running", "exiting") /\ owed' = owed \ Met
    /\ UNCHANGED <<host, kind, kernel, entry, fresh, popups, unguarded, mishaps>>

-----------------------------------------------------------------------------
(* A process ends.  The egui host's guard closes its event before its mutex; *)
(* otherwise the system closes the handles, the events' or the mutex' first. *)

Holds(p) == p \in mutex \cup show.open \cup exitEvent.open
CloseEvents(p) ==
    /\ show' = Without(show, p) /\ exitEvent' = Without(exitEvent, p) /\ UNCHANGED mutex
CloseMutex(p) == mutex' = mutex \ {p} /\ UNCHANGED <<show, exitEvent>>

CloseHandle(p) ==
    /\ pc[p] \in {"exiting", "killed"} /\ Holds(p)
    /\ \/ p \in show.open \cup exitEvent.open /\ CloseEvents(p)
       \/ p \in mutex /\ (host = "tauri" \/ pc[p] = "killed" \/ p \notin show.open) /\ CloseMutex(p)
    /\ UNCHANGED <<host, pc, kind, entry, fresh, launchHistory, mishaps>>

Gone(p) ==
    /\ pc[p] \in {"exiting", "killed"} /\ ~Holds(p) /\ pc' = [pc EXCEPT ![p] = "gone"]
    /\ UNCHANGED <<host, kind, kernel, entry, fresh, launchHistory, mishaps>>

Crash(p) ==
    /\ Mishap /\ p \in Present /\ pc[p] # "killed" /\ pc' = [pc EXCEPT ![p] = "killed"]
    /\ owed' = owed \ (Met \cup {p})
    /\ UNCHANGED <<host, kind, kernel, entry, fresh, popups, unguarded>>

\* The session ends with all its processes; the next one may sign in.
LogOff ==
    /\ ~fresh /\ fresh' = TRUE
    /\ pc' = [p \in Procs |-> IF p \in Present THEN "gone" ELSE pc[p]]
    /\ mutex' = {} /\ show' = ClosedEvent /\ exitEvent' = ClosedEvent
    /\ owed' = {}
    /\ IF \E p \in Present : pc[p] # "running" THEN Mishap ELSE UNCHANGED mishaps
    /\ UNCHANGED <<host, kind, entry, popups, unguarded>>

Starting(p) == Acquire(p) \/ CreateEvents(p) \/ EnsureReads(p) \/ EnsureWrites(p)
Asking(p) == Secondary(p) \/ OpenEvent(p) \/ FindNoEvent(p) \/ SetEvent(p)
Polling(p) == PollShow(p) \/ PollExit(p)
Ending(p) == CloseHandle(p) \/ Gone(p)

LaunchNext ==
    \/ \E p \in Procs :
        \/ \E args \in SUBSET Arguments : Cardinality(args) <= 2 /\ Launch(p, args)
        \/ SignIn(p)
        \/ AcquireFails(p) \/ CreateEventFails(p) \/ EnsureFails(p)
        \/ \E on \in BOOLEAN : SetEnabled(p, on)
        \/ Quit(p) \/ Crash(p)
        \/ Starting(p) \/ Asking(p) \/ Polling(p) \/ Ending(p)
    \/ LogOff

LaunchSpec == LaunchInit /\ [][LaunchNext]_launchVars
\* Processes run, and hosts poll; nobody has to launch, quit or fail.
LaunchFairness ==
    \A p \in Procs : /\ WF_launchVars(Starting(p)) /\ WF_launchVars(Asking(p))
                     /\ WF_launchVars(Polling(p)) /\ WF_launchVars(Ending(p))
FairLaunchSpec == LaunchSpec /\ LaunchFairness

-----------------------------------------------------------------------------

LaunchTypeOK ==
    /\ host \in Hosts
    /\ pc \in [Procs -> {"absent", "starting", "creating", "ensuring", "writing", "running",
                         "second", "asking", "setting", "exiting", "killed", "gone"}]
    /\ kind \in [Procs -> {"once", "quit", "interactive", "background"}]
    /\ mutex \subseteq Procs
    /\ {show, exitEvent} \subseteq [open : SUBSET Procs, set : BOOLEAN]
    /\ \A event \in {show, exitEvent} : event.set => event.open # {}
    /\ entry \in {None, "old", "flagged"} /\ fresh \in BOOLEAN
    /\ owed \subseteq Procs /\ unguarded \subseteq Procs
    /\ popups \in Nat /\ mishaps \in 0..MaxMishaps

\* "Prevent two app instances" (native_win32.rs:75): however launches, exits, failing
\* calls, crashes, ends of the session and half-closed handles interleave, one process at
\* most is an instance or the holder of the mutex on its way out; only those whose mutex
\* could not be created are let in besides.
OneInstance == Cardinality((Instances \cup {p \in mutex : pc[p] = "exiting"}) \ unguarded) <= 1

\* "Worst case after an upgrade is one visible mixer at the next sign-in" (lib.rs:262):
\* a second sign-in that opens the mixer takes a failure, or the end of the session
\* in the middle of a start.
SignInsStayQuiet == host = "tauri" => popups <= 1 + mishaps

\* A launch shows the mixer, its own or the running instance's, and --quit ends the
\* instance, also when it is asked between the mutex and the events, and when several
\* requests fall into one signal.  Excepted are requests that met a process on its
\* way out, and failed system calls.
RequestsAreAnswered == <>[](owed = {} \/ mishaps > 0)
=============================================================================
