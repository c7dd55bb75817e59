--------------------------- MODULE UpdateManager ---------------------------
(***************************************************************************)
(* The update manager of the Tauri host (src-tauri/src/update_manager.rs)   *)
(* and the card that shows it (frontend/src/settings/UpdateCard.tsx).       *)
(*                                                                         *)
(* One worker thread checks for a release, a downloader prepares it, and    *)
(* each install command runs on its own.  They share the published state,   *)
(* the prepared package and three flags, each behind a lock or atomic of    *)
(* its own.  A thread changes the published state under its lock and emits  *)
(* the copy after releasing it, so the copies of two threads may reach the  *)
(* card in either order; the card keeps the one with the higher revision.   *)
(***************************************************************************)
EXTENDS Integers, FiniteSets, Absent

CONSTANTS
    Installs,    \* the install commands in a behaviour
    MaxChecks,   \* bound: checks, the first one included
    MaxVersion,  \* bound: releases are numbered 1 .. MaxVersion; 0 is running
    MaxFaults    \* bound: fetches, downloads, launches and spawns that fail

ASSUME BoundsAssumption == {MaxChecks, MaxVersion, MaxFaults} \subseteq Nat
ASSUME ThreadsAssumption ==
    Installs \cap {"worker", "downloader"} = {} /\ None \notin Installs \cup Nat

VARIABLES
    latest,      \* the release on offer, 0 for none newer than the running one
    state,       \* UpdateState
    prepared,    \* PreparedPackage: the version it holds, or None
    cached,      \* last_success, while it is younger than ten minutes
    trigger,     \* check_trigger holds a forced request
    worker,      \* where perform_check stands, and the release it found
    downloading, \* is_downloading
    downloader,  \* where the download thread stands, and its release
    installing,  \* is_installing
    install,     \* where each install command stands, what was asked and taken
    exited,      \* the process has handed over and exits
    emitting,    \* the copy each thread has still to emit, or None
    card,        \* what the card shows, or None
    listening,   \* the card's event listener is registered
    asking,      \* its snapshot request: none, asked, answered or shown
    answer,      \* the answer under way, or None
    checks, faults,
    launched,    \* history: the versions handed to the installer, as asked and taken
    lost,        \* history: a failed check ended the Ready phase
    passedBy     \* history: the newest revision emitted after the card's snapshot and
                 \* before its listener, 0 once the card shows it or a newer one

Threads == Installs \cup {"worker", "downloader"}
Versions == 0 .. MaxVersion
Maybe(S) == S \cup {None}
Phases == {"idle", "checking", "available", "downloading", "ready", "installing", "error"}
States == [revision : Nat, phase : Phases, info : Maybe(Versions), error : BOOLEAN]

ASSUME StateAssumption == None \notin States

network == <<latest, faults>>
updateCore == <<prepared, cached, downloading, installing, exited, launched>>
ui   == <<card, listening, asking, answer, passedBy>>
updateVars == <<network, state, updateCore, trigger, worker, downloader, install, emitting, ui, checks, lost>>

-----------------------------------------------------------------------------
CanFail == faults > 0 /\ faults' = faults - 1
Works   == UNCHANGED faults

At(t, pc) == ~exited /\ emitting[t] = None /\ pc

\* update_and_emit: the change and the revision under the lock, then the copy.
UpdateAndEmit(t, next) ==
    /\ state' = [next EXCEPT !.revision = state.revision + 1]
    /\ emitting' = [emitting EXCEPT ![t] = state']
Silent == UNCHANGED <<state, emitting>>

Fresh == [revision |-> 0, phase |-> "idle", info |-> None, error |-> FALSE]

UpdateInit ==
    /\ latest = 0 /\ state = Fresh
    /\ prepared = None /\ cached = None /\ trigger = FALSE
    /\ worker = [pc |-> "wait", release |-> None]
    /\ downloading = FALSE /\ downloader = [pc |-> "none", release |-> None]
    /\ installing = FALSE
    /\ install = [i \in Installs |-> [pc |-> "none", expected |-> None, taken |-> None]]
    /\ exited = FALSE /\ emitting = [t \in Threads |-> None]
    /\ card = None /\ listening = FALSE
    /\ asking = "none" /\ answer = None
    /\ checks = 0 /\ faults = MaxFaults /\ launched = {} /\ lost = FALSE /\ passedBy = 0

-----------------------------------------------------------------------------
(* The worker: perform_check, one check after another. *)

WorkerOnly == UNCHANGED <<latest, prepared, installing, exited, launched, install, ui>>
WorkerGoes(pc, v) == worker' = [pc |-> pc, release |-> v]

\* The card's request_check(true), answered with a snapshot.  Requests that wait
\* together are not told apart.
RequestCheck ==
    /\ ~exited /\ asking = "shown" /\ asking' = "asked" /\ trigger' = TRUE
    /\ UNCHANGED <<network, state, updateCore, worker, downloader, install, emitting, card, listening,
                   answer, passedBy, checks, lost>>

\* The first check, a trigger or the six hours start a check; one that is not
\* forced answers from a success of the last ten minutes.
BeginCheck ==
    /\ At("worker", worker.pc = "wait") /\ checks < MaxChecks
    /\ checks' = checks + 1
    /\ trigger' = (trigger /\ checks = 0)
    /\ IF cached # None /\ (checks = 0 \/ ~trigger)
       THEN /\ UpdateAndEmit("worker", [state EXCEPT !.info = cached, !.error = FALSE])
            /\ UNCHANGED worker
       ELSE /\ UpdateAndEmit("worker", [state EXCEPT !.phase = "checking", !.error = FALSE])
            /\ WorkerGoes("fetch", None)
    /\ UNCHANGED <<cached, downloading, downloader, faults, lost>> /\ WorkerOnly

\* fetch_latest_release.
Fetch ==
    /\ At("worker", worker.pc = "fetch")
    /\ \/ /\ Works /\ cached' = latest /\ WorkerGoes("found", latest)
          /\ Silent /\ UNCHANGED lost
       \/ /\ CanFail /\ WorkerGoes("wait", None) /\ UNCHANGED cached
          /\ UpdateAndEmit("worker", [state EXCEPT !.error = TRUE,
                 !.phase = IF @ # "ready" THEN "error" ELSE @])
          /\ lost' = (lost \/ (prepared # None /\ state'.phase = "error"))
    /\ UNCHANGED <<trigger, downloading, downloader, checks>> /\ WorkerOnly

\* What was found is published: up to date, or available.
Announce ==
    /\ At("worker", worker.pc = "found")
    /\ IF worker.release > 0
       THEN /\ UpdateAndEmit("worker", [state EXCEPT !.phase = "available",
                   !.info = worker.release, !.error = FALSE])
            /\ WorkerGoes("spawn", worker.release)
       ELSE /\ UpdateAndEmit("worker", [state EXCEPT !.phase = "idle",
                   !.info = worker.release, !.error = FALSE])
            /\ WorkerGoes("wait", None)
    /\ UNCHANGED <<cached, trigger, downloading, downloader, checks, faults, lost>> /\ WorkerOnly

\* spawn_download: nothing if a download is in flight.
SpawnDownload ==
    /\ At("worker", worker.pc = "spawn") /\ WorkerGoes("wait", None)
    /\ downloading' = TRUE
    /\ IF downloading THEN Works /\ UNCHANGED downloader
       ELSE \/ Works /\ downloader' = [pc |-> "begin", release |-> worker.release]
            \/ CanFail /\ UNCHANGED downloader
    /\ Silent /\ UNCHANGED <<cached, trigger, checks, lost>> /\ WorkerOnly

WorkerStep == Fetch \/ Announce \/ SpawnDownload

-----------------------------------------------------------------------------
(* The download thread. *)

LoaderOnly == UNCHANGED <<latest, cached, installing, exited, launched, trigger, worker,
                          install, ui, checks, lost>>
LoaderGoes(pc) == downloader' = [downloader EXCEPT !.pc = pc]

BeginDownload ==
    /\ At("downloader", downloader.pc = "begin") /\ LoaderGoes("load")
    /\ UpdateAndEmit("downloader", [state EXCEPT !.phase = "downloading", !.error = FALSE])
    /\ UNCHANGED <<prepared, downloading, faults>> /\ LoaderOnly

\* Mutant of Download: the package is not kept.
DownloadLate ==
    /\ At("downloader", downloader.pc = "load") /\ Works /\ LoaderGoes("store")
    /\ UNCHANGED <<prepared, downloading>> /\ Silent /\ LoaderOnly
\* download_and_verify, and the package it prepares.
Download ==
    /\ At("downloader", downloader.pc = "load")
    /\ \/ /\ Works /\ prepared' = downloader.release /\ LoaderGoes("store") /\ Silent
       \/ /\ CanFail /\ LoaderGoes("end") /\ UNCHANGED prepared
          /\ UpdateAndEmit("downloader", [state EXCEPT !.phase = "error", !.error = TRUE])
    /\ UNCHANGED downloading /\ LoaderOnly

Prepared ==
    /\ At("downloader", downloader.pc = "store") /\ LoaderGoes("end")
    /\ UpdateAndEmit("downloader", [state EXCEPT !.phase = "ready", !.error = FALSE])
    /\ UNCHANGED <<prepared, downloading, faults>> /\ LoaderOnly

EndDownload ==
    /\ At("downloader", downloader.pc = "end")
    /\ downloader' = [pc |-> "none", release |-> None] /\ downloading' = FALSE
    /\ Silent /\ UNCHANGED <<prepared, faults>> /\ LoaderOnly

LoaderStep == BeginDownload \/ Download \/ Prepared \/ EndDownload

-----------------------------------------------------------------------------
(* An install command. *)

InstallOnly == UNCHANGED <<latest, cached, prepared, downloading, trigger, worker,
                           downloader, ui, checks, lost>>
InstallGoes(i, pc) == install' = [install EXCEPT ![i].pc = pc]

\* The user confirms the version the card shows.
Confirm(i) ==
    /\ ~exited /\ install[i].pc = "none"
    /\ card # None /\ card.phase = "ready" /\ card.info # None
    /\ install' = [install EXCEPT ![i].pc = "asked", ![i].expected = card.info]
    /\ Silent /\ UNCHANGED <<installing, exited, launched, faults>> /\ InstallOnly

\* The snapshot is ready and of the expected version, or the command returns.
CheckReady(i) ==
    /\ At(i, install[i].pc = "asked")
    /\ InstallGoes(i, IF state.phase = "ready" /\ state.info \in {None, install[i].expected}
                      THEN "claim" ELSE "done")
    /\ Silent /\ UNCHANGED <<installing, exited, launched, faults>> /\ InstallOnly

Claim(i) ==
    /\ At(i, install[i].pc = "claim") /\ installing' = TRUE
    /\ IF installing THEN InstallGoes(i, "done") /\ Silent
       ELSE /\ InstallGoes(i, "take")
            /\ UpdateAndEmit(i, [state EXCEPT !.phase = "installing", !.error = FALSE])
    /\ UNCHANGED <<exited, launched, faults>> /\ InstallOnly

Take(i) ==
    /\ At(i, install[i].pc = "take")
    /\ install' = [install EXCEPT ![i].pc = IF prepared = None THEN "done" ELSE "launch",
                                  ![i].taken = prepared]
    /\ installing' = (prepared # None)
    /\ Silent /\ UNCHANGED <<exited, launched, faults>> /\ InstallOnly

InstallFails(i) == CanFail /\ InstallGoes(i, "failed") /\ installing' = FALSE

\* launch_prepared_apply starts the helper ...
StartHelper(i) ==
    /\ At(i, install[i].pc = "launch")
    /\ \/ /\ Works /\ InstallGoes(i, "handoff") /\ UNCHANGED installing
          /\ launched' = launched \cup {[asked |-> install[i].expected, taken |-> install[i].taken]}
       \/ InstallFails(i) /\ UNCHANGED launched
    /\ Silent /\ UNCHANGED exited /\ InstallOnly
\* ... and ends the process when the helper is ready, within fifteen seconds.
Handoff(i) ==
    /\ At(i, install[i].pc = "handoff")
    /\ \/ Works /\ InstallGoes(i, "done") /\ exited' = TRUE /\ UNCHANGED installing
       \/ InstallFails(i) /\ UNCHANGED exited
    /\ Silent /\ UNCHANGED launched /\ InstallOnly

LaunchFailed(i) ==
    /\ At(i, install[i].pc = "failed") /\ InstallGoes(i, "done")
    /\ UpdateAndEmit(i, [state EXCEPT !.phase = "ready", !.error = TRUE])
    /\ UNCHANGED <<installing, exited, launched, faults>> /\ InstallOnly

InstallStep(i) ==
    CheckReady(i) \/ Claim(i) \/ Take(i) \/ StartHelper(i) \/ Handoff(i) \/ LaunchFailed(i)

-----------------------------------------------------------------------------
(* The card in the settings window, and the network. *)

CardOnly == UNCHANGED <<network, state, updateCore, trigger, worker, downloader, install, checks, lost>>

\* Mutant of Shown: the card takes whatever comes.
ShownAlways(p) == p
\* The card takes a copy unless it has seen a later one.
Shown(p) == IF card = None THEN p ELSE IF p.revision > card.revision THEN p ELSE card

\* Of a revision that went past: what is still missed with copy c shown.
Missed(c, revision) == IF c # None /\ c.revision >= revision THEN 0 ELSE revision

\* The card asks for its listener and for a snapshot at once and waits for neither:
\* the two are answered in any order.
Mount ==
    /\ ~exited /\ asking = "none" /\ asking' = "asked"
    /\ UNCHANGED <<card, listening, answer, passedBy, emitting>> /\ CardOnly

Listen ==
    /\ asking # "none" /\ ~listening /\ listening' = TRUE
    /\ UNCHANGED <<card, asking, answer, passedBy, emitting>> /\ CardOnly

Snapshot ==
    /\ asking = "asked"
    /\ asking' = "answered" /\ answer' = state
    /\ UNCHANGED <<card, listening, passedBy, emitting>> /\ CardOnly

Answered ==
    /\ asking = "answered" /\ asking' = "shown"
    /\ card' = Shown(answer) /\ answer' = None /\ passedBy' = Missed(card', passedBy)
    /\ UNCHANGED <<listening, emitting>> /\ CardOnly

Emit(t) ==
    /\ emitting[t] # None /\ emitting' = [emitting EXCEPT ![t] = None]
    /\ card' = IF listening THEN Shown(emitting[t]) ELSE card
    /\ passedBy' = IF listening THEN Missed(card', passedBy)
                   ELSE IF asking \in {"answered", "shown"} /\ emitting[t].revision > passedBy
                   THEN Missed(IF asking = "shown" THEN card ELSE answer, emitting[t].revision)
                   ELSE passedBy
    /\ UNCHANGED <<listening, asking, answer>> /\ CardOnly

\* A release is published, and ten minutes pass.
Release ==
    /\ latest < MaxVersion /\ latest' = latest + 1
    /\ UNCHANGED <<faults, state, updateCore, trigger, worker, downloader, install, emitting, ui,
                   checks, lost>>
CacheExpires ==
    /\ cached # None /\ cached' = None
    /\ UNCHANGED <<network, state, prepared, downloading, installing, exited, launched, trigger,
                   worker, downloader, install, emitting, ui, checks, lost>>

CardStep == Listen \/ Snapshot \/ Answered \/ \E t \in Threads : Emit(t)
UpdateNext ==
    \/ RequestCheck \/ BeginCheck \/ WorkerStep \/ LoaderStep
    \/ \E i \in Installs : Confirm(i) \/ InstallStep(i)
    \/ Mount \/ CardStep \/ Release \/ CacheExpires

UpdateSpec == UpdateInit /\ [][UpdateNext]_updateVars

-----------------------------------------------------------------------------
(* Properties. *)

\* Every variable keeps its type, and a thread at rest carries no release.
UpdateTypeOK ==
    /\ latest \in Versions /\ state \in States
    /\ prepared \in Maybe(Versions) /\ cached \in Maybe(Versions)
    /\ worker \in [pc : {"wait", "fetch", "found", "spawn"}, release : Maybe(Versions)]
    /\ downloader \in [pc : {"none", "begin", "load", "store", "end"}, release : Maybe(Versions)]
    /\ (downloader.pc = "none") = (downloader.release = None)
    /\ (worker.pc \in {"wait", "fetch"}) = (worker.release = None)
    /\ trigger \in BOOLEAN /\ downloading \in BOOLEAN /\ installing \in BOOLEAN
    /\ exited \in BOOLEAN /\ listening \in BOOLEAN /\ lost \in BOOLEAN /\ passedBy \in Nat
    /\ install \in [Installs -> [pc : {"none", "asked", "claim", "take", "launch", "handoff",
                                       "failed", "done"},
                                 expected : Maybe(Versions), taken : Maybe(Versions)]]
    /\ emitting \in [Threads -> Maybe(States)] /\ card \in Maybe(States)
    /\ asking \in {"none", "asked", "answered", "shown"}
    /\ answer \in Maybe(States)
    /\ checks \in 0 .. MaxChecks /\ faults \in 0 .. MaxFaults
    /\ launched \subseteq [asked : Versions, taken : Versions]

\* The phase says ready only while a verified package lies there to install, so
\* an install never finds it missing half-way and leaves the phase at installing.
ReadyHasPackage ==
    /\ state.phase = "ready" => prepared # None
    /\ \A i \in Installs : install[i].pc = "take" => prepared # None

\* A card that listens and waits for nothing shows the state as it is, in whatever
\* order copies and snapshots reached it, unless a newer copy than it shows was emitted
\* between its snapshot and the registration of its listener: UpdateCard does not wait
\* for the one before it asks for the other.  A later copy or check makes up for it.
CardIsCurrent ==
    asking = "shown" /\ listening /\ (\A t \in Threads : emitting[t] = None)
        => card = state \/ card.revision < passedBy

\* The same without the exception, as the card's comment "Listen first to prevent race"
\* has it; the program does not keep it.
ListensFirst ==
    asking = "shown" /\ listening /\ (\A t \in Threads : emitting[t] = None) => card = state

\* One installation at a time is on its way to the helper.
OneInstallation ==
    Cardinality({i \in Installs : install[i].pc \in {"take", "launch", "handoff"}}) <= 1

\* A download thread ends before the next begins, so no two write the same files.
OneDownload ==
    [][downloader'.pc = "begin" /\ downloader # downloader' => downloader.pc = "none"]_updateVars

\* The package handed to the installer is the version the user confirmed.
LaunchedIsExpected == \A l \in launched : l.taken = l.asked

\* A check that fails does not take a ready package away.
FailedCheckKeepsReady == ~lost
=============================================================================
