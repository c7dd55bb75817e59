----------------------------- MODULE EguiUpdates ----------------------------
(***************************************************************************)
(* The update card of the egui host (settings/update_card.rs) with the two  *)
(* threads behind it: the check and the download of app.rs, each with a     *)
(* channel a frame polls.  EguiSettings composes these actions with the     *)
(* frames and the window the card is part of; the tray can start a check    *)
(* whatever the card shows.                                                 *)
(***************************************************************************)
EXTENDS Absent, Integers

CONSTANTS
    Newest   \* the releases are 1..Newest; the program is 0

ASSUME NewestAssumption == Newest \in Nat \ {0}
ASSUME NoneIsNoRelease == None \notin 0..Newest

VARIABLES
    card,       \* UpdateCard.phase, with its version
    check,      \* update_rx: nobody checks, the thread runs, it has an answer
    download,   \* download_rx: None, or the release and how far its thread is
    release,    \* update_release
    installer,  \* update_installer, by the release it belongs to
    quitting,
    relabelled  \* history: update_release changed while its download ran

cardVars == <<card, check, download, release, installer, quitting, relabelled>>

Card(phase, v) == [phase |-> phase, version |-> v]
Check(state, v) == [state |-> state, found |-> v]
NoCheck == Check("none", 0)
Phases == {"idle", "checking", "available", "downloading", "ready", "installing", "current", "failed"}

CardInit ==
    /\ card = Card("idle", None) /\ check = NoCheck /\ download = None
    /\ release = None /\ installer = None
    /\ quitting = FALSE /\ relabelled = FALSE

-----------------------------------------------------------------------------
(* The threads. *)

CheckThread ==
    /\ check.state = "running"
    /\ \/ check' = Check("failed", 0)
       \/ \E v \in 0..Newest : check' = Check("found", v)
    /\ UNCHANGED <<card, download, release, installer, quitting, relabelled>>

\* download_release: the file is complete, checked and in place, or there is none.
DownloadThread ==
    /\ download # None /\ ~download.done
    /\ \E ok \in BOOLEAN : download' = [download EXCEPT !.done = TRUE, !.ok = ok]
    /\ UNCHANGED <<card, check, release, installer, quitting, relabelled>>

-----------------------------------------------------------------------------
(* poll_updates; an answer of the check also brings an overlay. *)

Newer(found) == IF found > 0 THEN found ELSE None
\* What the check found replaces the release, also the one a download is running for.
CheckFound ==
    /\ check.state = "found" /\ check' = NoCheck
    /\ release' = Newer(check.found)
    /\ card' = IF check.found > 0 THEN Card("available", check.found) ELSE Card("current", None)
    /\ relabelled' = (relabelled \/ (download # None /\ release # Newer(check.found)))
    /\ UNCHANGED <<download, installer, quitting>>

CheckFailed ==
    /\ check.state = "failed" /\ check' = NoCheck
    /\ card' = Card("failed", None)
    /\ UNCHANGED <<download, release, installer, quitting, relabelled>>

\* The label is the release of now, not the one downloaded.
DownloadReady ==
    /\ download # None /\ download.done /\ download.ok
    /\ installer' = download.of /\ download' = None
    /\ card' = Card("ready", release)
    /\ UNCHANGED <<check, release, quitting, relabelled>>

DownloadFailed ==
    /\ download # None /\ download.done /\ ~download.ok
    /\ download' = None /\ card' = Card("failed", None)
    /\ UNCHANGED <<check, release, installer, quitting, relabelled>>

-----------------------------------------------------------------------------
(* The card's buttons, each in the phases UpdatePhase::action offers it in. *)

\* start_update_check; the tray's menu starts it in any phase.
StartCheck ==
    /\ check = NoCheck
    /\ check' = Check("running", 0) /\ card' = Card("checking", None)
    /\ UNCHANGED <<download, release, installer, quitting, relabelled>>

CheckUpdates == card.phase \in {"idle", "current", "failed"} /\ StartCheck

\* start_download: one at a time; a second click changes nothing.
CanDownload == download = None
DownloadUpdate ==
    /\ card.phase = "available" /\ release # None /\ CanDownload
    /\ download' = [of |-> release, done |-> FALSE, ok |-> FALSE]
    /\ card' = Card("downloading", None) /\ relabelled' = FALSE
    /\ UNCHANGED <<check, release, installer, quitting>>

\* launch_installer hands the package to a helper, and the program quits.
InstallUpdate ==
    /\ card.phase = "ready" /\ installer # None
    /\ \/ card' = Card("installing", release) /\ quitting' = TRUE
       \/ card' = Card("failed", None) /\ UNCHANGED quitting
    /\ UNCHANGED <<check, download, release, installer, relabelled>>

\* Later: the card goes back, what runs goes on.
DismissUpdate ==
    /\ card.phase \in {"idle", "current", "available", "failed", "ready"}
    /\ card' = Card("idle", None)
    /\ UNCHANGED <<check, download, release, installer, quitting, relabelled>>

-----------------------------------------------------------------------------

CardTypeOK ==
    /\ card \in [phase : Phases, version : (0..Newest) \cup {None}]
    /\ check \in [state : {"none", "running", "failed", "found"}, found : 0..Newest]
    /\ download = None \/ download \in [of : 1..Newest, done : BOOLEAN, ok : BOOLEAN]
    /\ release \in (1..Newest) \cup {None} /\ installer \in (1..Newest) \cup {None}
    /\ quitting \in BOOLEAN /\ relabelled \in BOOLEAN

\* What the card offers to install is the package on disk, through any order of
\* checks, downloads and dismissals; the exception is a check that replaced the
\* release while the download ran, after which the label names another version.
OfferIsOnDisk ==
    card.phase = "ready" => installer # None /\ (relabelled \/ card.version = installer)
=============================================================================
