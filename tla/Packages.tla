------------------------------ MODULE Packages ------------------------------
(***************************************************************************)
(* The package of a release on its way from the release page to the program  *)
(* that runs: the announcement and the download of the Tauri host            *)
(* (src-tauri/src/lifecycle.rs, update_manager.rs) and of the egui host      *)
(* (volumecontrol-egui/src/updates.rs, app.rs), the hand-over to a helper    *)
(* (packaging/install-linux.sh, scripts/Install-VolumeControl.ps1 or a line  *)
(* of shell), and what the helper leaves installed.  One release, newer than *)
(* the program at the start; its page may be published anew, file by file.   *)
(*                                                                          *)
(* A file's content stands for its SHA-256.  Every step is one the process   *)
(* can be killed after.                                                      *)
(***************************************************************************)
EXTENDS Absent, Integers, Sequences

CONSTANTS
    Installers,      \* contents that begin as an installer of the platform does
    Page,            \* a content that does not
    Torn,            \* a content cut short
    Older,           \* the program that looks for the update
    Answers,         \* what the release page may say is its latest release
    Running,         \* the tag of the program
    MaxPublications, \* bound: files put on the release page
    MaxProcesses,    \* bound: processes of the program
    MaxDownloads,    \* bound: downloads
    MaxLaunches,     \* bound: helpers
    MaxMishaps       \* bound: a kill, a file that cannot be written or removed

Published == Installers \cup {Page}
ASSUME ContentsAssumption ==
    /\ Installers # {} /\ None \notin Published \cup {Older, Torn} /\ Page \notin Installers \cup {Torn, Older}
    /\ Torn \notin Installers \cup {Older} /\ Older \notin Installers
ASSUME PackageBounds ==
    {MaxPublications, MaxProcesses, MaxDownloads, MaxLaunches, MaxMishaps} \subseteq Nat
ASSUME TagsAssumption ==
    \A tag \in {r.tag : r \in Answers} \cup {Running} :
        \A i \in DOMAIN tag.parts : tag.parts[i].number \in Nat \cup {-1}

VARIABLES
    host,      \* which program this is, and on which system
    server,    \* the release page: the asset, and the digests SHA256SUMS.txt has for it
    folder,    \* updates/<tag>: SHA256SUMS.txt, the asset, handoff.ready
    process,   \* the host process: its number, what it does, which program it is
    loader,    \* its thread that announces and downloads: where, expected digest, bytes
    downloads, \* how many there were
    offer,     \* what the card says of the package
    helpers,   \* every helper launched: where it is, for which process, what it unpacked
    program,   \* the installed executable
    announced, \* update-state.json and how often the release was announced
                \* (history: how many of those went unrecorded)
    mishaps,
    listed,    \* history: the digests the page has ever listed
    replaced,  \* history: the package was replaced since it was offered
    inVain     \* history: the host left, and no helper had taken over or strayed

package == <<host, server, folder, process, loader, downloads, offer, helpers, program, announced,
             mishaps, listed, replaced, inVain>>

Loader(at, want, got) == [at |-> at, want |-> want, got |-> got]
AtRest == Loader("rest", None, None)
\* marked, as history: the process during which it wrote the marker.
Helper(at, parent) == [at |-> at, parent |-> parent, stage |-> None, marked |-> 0]
Contents(s) == {s[i] : i \in DOMAIN s}

Tauri == host.kind = "tauri"
Linux == host.os = "linux"
Runs == process.at = "runs"
Mishap == mishaps < MaxMishaps /\ mishaps' = mishaps + 1
Fine == UNCHANGED mishaps

PackageInit ==
    /\ host \in [kind : {"tauri", "egui"}, os : {"linux", "windows"}]
    /\ LET c == CHOOSE c \in Installers : TRUE
       IN  server = [asset |-> c, sums |-> <<c>>, files |-> 0] /\ listed = {c}
    /\ folder = [sums |-> <<>>, asset |-> None, marker |-> FALSE]
    /\ process = [number |-> 1, at |-> "runs", build |-> Older]
    /\ loader = AtRest /\ downloads = 0 /\ offer = "none" /\ helpers = <<>> /\ program = Older
    /\ announced = [last |-> FALSE, times |-> 0, lost |-> 0]
    /\ mishaps = 0 /\ replaced = FALSE /\ inVain = FALSE

-----------------------------------------------------------------------------
(* The release page, one file at a time. *)

Publication ==
    /\ server.files < MaxPublications
    /\ \/ \E c \in Published \ {server.asset} :
            /\ server' = [server EXCEPT !.asset = c, !.files = @ + 1] /\ UNCHANGED listed
       \/ \E s \in {<<>>, <<server.asset>>, Append(server.sums, server.asset)} :
            /\ server' = [server EXCEPT !.sums = s, !.files = @ + 1]
            /\ listed' = listed \cup Contents(s)
    /\ UNCHANGED <<host, folder, process, loader, downloads, offer, helpers, program, announced,
                   mishaps, replaced, inVain>>

-----------------------------------------------------------------------------
(* The latest release (volumectl/src/updates.rs).  A tag is its 'v', if it has *)
(* one, and its parts: the number, or -1 for no number, and whether it is      *)
(* written without a sign or leading zeros.                                    *)

ParseVersion(tag) ==
    IF Len(tag.parts) = 3 /\ \A i \in 1..3 : tag.parts[i].number >= 0
    THEN [i \in 1..3 |-> tag.parts[i].number] ELSE None

ValidateRelease(r) ==
    /\ ~r.draft /\ ~r.prerelease /\ r.tag.v
    /\ ParseVersion(r.tag) # None /\ \A i \in 1..3 : r.tag.parts[i].plain

IsNewer(latest, current) ==
    LET l == ParseVersion(latest)
        c == ParseVersion(current)
    IN  /\ l # None /\ c # None
        /\ \E i \in 1..3 : l[i] > c[i] /\ \A j \in 1..(i - 1) : l[j] = c[j]

Offered == {r \in Answers : ValidateRelease(r) /\ IsNewer(r.tag, Running)}

-----------------------------------------------------------------------------
(* Announcing and downloading. *)

LoaderOnly == UNCHANGED <<host, server, process, helpers, program, listed, inVain>>
LoaderFails ==
    loader' = AtRest /\ offer' = "failed" /\ Fine /\ UNCHANGED <<folder, announced, replaced>>

\* A check has found a release that is offered; nothing if a download is in flight.  The Tauri
\* host announces it first, unless update-state.json names it.
FindRelease ==
    /\ process.at \in {"runs", "hands over"} /\ process.build = Older /\ loader = AtRest
    /\ Offered # {} /\ downloads < MaxDownloads /\ downloads' = downloads + 1
    /\ offer' = "loading"
    /\ loader' = Loader(IF Tauri /\ ~announced.last THEN "announce" ELSE "sums", None, None)
    /\ UNCHANGED <<folder, announced, mishaps, replaced>> /\ LoaderOnly

\* notify_update_if_needed: a notification that is not shown is not recorded, and
\* neither failure stops the download.
AnnounceRelease ==
    /\ loader.at = "announce"
    /\ \/ loader' = [loader EXCEPT !.at = "record"] /\ announced' = [announced EXCEPT !.times = @ + 1]
       \/ loader' = [loader EXCEPT !.at = "sums"] /\ UNCHANGED announced
    /\ UNCHANGED <<folder, offer, mishaps, replaced>> /\ LoaderOnly /\ UNCHANGED downloads

Unrecorded == IF loader.at = "record" THEN [announced EXCEPT !.lost = @ + 1] ELSE announced
StoreLastNotified ==
    /\ loader.at = "record" /\ loader' = [loader EXCEPT !.at = "sums"]
    /\ \/ Fine /\ announced' = [announced EXCEPT !.last = TRUE]
       \/ Mishap /\ announced' = Unrecorded
    /\ UNCHANGED <<folder, offer, replaced>> /\ LoaderOnly /\ UNCHANGED downloads

\* extract_manifest_sha256 wants exactly one entry, manifest_sha256 takes the first.
Entry(sums) ==
    IF sums = <<>> \/ (Tauri /\ Len(sums) > 1) THEN None ELSE sums[1]

\* The manifest: the Tauri host renames it into place before it reads it, the
\* egui host keeps it in memory.
FetchSums ==
    /\ loader.at = "sums"
    /\ \/ LoaderFails
       \/ /\ folder' = IF Tauri THEN [folder EXCEPT !.sums = server.sums] ELSE folder
          /\ replaced' = (replaced \/ folder'.sums # folder.sums)
          /\ IF Entry(server.sums) = None
             THEN loader' = AtRest /\ offer' = "failed"
             ELSE loader' = Loader("asset", Entry(server.sums), None) /\ UNCHANGED offer
          /\ UNCHANGED <<announced, mishaps>>
    /\ LoaderOnly /\ UNCHANGED downloads

\* The asset into its .part file, hashed on the way; a body without a length may
\* end early and look complete.
StreamAsset ==
    /\ loader.at = "asset"
    /\ \/ LoaderFails
       \/ /\ \E c \in {server.asset, Torn} : loader' = [loader EXCEPT !.at = "compare", !.got = c]
          /\ UNCHANGED <<folder, offer, announced, mishaps, replaced>>
    /\ LoaderOnly /\ UNCHANGED downloads

\* The .part file is removed, or renamed over whatever is there.
Matches(l) == l.got = l.want
CompareAndRename ==
    /\ loader.at = "compare"
    /\ IF Matches(loader)
       THEN /\ folder' = [folder EXCEPT !.asset = loader.got]
            /\ replaced' = (replaced \/ folder.asset # loader.got)
            /\ loader' = [loader EXCEPT !.at = "validate"]
            /\ UNCHANGED <<offer, announced, mishaps>>
       ELSE LoaderFails
    /\ LoaderOnly /\ UNCHANGED downloads

\* Only now the first bytes are looked at; a file that fails stays.
ValidatePayload ==
    /\ loader.at = "validate" /\ loader' = AtRest
    /\ offer' = IF folder.asset \in Installers THEN "ready" ELSE "failed"
    /\ replaced' = (replaced /\ offer' # "ready")
    /\ UNCHANGED <<folder, announced, mishaps>> /\ LoaderOnly /\ UNCHANGED downloads

-----------------------------------------------------------------------------
(* The hand-over. *)

HandOverOnly == UNCHANGED <<host, server, loader, downloads, announced, listed, replaced>>

\* launch_prepared_apply: the marker of an earlier helper goes first (not telling
\* whether it could be removed), then the helper starts.
KeptMark(f) == f
Unmarked(f) == [f EXCEPT !.marker = FALSE]
LaunchPreparedApply ==
    /\ Tauri /\ Runs /\ Len(helpers) < MaxLaunches /\ offer = "ready"
    /\ \/ Fine /\ folder' = Unmarked(folder) /\ offer' = "installing"
          /\ process' = [process EXCEPT !.at = "hands over"]
          /\ helpers' = Append(helpers, Helper("lock", process.number))
       \/ Mishap /\ folder.marker /\ UNCHANGED folder /\ offer' = "installing"
          /\ process' = [process EXCEPT !.at = "hands over"]
          /\ helpers' = Append(helpers, Helper("lock", process.number))
       \/ Mishap /\ folder' = Unmarked(folder) /\ UNCHANGED <<offer, process, helpers>>
    /\ UNCHANGED <<program, inVain>> /\ HandOverOnly

\* A helper that holds the lock and has not failed, or has done its work.
Took(h) == h.at \notin {"lock", "dead"}
\* The host looks for a marker, not for its helper's: a helper of an earlier process that
\* was still waiting for the lock writes the same file.
Strayed(h) == h.parent # process.number /\ h.marked = process.number
HandedOver ==
    /\ process.at = "hands over" /\ folder.marker
    /\ process' = [process EXCEPT !.at = "leaves"]
    /\ inVain' = (inVain \/ ~\E i \in DOMAIN helpers : Took(helpers[i]) \/ Strayed(helpers[i]))
    /\ UNCHANGED <<folder, offer, helpers, program, mishaps>> /\ HandOverOnly

\* Fifteen seconds without the marker; the helper is left running.
NotHandedOver ==
    /\ process.at = "hands over" /\ ~folder.marker
    /\ process' = [process EXCEPT !.at = "runs"] /\ offer' = "ready"
    /\ UNCHANGED <<folder, helpers, program, mishaps, inVain>> /\ HandOverOnly

\* launch_installer of the egui host.  On Linux it unpacks and installs by itself,
\* beside the running file and then over it, before the helper that only restarts.
LaunchInstaller ==
    /\ ~Tauri /\ Runs /\ Len(helpers) < MaxLaunches /\ offer = "ready" /\ UNCHANGED folder
    /\ \/ /\ ~Linux /\ helpers' = Append(helpers, Helper("parent", process.number))
          /\ offer' = "installing" /\ process' = [process EXCEPT !.at = "leaves"]
          /\ UNCHANGED program
       \/ /\ Linux /\ folder.asset \in Installers /\ program' = folder.asset
          /\ helpers' = Append(helpers, Helper("starts", process.number))
          /\ offer' = "installing" /\ process' = [process EXCEPT !.at = "leaves"]
       \/ /\ Linux /\ folder.asset \in Installers /\ program' \in {program, folder.asset}
          /\ offer' = "failed" /\ UNCHANGED <<process, helpers>>
    /\ UNCHANGED <<mishaps, inVain>> /\ HandOverOnly

Leaves ==
    /\ process.at = "leaves" /\ process' = [process EXCEPT !.at = "gone"]
    /\ loader' = AtRest /\ offer' = "none" /\ announced' = Unrecorded
    /\ UNCHANGED <<host, server, folder, downloads, helpers, program, mishaps, listed, replaced, inVain>>

Killed ==
    /\ process.at # "gone" /\ Mishap /\ process' = [process EXCEPT !.at = "gone"]
    /\ loader' = AtRest /\ offer' = "none" /\ announced' = Unrecorded
    /\ UNCHANGED <<host, server, folder, downloads, helpers, program, listed, replaced, inVain>>

NewProcess == [number |-> process.number + 1, at |-> "runs", build |-> program]
UserStarts ==
    /\ process.at = "gone" /\ process.number < MaxProcesses
    /\ program # Torn /\ process' = NewProcess
    /\ UNCHANGED <<folder, offer, helpers, program, mishaps, inVain>> /\ HandOverOnly

-----------------------------------------------------------------------------
(* The helpers. *)

HelperOnly ==
    UNCHANGED <<host, server, loader, downloads, offer, announced, listed, replaced, inVain>>
Becomes(i, at) == helpers' = [helpers EXCEPT ![i].at = at]
Quiet == UNCHANGED <<folder, process, program, mishaps>>

\* Both scripts let one helper in; a helper waits thirty seconds for another.
Working == {"parent", "verify", "copy", "copying", "starts"}
LockIsFree(i) == \A j \in DOMAIN helpers : j # i => helpers[j].at \notin Working
TakeLock(i) ==
    /\ helpers[i].at = "lock"
    /\ IF LockIsFree(i)
       THEN /\ helpers' = [helpers EXCEPT ![i].at = "parent", ![i].marked = process.number]
            /\ folder' = [folder EXCEPT !.marker = TRUE]
       ELSE Becomes(i, "dead") /\ UNCHANGED folder
    /\ UNCHANGED <<process, program, mishaps>> /\ HelperOnly

\* The parent has gone, or the wait has ended: 15 s, or 60 s for the egui host,
\* which the polls of the marker every 100 ms do not last.
ParentIsGone(i) ==
    /\ helpers[i].at = "parent"
    /\ (process.number = helpers[i].parent) => process.at \notin {"hands over", "leaves"}
    /\ Becomes(i, IF Tauri THEN "verify" ELSE "copy") /\ Quiet /\ HelperOnly

\* The scripts look at the sums and the file of now; the egui host's helper does not.
VerifyPrepared(i) ==
    /\ helpers[i].at = "verify"
    /\ LET holds == Len(folder.sums) = 1 /\ folder.asset = folder.sums[1]
       IN  Becomes(i, IF holds THEN "copy" ELSE "dead")
    /\ Quiet /\ HelperOnly

\* Linux: unpacked into a stage, then copied over the executable.
Unpack(i) ==
    /\ helpers[i].at = "copy" /\ Linux
    /\ IF folder.asset \in Installers
       THEN /\ helpers' = [helpers EXCEPT ![i].at = "copying", ![i].stage = folder.asset]
            /\ program' = Torn
       ELSE Becomes(i, "dead") /\ UNCHANGED program
    /\ UNCHANGED <<folder, process, mishaps>> /\ HelperOnly
Copied(i) ==
    /\ helpers[i].at = "copying" /\ program' = helpers[i].stage
    /\ Becomes(i, "starts") /\ UNCHANGED <<folder, process, mishaps>> /\ HelperOnly

\* Windows: the installer runs, and what it replaced comes back if it fails; the
\* egui host's has nothing to come back to and starts nothing.
RunSetup(i) ==
    /\ helpers[i].at = "copy" /\ ~Linux
    /\ \/ /\ folder.asset \in Installers /\ program' = folder.asset
          /\ Becomes(i, IF Tauri THEN "starts" ELSE "done")
       \/ Becomes(i, "dead") /\ UNCHANGED program
    /\ UNCHANGED <<folder, process, mishaps>> /\ HelperOnly

\* A program that is already there turns the second one away.
Starts(i) ==
    /\ helpers[i].at = "starts" /\ (process.number < MaxProcesses \/ Runs)
    /\ Tauri \/ process.at = "gone" \/ process.number # helpers[i].parent
    /\ Becomes(i, "done")
    /\ process' = IF process.at = "gone" THEN NewProcess ELSE process
    /\ UNCHANGED <<folder, program, mishaps>> /\ HelperOnly

HelperKilled(i) ==
    /\ helpers[i].at \notin {"dead", "done"} /\ Mishap /\ Becomes(i, "dead")
    /\ UNCHANGED <<folder, process, program>> /\ HelperOnly

HelperStep(i) ==
    \/ TakeLock(i) \/ ParentIsGone(i) \/ VerifyPrepared(i) \/ Unpack(i) \/ Copied(i)
    \/ RunSetup(i) \/ Starts(i) \/ HelperKilled(i)

PackageNext ==
    \/ Publication
    \/ FindRelease \/ AnnounceRelease \/ StoreLastNotified
    \/ FetchSums \/ StreamAsset \/ CompareAndRename \/ ValidatePayload
    \/ LaunchPreparedApply \/ HandedOver \/ NotHandedOver \/ LaunchInstaller
    \/ Leaves \/ Killed \/ UserStarts
    \/ \E i \in DOMAIN helpers : HelperStep(i)

-----------------------------------------------------------------------------
(* What the steps promise together, whatever is killed and whenever the    *)
(* page changes: of a stable release and the program, either the one is    *)
(* offered to the other, or runs already, or is older, so that no two      *)
(* versions offer each other in a circle and none is passed over; no       *)
(* file takes the package's name that no manifest has listed; the card     *)
(* offers an installer, unless a later download replaced the file under    *)
(* the same name; the program is the old one or a listed installer, and    *)
(* only a kill in the middle of the Linux script's copy leaves a torn one; *)
(* the host leaves for a helper that has taken over (or takes the marker   *)
(* of a helper an earlier process left waiting for its own); a release is  *)
(* announced again only if an earlier announcement was not recorded,       *)
(* because the file could not be written or the program ended first.       *)
Copying == \E i \in DOMAIN helpers : helpers[i].at = "copying"
OffersNewer ==
    /\ \A r \in Offered :
         ~r.draft /\ ~r.prerelease
         /\ ~IsNewer(Running, r.tag) /\ ParseVersion(r.tag) # ParseVersion(Running)
    /\ \A r \in Answers : ValidateRelease(r) /\ ParseVersion(Running) # None =>
         r \in Offered \/ IsNewer(Running, r.tag) \/ ParseVersion(r.tag) = ParseVersion(Running)
PackagesAreWhole ==
    /\ OffersNewer
    /\ folder.asset \in listed \cup {None}
    /\ offer = "ready" => (folder.asset \in Installers \/ replaced)
    /\ program \in (listed \cap Installers) \cup {Older}
          \/ (program = Torn /\ (Copying \/ mishaps > 0))
    /\ inVain => mishaps > 0
    /\ announced.times <= 1 + announced.lost
=============================================================================
