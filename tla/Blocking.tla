------------------------------ MODULE Blocking ------------------------------
(***************************************************************************)
(* The programs that silence the shortcuts: from what a user types into, or   *)
(* picks in, the blacklist of a settings window (egui, webview, legacy), over *)
(* the saved list, to the gate a shortcut passes (AppCore::apply_hotkey and   *)
(* the legacy host's).  A name is a stem and its extensions, and is rough     *)
(* while it has capitals or blanks around it.                                 *)
(***************************************************************************)
EXTENDS Absent, Integers, Sequences, SequencesExt, FiniteSets

CONSTANTS
    Extensions,   \* what follows a dot of a name
    TypedNames,   \* what a user types, one of them blank
    Desktops,     \* for each system, what windows there may be
    Cut,          \* the first fifteen bytes of every stem there is
    RecommendedLists,      \* recommended_blacklist: for each system the lists of the modifiers
    MaxBlockInputs  \* bound: gestures, edits of the file, changes of the desktop


VARIABLES
    shell,    \* the settings window, the system, and the tools Linux has
    entries,    \* the list in the open window, as a set: no handler looks at its order
    saved,    \* config.blacklist
    desk,     \* the windows in their order: program, own, title, its version resource
    focused,  \* the place in desk of the window with the focus; 0 for none
    picker,   \* rows of the running-app picker
    blockInputs

block == <<shell, entries, saved, desk, focused, picker, blockInputs>>

Systems == {"windows", "macos", "linux"}
ProgramNames == [stem : DOMAIN Cut, exts : Seq(Extensions), rough : BOOLEAN]
Windows == UNION {ToSet(d) : d \in UNION {Desktops[os] : os \in Systems}}

ASSUME BlockAssumption ==
    /\ {"exe", "app"} \subseteq Extensions /\ None \notin Extensions
    /\ TypedNames \subseteq ProgramNames
    /\ DOMAIN Desktops = Systems /\ \A os \in Systems : Desktops[os] \subseteq Seq(Windows)
    /\ \A w \in Windows : w.program \in ProgramNames
    /\ \A os \in Systems : \A l \in RecommendedLists[os] : l \subseteq ProgramNames
    /\ None \notin {"generic", "the process, without its extension"}
    /\ MaxBlockInputs \in Nat

Name(stem, exts, rough) == [stem |-> stem, exts |-> exts, rough |-> rough]
Plain(n) == [n EXCEPT !.rough = FALSE]
Blank(n) == n.stem = "" /\ n.exts = <<>>
Suffix == [windows |-> "exe", macos |-> "app", linux |-> None]
EndsIn(n, ext) == n.exts # <<>> /\ Last(n.exts) = ext
Stripped(n, ext) == IF EndsIn(n, ext) THEN [n EXCEPT !.exts = Front(@)] ELSE n

\* config::normalize_blacklist_entry, and on Windows the legacy window's own.
NormalizeEntry(os, n) ==
    IF os = "linux" \/ EndsIn(n, Suffix[os]) THEN Plain(n)
    ELSE [Plain(n) EXCEPT !.exts = Append(@, Suffix[os])]
Normalized(os, list) == {NormalizeEntry(os, e) : e \in list}

ExactlyListed(os, list, process) == process \in list
IsBlacklisted(os, list, process) ==
    \/ process \in list
    \/ /\ os # "linux"
       /\ \E b \in list :
            EndsIn(b, Suffix[os]) /\ Stripped(b, Suffix[os]) = Stripped(process, Suffix[os])

-----------------------------------------------------------------------------
(* The foreground process. *)

Os == shell.os
Comm(n) == [n EXCEPT !.stem = Cut[@]]

\* Windows: the base name of the path; the legacy host leaves it at lower case.
ProcessBaseName(w) ==
    IF shell.window = "legacy" THEN Plain(w.program) ELSE NormalizeEntry("windows", w.program)

\* Linux asks xdotool; then xprop and wmctrl, and nothing more if one of them cannot be
\* run; then the X server.
ForegroundOnLinux(w) ==
    LET t == shell.tools
    IN  IF t.xdotool \/ (t.xprop /\ t.wmctrl = "lists it")
           \/ (t.xprop /\ t.wmctrl = "lists others" /\ t.x11)
        THEN NormalizeEntry("linux", Comm(w.program))
        ELSE None

ForegroundProcess ==
    IF focused = 0 THEN None
    ELSE CASE Os = "linux" -> ForegroundOnLinux(desk[focused])
           [] Os = "macos" -> NormalizeEntry("macos", desk[focused].program)
           [] OTHER -> ProcessBaseName(desk[focused])

-----------------------------------------------------------------------------
(* Names to show. *)

\* A resource has a block in the language it lists first and one in US English.
VersionString(v, key) == IF v.listed[key] # None THEN v.listed[key] ELSE v.english[key]
Telling(v, key) == VersionString(v, key) \notin {None, "generic"}
FriendlyExecutableName(v) ==
    IF v # None /\ Telling(v, "ProductName") THEN VersionString(v, "ProductName")
    ELSE IF v # None /\ Telling(v, "FileDescription") THEN VersionString(v, "FileDescription")
    ELSE None
FriendlyProcessName == "the process, without its extension"
DisplayName(v) ==
    IF FriendlyExecutableName(v) # None THEN FriendlyExecutableName(v) ELSE FriendlyProcessName

\* The App Paths keys in the order they are looked at.
InstalledExecutable(places) ==
    LET found == SelectInSeq(places, LAMBDA p : p # None)
    IN  IF found = 0 THEN None ELSE places[found]

-----------------------------------------------------------------------------
(* The picker (Windows; elsewhere it stays empty). *)

Row(process, title, name) == [process |-> process, title |-> title, name |-> name]

MergeRunningApp(apps, r) ==
    IF \A i \in DOMAIN apps : apps[i].process # r.process THEN Append(apps, r)
    ELSE [i \in DOMAIN apps |->
            IF apps[i].process = r.process /\ apps[i].title = ""
            THEN [apps[i] EXCEPT !.title = r.title] ELSE apps[i]]

\* A window without a title is passed over, one with a title of blanks is not.
Picked(w) == w.title # None /\ ~w.own
RowOf(w) == Row(NormalizeEntry("windows", w.program), w.title, DisplayName(w.version))
Visit(apps, w) == IF Picked(w) THEN MergeRunningApp(apps, RowOf(w)) ELSE apps
RunningApps == IF Os = "windows" THEN FoldLeft(Visit, <<>>, desk) ELSE <<>>

\* resolve_apps: a row for every entry, running or not.
ResolvedRow(e, places) ==
    LET process == NormalizeEntry("windows", e)
        running == SelectInSeq(RunningApps, LAMBDA r : r.process = process)
    IN  IF Os # "windows" THEN Row(e, "", FriendlyProcessName)
        ELSE IF running # 0 THEN RunningApps[running]
        ELSE Row(process, "", DisplayName(InstalledExecutable(places)))
ResolveApps(list, places) == {ResolvedRow(e, places) : e \in list}

\* The check mark of a row.
Checked(r) == r.process \in entries

-----------------------------------------------------------------------------
BlockInit ==
    /\ shell \in [window : {"egui", "web"}, os : DOMAIN Desktops, tools : {None}]
                 \cup [window : {"legacy"}, os : {"windows"}, tools : {None}]
                 \cup [window : {"egui", "web"}, os : {"linux"},
                       tools : [xdotool : BOOLEAN, xprop : BOOLEAN, x11 : BOOLEAN,
                                wmctrl : {"cannot run", "lists it", "lists others"}]]
    /\ (shell.os = "linux") = (shell.tools # None)
    /\ entries = {} /\ saved = {} /\ desk = <<>> /\ focused = 0 /\ picker = <<>> /\ blockInputs = 0

BlockInput == blockInputs < MaxBlockInputs /\ blockInputs' = blockInputs + 1
DraftOnly == BlockInput /\ UNCHANGED <<shell, saved, desk, focused, picker>>

\* What a window keeps of what was typed.
Kept(n) == IF shell.window = "web" THEN Plain(n) ELSE NormalizeEntry(Os, n)
With(list, n) == list \cup {n}
Without(list, n) == list \ {n}

TypeEntry(n) ==
    /\ ~Blank(n) /\ entries' = With(entries, Kept(n)) /\ DraftOnly
RemoveFromList(n) == entries' = Without(entries, n) /\ DraftOnly
ClearList == entries' = {} /\ DraftOnly

\* Not in the legacy window.
ToggleRow(r) ==
    /\ shell.window # "legacy" /\ entries' = IF Checked(r) THEN Without(entries, r.process)
                                           ELSE With(entries, r.process)
    /\ DraftOnly
RefreshPicker ==
    /\ shell.window # "legacy" /\ picker' = RunningApps /\ BlockInput
    /\ UNCHANGED <<shell, entries, saved, desk, focused>>

MergeLists(list) ==
    entries' = entries \cup Normalized(Os, list) /\ DraftOnly
ReplaceDefaults(list) ==
    shell.window # "legacy" /\ entries' = Normalized(Os, list) /\ DraftOnly

\* Reload, Reset, Cancel and opening: a page that has saved keeps its own spelling.
RebaseList == entries' = saved /\ DraftOnly

\* The core stores the list normalized.  The egui and the legacy window take it
\* over, the page takes its entries for the saved configuration.
SaveList ==
    /\ saved' = Normalized(Os, entries)
    /\ entries' = IF shell.window = "web" THEN entries ELSE Normalized(Os, entries)
    /\ BlockInput /\ UNCHANGED <<shell, desk, focused, picker>>

\* The file is edited and loaded, and the window opened on it.
EditList(list) ==
    /\ saved' = Normalized(Os, list) /\ entries' = saved'
    /\ BlockInput /\ UNCHANGED <<shell, desk, focused, picker>>

DeskChanges(d, f) ==
    /\ desk' = d /\ focused' = f
    /\ BlockInput /\ UNCHANGED <<shell, entries, saved, picker>>

-----------------------------------------------------------------------------
(* The gate of a shortcut or a turn of the wheel. *)

\* The same program, as a user sees it.
SameProgram(e, program) ==
    Stripped(Plain(e), Suffix[Os]) = Stripped(Plain(program), Suffix[Os])
Names(list, program) == \E e \in list : SameProgram(e, program)

\* AppCore::apply_hotkey: the two that open something pass.
Opening == {"OpenMenu", "OpenMixer"}
Silenced(action) ==
    /\ action \notin Opening /\ ForegroundProcess # None
    /\ IsBlacklisted(Os, saved, ForegroundProcess)

BlockNext ==
    \/ \E n \in TypedNames : TypeEntry(n)
    \/ \E n \in entries : RemoveFromList(n)
    \/ \E r \in ToSet(picker) : ToggleRow(r)
    \/ ClearList \/ RefreshPicker \/ RebaseList \/ SaveList
    \/ \E list \in RecommendedLists[Os] : MergeLists(list) \/ ReplaceDefaults(list)
    \/ \E n \in TypedNames : EditList({n})
    \/ \E d \in Desktops[Os] : \E f \in 0..Len(d) : DeskChanges(d, f)

-----------------------------------------------------------------------------
\* A shortcut is silenced exactly while a program of the saved list has the focus,
\* however its entry was spelled; excepted are a program that cannot be found out, and
\* on Linux one whose name /proc cuts.
GateIsTheList ==
    ForegroundProcess # None =>
        LET program == desk[focused].program
        IN  (Os = "linux" => Comm(program) = program) =>
                \A a \in {"VolumeUp"} \cup Opening :
                    Silenced(a) <=> a \notin Opening /\ Names(saved, program)

\* "checked = blocked" (settings/blacklist.rs): a row is checked exactly if saving the
\* entries would silence its program; a page does not promise it for an entry as typed.
AsTyped == \E e \in entries : e # NormalizeEntry(Os, e)
CheckedIsBlocked ==
    ~AsTyped => \A r \in ToSet(picker) : Checked(r) <=> Names(entries, r.process)

\* One row for a program (host_core.rs:118), for every window that can be picked, with a
\* title if one of its windows has one; a row and an entry have a name, never
\* Windows' own.
RowsAreThePrograms ==
    /\ \A r, s \in ToSet(RunningApps) : r.process = s.process => r = s
    /\ Os = "windows" => \A i \in DOMAIN desk : Picked(desk[i]) =>
         \E r \in ToSet(RunningApps) : /\ r.process = NormalizeEntry(Os, desk[i].program)
                                       /\ desk[i].title # "" => r.title # ""
    /\ \A r \in ResolveApps(saved, <<None, None>>) \cup ToSet(RunningApps) :
         r.name \notin {None, "generic"}

BlockingIsHonest == GateIsTheList /\ CheckedIsBlocked /\ RowsAreThePrograms
=============================================================================
