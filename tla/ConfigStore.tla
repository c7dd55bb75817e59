----------------------------- MODULE ConfigStore ----------------------------
(***************************************************************************)
(* The configuration of AppCore: the copy in memory, config.ini and the    *)
(* legacy config.json on disk, the modification time that tells an outside *)
(* edit from an own save, and the shortcuts the global listener holds      *)
(* (host_core.rs, config.rs, config_ini.rs in crates/volumectl/src).       *)
(*                                                                         *)
(* A handler runs under the AppCore mutex, but the files do not belong to  *)
(* it: an editor can rewrite them between any two file operations, and the *)
(* process can die between any two.  Each file operation is one step.      *)
(***************************************************************************)
EXTENDS Integers

CONSTANTS
    Modifiers,   \* the hotkey modifiers in use
    Recorded,    \* shortcuts a user recorded that are no modifier's preset
    Lists,       \* what else a config holds, told apart by its blacklist
    Times,       \* modification times: enough that a write finds a fresh one
    Egui,        \* TRUE: the egui host, which undoes a draft it cannot save
    Legacy,      \* what config.json may hold: Absent, Bad or a config
    Edits,       \* what an editor may leave in config.ini, likewise
    Absent, Bad, None,
    MaxFaults    \* bound: file operations that fail in a behaviour

ASSUME ModifiersAssumption ==
    "CtrlAlt" \in Modifiers /\ Modifiers \subseteq {"CtrlAlt", "Alt", "Ctrl", "CapsLock"}
ASSUME ListsAssumption ==
    "plain" \in Lists /\ Lists \subseteq {"plain", "edited", "messy", "broken"}
ASSUME ModeAssumption == Egui \in BOOLEAN
ASSUME TimesAssumption ==
    /\ None \notin Times
    /\ \A a, b, c \in Times \cup {None} : \E t \in Times : t \notin {a, b, c}
ASSUME FaultsAssumption == MaxFaults \in Nat
ASSUME AbsenceAssumption == None \notin {"CtrlAlt", "Alt", "Ctrl"} \cup Recorded

VARIABLES
    ini, mtime,  \* config.ini: Absent, Bad (unparsable) or a config; its time
    json,        \* config.json
    mem,         \* AppCore.config
    seen,        \* AppCore.last_config_mtime
    bound,       \* the bindings GlobalHotkeys holds (and hotkey_status tells)
    notice,      \* AppCore.config_notice
    pc,          \* the file operation the running handler makes next
    booting,     \* TRUE while the load is the one of main, before AppCore::new
    draft,       \* the config that handler writes or adopts
    undo,        \* the config the egui host goes back to, or None
    token,       \* the time a reload read before the file
    faults,
    persisted,   \* history: the config last saved or loaded
    missed,      \* history: the file changed between an own operation and the
                 \* reading of the time that stands for it, or a read failed
    saver,       \* history: the last write to config.ini was AppCore's whole save
    unsaved,     \* history: memory was changed, saving it failed, and nothing undid it
    carried,     \* history: config.ini was last written from config.json: "no",
                 \* "migrated" or "repaired"
    behind       \* history: the shortcuts changed in memory ahead of the comparison
                 \* that tells the listener, and it has been told of none since

disk == <<ini, mtime, json>>
core == <<mem, seen, bound, notice>>
call == <<pc, booting, draft, undo, token>>
hist == <<persisted, missed, saver, unsaved, carried, behind>>
vars == <<disk, core, call, faults, hist>>

\* HotkeyBindings::for_modifier: CapsLock cannot be registered and shares the
\* Ctrl+Alt preset.
Preset(m) == IF m = "CapsLock" THEN "CtrlAlt" ELSE m
Bindings  == {Preset(m) : m \in Modifiers} \cup Recorded
DefaultBindings == Preset("CtrlAlt")

\* A blacklist is plain, edited, messy (entries not yet normalized) or broken:
\* an entry holds a line break, which an INI line cannot.
Configs == [modifier : Modifiers, hotkeys : Bindings \cup {None}, list : Lists]
Default == [modifier |-> "CtrlAlt", hotkeys |-> DefaultBindings, list |-> "plain"]

NormalList(l) == IF l = "messy" THEN "plain" ELSE l
Normalize(c) ==
    [modifier |-> c.modifier,
     hotkeys  |-> IF c.hotkeys = None THEN Preset(c.modifier) ELSE c.hotkeys,
     list     |-> NormalList(c.list)]

\* serialize_ini: refuses a line break, and spells absent bindings as defaults.
Savable(c) == c.list # "broken"
\* Mutant of OnDisk: the shortcuts are not written.
OnDiskNoKeys(c) == [c EXCEPT !.hotkeys = DefaultBindings]
OnDisk(c)  == [c EXCEPT !.hotkeys = IF @ = None THEN DefaultBindings ELSE @]

\* A config as it lives in memory: normalized.
Live == {Normalize(c) : c \in Configs}
\* What an INI file can say: no line breaks inside entries.
FileConfigs == {c \in Configs : Savable(c)}

FreshTime == CHOOSE t \in Times : t \notin {mtime, seen, token}
\* A file operation puts c into config.ini.
PutIni(c) == ini' = c /\ mtime' = FreshTime /\ UNCHANGED json

ASSUME FilesAssumption == /\ Edits \subseteq FileConfigs \cup {Absent, Bad}
                          /\ Legacy \subseteq Configs \cup {Absent, Bad}
                          /\ {Absent, Bad, None} \cap Configs = {} /\ Absent # Bad

CanFail == faults > 0 /\ faults' = faults - 1
Works   == UNCHANGED faults

Init ==
    /\ ini \in Edits
    /\ json \in Legacy
    /\ mtime = IF ini = Absent THEN None ELSE CHOOSE t \in Times : TRUE
    /\ mem = Default /\ seen = None /\ bound = DefaultBindings /\ notice = "none"
    /\ pc = "down" /\ booting = FALSE /\ draft = Default /\ undo = None /\ token = None
    /\ faults = MaxFaults
    /\ persisted = Default /\ missed = FALSE /\ saver = FALSE
    /\ unsaved = FALSE /\ carried = "no" /\ behind = FALSE

-----------------------------------------------------------------------------
(* Loading: load_existing_with_notice, at startup and in a live reload. *)

\* main, before AppCore exists: load_with_notice.
Start ==
    /\ pc = "down"
    /\ pc' = "read" /\ booting' = TRUE
    /\ UNCHANGED <<disk, core, draft, undo, token, faults, hist>>

\* Mutant of ReloadPoll: a file that had no time is not looked at.
ReloadKnownOnly ==
    /\ pc = "idle" /\ seen # None /\ mtime # seen
    /\ pc' = "read" /\ token' = mtime
    /\ UNCHANGED <<disk, core, booting, draft, undo, faults, hist>>

\* reload_config_if_changed, from the 150 ms poll.
ReloadPoll ==
    /\ pc = "idle" /\ mtime # seen
    /\ pc' = "read" /\ token' = mtime
    /\ UNCHANGED <<disk, core, booting, draft, undo, faults, hist>>

\* force_reload_config, from Cancel and from the tray: a missing file has no
\* time, like the time that was just forgotten, and is not loaded.
ForceReload ==
    /\ pc = "idle"
    /\ seen' = None
    /\ IF mtime = None THEN UNCHANGED call
       ELSE pc' = "read" /\ token' = mtime /\ UNCHANGED <<booting, draft, undo>>
    /\ UNCHANGED <<disk, mem, bound, notice, faults, hist>>

\* Mutant of Rebind: recorded shortcuts are not compared.
RebindOnModifier(c) ==
    IF c.modifier # mem.modifier THEN bound' = c.hotkeys /\ behind' = FALSE
    ELSE UNCHANGED <<bound, behind>>

Rebind(c) ==
    IF c.modifier # mem.modifier \/ c.hotkeys # mem.hotkeys
    THEN bound' = c.hotkeys /\ behind' = FALSE
    ELSE UNCHANGED <<bound, behind>>

\* The load returns c with a notice: AppCore::new follows, or the reload ends.
Loaded(c, note) ==
    /\ mem' = c /\ persisted' = c /\ unsaved' = FALSE /\ notice' = note
    /\ draft' = Default /\ token' = None
    /\ IF booting THEN pc' = "boot" /\ UNCHANGED <<seen, bound, behind>>
       ELSE pc' = "idle" /\ seen' = token /\ Rebind(c)
    /\ UNCHANGED <<booting, undo>>

\* The load returns an error: startup goes on with defaults, a reload keeps the
\* running config and does not look at this file again.
LoadFailed ==
    /\ IF booting THEN pc' = "defaults" /\ UNCHANGED <<seen, notice>>
       ELSE pc' = "idle" /\ seen' = token /\ notice' = "invalid"
    /\ draft' = Default /\ token' = None
    /\ UNCHANGED <<mem, bound, persisted, unsaved, behind, booting, undo>>

\* load_ini, or the decision to fall back on config.json.
Read ==
    /\ pc = "read"
    /\ \/ /\ ini \in Configs /\ Works
          /\ Loaded(Normalize(ini), "none") /\ missed' = FALSE
       \/ /\ ini = Absent /\ Works
          /\ pc' = "migrate"
          /\ UNCHANGED <<core, booting, draft, undo, token, persisted, missed, unsaved, behind>>
       \/ /\ IF ini = Bad THEN Works /\ UNCHANGED missed
             ELSE ini # Absent /\ CanFail /\ missed' = TRUE
          /\ IF json \in Configs
             THEN /\ pc' = "repair" /\ draft' = Normalize(json)
                  /\ UNCHANGED <<core, booting, undo, token, persisted, unsaved, behind>>
             ELSE LoadFailed
    /\ UNCHANGED <<disk, saver, carried>>

\* The legacy config is in use whether or not it could be written over config.ini.
Repair ==
    /\ pc = "repair" /\ Loaded(draft, "recovered")
    /\ \/ /\ Savable(draft) /\ Works
          /\ PutIni(draft) /\ missed' = FALSE /\ saver' = FALSE /\ carried' = "repaired"
       \/ /\ CanFail \/ (~Savable(draft) /\ Works)
          /\ UNCHANGED <<disk, missed, saver, carried>>

\* migrate_json_to_ini, unless a config.ini has appeared meanwhile; the legacy
\* config is written as it is.
Migrate ==
    /\ pc = "migrate"
    /\ \/ /\ ini = Absent /\ json \in Configs /\ Savable(json) /\ Works
          /\ PutIni(OnDisk(json)) /\ saver' = FALSE /\ carried' = "migrated"
          /\ pc' = "readback" /\ notice' = "migrated"
          /\ UNCHANGED <<mem, seen, bound, booting, draft, undo, token, persisted,
                         unsaved, behind>>
       \/ /\ ini # Absent /\ Works
          /\ pc' = "readback" /\ notice' = "none"
          /\ UNCHANGED <<disk, mem, seen, bound, booting, draft, undo, token,
                         persisted, saver, unsaved, carried, behind>>
       \/ /\ ini = Absent
          /\ IF json \in Configs /\ Savable(json) THEN CanFail ELSE Works
          /\ LoadFailed /\ UNCHANGED <<disk, saver, carried>>
    /\ UNCHANGED missed

\* load_ini of what the migration found or wrote.
Readback ==
    /\ pc = "readback"
    /\ \/ /\ ini \in Configs /\ Works
          /\ Loaded(Normalize(ini), notice) /\ missed' = FALSE
       \/ /\ IF ini \in Configs THEN CanFail /\ missed' = TRUE
             ELSE Works /\ UNCHANGED missed
          /\ LoadFailed
    /\ UNCHANGED <<disk, saver, carried>>

\* The startup's last resort: defaults, saved if that works.
Defaults ==
    /\ pc = "defaults" /\ pc' = "boot"
    /\ mem' = Default /\ persisted' = Default
    /\ notice' = IF ini = Absent /\ json = Absent THEN "none" ELSE "defaults"
    /\ saver' = FALSE
    /\ \/ Works /\ PutIni(Default) /\ missed' = FALSE /\ carried' = "no"
       \/ CanFail /\ UNCHANGED <<disk, missed, carried>>
    /\ UNCHANGED <<seen, bound, booting, draft, undo, token, unsaved, behind>>

\* AppCore::new_inner registers the bindings and reads the file's time.
Boot ==
    /\ pc = "boot" /\ pc' = "idle" /\ booting' = FALSE
    /\ bound' = mem.hotkeys /\ seen' = mtime
    /\ UNCHANGED <<disk, mem, notice, draft, undo, token, faults, hist>>

-----------------------------------------------------------------------------
(* Changing and saving. *)

\* A handler that changes the config in memory first and then saves it.
ChangeInPlace(c, next, back) ==
    /\ pc = "idle"
    /\ mem' = c /\ draft' = c /\ undo' = back
    /\ pc' = next
    /\ behind' = (behind \/ c.hotkeys # mem.hotkeys)
    /\ UNCHANGED <<disk, seen, bound, notice, booting, token, faults, persisted,
                   missed, saver, unsaved, carried>>

\* update_settings, then save_config: entries of the blacklist are normalized
\* one by one, but a line break inside one passes.
ApplyDraft ==
    \E l \in Lists, k \in Bindings :
       ChangeInPlace([mem EXCEPT !.list = NormalList(l), !.hotkeys = k], "write",
                     IF Egui THEN mem ELSE None)

\* SetTheme and its kin, the blacklist actions, ApplyConfig: save_and_adopt.
FieldAction ==
    \E l \in Lists : ChangeInPlace([mem EXCEPT !.list = NormalList(l)], "write", None)

ResetConfig == ChangeInPlace(Default, "write", None)

\* apply_recommended_blacklist saves once by itself when it added anything.
ApplyRecommended ==
    /\ "edited" \in Lists /\ mem.list = "plain"
    /\ ChangeInPlace([mem EXCEPT !.list = "edited"], "sideWrite", None)

\* set_modifier saves a copy and leaves memory alone until that worked.
SetModifier ==
    /\ pc = "idle"
    /\ \E m \in Modifiers :
         draft' = [mem EXCEPT !.modifier = m, !.hotkeys = Preset(m)]
    /\ undo' = None /\ pc' = "write"
    /\ UNCHANGED <<disk, core, booting, token, faults, hist>>

SideWrite ==
    /\ pc = "sideWrite" /\ pc' = "write"
    /\ \/ /\ Savable(mem) /\ Works
          /\ PutIni(OnDisk(mem)) /\ saver' = TRUE /\ carried' = "no"
       \/ /\ CanFail \/ (~Savable(mem) /\ Works)
          /\ UNCHANGED <<disk, saver, carried>>
    /\ UNCHANGED <<core, booting, draft, undo, token, persisted, missed, unsaved, behind>>

\* Mutant of Write: a draft that could not be saved stays in memory.
WriteNoUndo ==
    /\ pc = "write"
    /\ \/ /\ Savable(draft) /\ Works
          /\ draft' = Normalize(draft) /\ PutIni(draft')
          /\ persisted' = draft' /\ missed' = FALSE /\ saver' = TRUE /\ unsaved' = FALSE
          /\ carried' = "no"
          /\ pc' = "adopt"
       \/ /\ CanFail \/ (~Savable(draft) /\ Works)
          /\ pc' = "idle" /\ draft' = Default
          /\ saver' = FALSE /\ UNCHANGED <<disk, persisted, missed, unsaved, carried>>
    /\ undo' = None /\ UNCHANGED <<core, behind, booting, token>>

\* save_validated: a temporary file, renamed over config.ini.
Write ==
    /\ pc = "write"
    /\ \/ /\ Savable(draft) /\ Works
          /\ draft' = Normalize(draft)
          /\ PutIni(draft')
          /\ persisted' = draft' /\ missed' = FALSE /\ saver' = TRUE /\ unsaved' = FALSE
          /\ carried' = "no"
          /\ pc' = "adopt"
          /\ UNCHANGED undo
       \/ /\ CanFail \/ (~Savable(draft) /\ Works)
          /\ IF undo = None THEN pc' = "idle" /\ draft' = Default
             ELSE pc' = "restore" /\ draft' = undo
          /\ undo' = None
          /\ unsaved' = (unsaved \/ (undo = None /\ mem # persisted))
          /\ saver' = FALSE
          /\ UNCHANGED <<disk, persisted, missed, carried>>
    /\ UNCHANGED <<core, behind, booting, token>>

\* adopt_saved_config: the listener is told only of a difference to what memory
\* holds by now.
AdoptConfig ==
    /\ mem' = draft /\ seen' = mtime
    /\ Rebind(draft)
    /\ pc' = "idle" /\ draft' = Default /\ undo' = None
    /\ UNCHANGED <<disk, notice, booting, token, faults, persisted, saver, unsaved, carried>>

Adopt == pc = "adopt" /\ AdoptConfig /\ UNCHANGED missed
\* restore_config, after a draft the egui host could not save.
RestoreConfig == pc = "restore" /\ AdoptConfig /\ missed' = (missed \/ mtime # seen)

-----------------------------------------------------------------------------
(* The outside. *)

\* An editor, or another process, replaces config.ini by anything.
Edit ==
    /\ ini' \in Edits
    /\ mtime' = IF ini' = Absent THEN None ELSE FreshTime
    /\ missed' = (missed \/ pc \in {"boot", "adopt", "defaults"}
                         \/ (booting /\ pc = "repair"))
    /\ saver' = FALSE /\ carried' = "no"
    /\ UNCHANGED <<json, core, call, faults, persisted, unsaved, behind>>

\* The process ends, by itself or not, and its memory with it; a rename in
\* progress has happened or not.
Crash ==
    /\ pc # "down" /\ pc' = "down"
    /\ mem' = Default /\ seen' = None /\ bound' = DefaultBindings /\ notice' = "none"
    /\ booting' = FALSE /\ draft' = Default /\ undo' = None /\ token' = None
    /\ persisted' = Default /\ missed' = FALSE /\ saver' = FALSE
    /\ unsaved' = FALSE /\ behind' = FALSE
    /\ UNCHANGED <<disk, faults, carried>>

Operation == ApplyDraft \/ FieldAction \/ ResetConfig \/ ApplyRecommended
             \/ SetModifier \/ ForceReload
Handler == Read \/ Repair \/ Migrate \/ Readback \/ Defaults \/ Boot
           \/ SideWrite \/ Write \/ Adopt \/ RestoreConfig
Next == Start \/ Operation \/ Handler \/ ReloadPoll \/ Edit \/ Crash

\* A handler runs to its end and the slow poll comes round every 150 ms.
Spec == Init /\ [][Next]_vars
FairSpec == Spec /\ WF_vars(Handler) /\ WF_vars(ReloadPoll)

-----------------------------------------------------------------------------
(* Properties. *)

\* Every variable keeps its type; memory holds normalized configs only.
TypeOK ==
    /\ ini \in FileConfigs \cup {Absent, Bad}
    /\ json \in Legacy
    /\ mtime \in Times \cup {None} /\ seen \in Times \cup {None}
    /\ token \in Times \cup {None}
    /\ mem \in Live /\ persisted \in Live
    /\ bound \in Bindings
    /\ notice \in {"none", "migrated", "recovered", "defaults", "invalid"}
    /\ pc \in {"down", "read", "repair", "migrate", "readback", "defaults", "boot",
              "idle", "sideWrite", "write", "adopt", "restore"}
    /\ booting \in BOOLEAN
    /\ draft \in Live /\ undo \in Live \cup {None}
    /\ faults \in 0 .. MaxFaults
    /\ missed \in BOOLEAN /\ saver \in BOOLEAN
    /\ unsaved \in BOOLEAN /\ behind \in BOOLEAN
    /\ carried \in {"no", "migrated", "repaired"}

\* When the recorded time is the file's time, the config last saved or loaded is
\* the file's content: an edit escapes the poll only if it fell between an own
\* file operation and the reading of the time, or if reading it failed.
EditsAreSeen ==
    pc = "idle" /\ seen = mtime /\ ini \in Configs /\ ~missed
      => persisted = Normalize(ini)

\* The same without the exception: every edit reloads automatically.
EveryEditIsSeen ==
    pc = "idle" /\ seen = mtime /\ ini \in Configs => persisted = Normalize(ini)

\* Between handlers memory is what was last saved or loaded, unless saving it failed
\* where nothing undoes the change (the egui host undoes a draft); and an own save
\* is not taken for an outside edit, so it causes no reload with its flash of the
\* overlay.
MemoryIsPersisted ==
    pc = "idle" => /\ ~unsaved => mem = persisted
                   /\ saver => seen = mtime

\* Memory, the file and the recorded time agree between handlers.
MemoryAndFileAgree == MemoryIsPersisted /\ EditsAreSeen

\* The global listener holds the bindings of the running config, unless a draft or
\* a reset changed the shortcuts in memory ahead of adopt_saved_config's comparison
\* and nothing has been registered since.
ListenerFollowsConfig == pc = "idle" /\ ~behind => bound = mem.hotkeys

\* The same without the exception, as save_config's comment promises.
ListenerAlwaysFollows == pc = "idle" => bound = mem.hotkeys

\* What update_settings leaves in memory can be saved.
MemoryIsSavable == pc = "idle" => Savable(mem)

\* What the legacy config comes to, once it is carried over: a repair upgrades a bare
\* modifier to its preset, but a migration writes it with the default shortcuts.
CarriedOver ==
    [Normalize(json) EXCEPT !.hotkeys =
        IF carried = "migrated" /\ json.hotkeys = None THEN DefaultBindings ELSE @]

\* A legacy config carried over to config.ini stays there as it was meant, through any
\* crash and restart, until something else writes the file; and between handlers it is
\* the running config, unless a time or a change of memory stands apart as noted.  A
\* migrated one that names only a modifier keeps it with the default shortcuts.
MigrationIsFaithful ==
    carried # "no" =>
        /\ Normalize(ini) = CarriedOver
        /\ pc = "idle" /\ seen = mtime /\ ~missed /\ ~unsaved => mem = CarriedOver

\* The same as the comment of Config has it: "Older config files that only contain the
\* modifier are upgraded to the corresponding preset during normalization".  A migrated
\* file with a bare Alt or Ctrl breaks it: it is written before it is normalized.
BareModifierIsUpgraded == carried # "no" => Normalize(ini) = Normalize(json)

\* A live reload of a malformed config.ini leaves the running config alone and
\* does not write the file.
LiveReloadKeepsLastGood ==
    [][ini = Bad /\ ~booting /\ pc \in {"read", "repair"} /\ pc' \notin {pc, "down"}
         => UNCHANGED <<mem, ini>>]_vars

\* Once no handler saves any more, a valid edit the poll has not seen yet is
\* adopted, unless it is replaced or the program ends first.
Quiet == <>[](pc \notin {"sideWrite", "write", "adopt", "restore"})
EditsAreAdopted ==
    Quiet /\ []~missed => \A c \in Edits \cap FileConfigs :
        (ini = c /\ mtime # seen) ~> (mem = Normalize(c) \/ ini # c \/ pc = "down")
=============================================================================
