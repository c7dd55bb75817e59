------------------------ MODULE ConfigStore_proofs -------------------------
(***************************************************************************)
(* Theorems about the configuration store, for every set of modifiers,     *)
(* lists, times, legacy files and edits, and any number of failures.       *)
(***************************************************************************)
EXTENDS ConfigStore, TLAPS

\* What memory holds: a config with its shortcuts and a normalized list.
LEMMA LiveConfigs ==
    /\ \A c : c \in Live <=> c \in Configs /\ c.hotkeys # None /\ c.list # "messy"
    /\ \A c \in Configs : Normalize(c) \in Live
    /\ \A c \in Live : Normalize(c) = c
  <1>1. None \notin Bindings /\ \A m \in Modifiers : Preset(m) \in Bindings
    BY ModifiersAssumption, AbsenceAssumption DEF Bindings, Preset
  <1>2. ASSUME NEW c \in Configs
        PROVE  /\ Normalize(c) \in Configs
               /\ Normalize(c).hotkeys # None /\ Normalize(c).list # "messy"
               /\ c.hotkeys # None /\ c.list # "messy" => Normalize(c) = c
    BY <1>1, ListsAssumption DEF Configs, Normalize, NormalList
  <1> QED BY <1>2 DEF Live

LEMMA NoConfig == \A c \in Configs : c \notin {Absent, Bad, None}
  BY FilesAssumption

LEMMA DefaultIsLive == Default \in Live /\ Savable(Default) /\ DefaultBindings \in Bindings
  <1>1. DefaultBindings \in Bindings /\ None \notin Bindings
    BY ModifiersAssumption, AbsenceAssumption DEF Bindings, Preset, DefaultBindings
  <1>2. Default \in Configs /\ Default.hotkeys # None /\ Default.list = "plain"
    BY <1>1, ModifiersAssumption, ListsAssumption DEF Default, Configs
  <1> QED BY <1>1, <1>2, LiveConfigs DEF Savable

\* A config with other fields of the right kind is one that memory may hold.
LEMMA LiveFields ==
    ASSUME NEW c \in Live, NEW m \in Modifiers, NEW k \in Bindings, NEW l \in Lists
    PROVE  /\ [c EXCEPT !.list = NormalList(l)] \in Live
           /\ [c EXCEPT !.list = NormalList(l), !.hotkeys = k] \in Live
           /\ [c EXCEPT !.modifier = m, !.hotkeys = Preset(m)] \in Live
           /\ "edited" \in Lists => [c EXCEPT !.list = "edited"] \in Live
           /\ c.hotkeys \in Bindings
  <1>1. None \notin Bindings /\ \A n \in Modifiers : Preset(n) \in Bindings
    BY ModifiersAssumption, AbsenceAssumption DEF Bindings, Preset
  <1>2. NormalList(l) \in Lists /\ NormalList(l) # "messy"
    BY ListsAssumption DEF NormalList
  <1>3. c \in Configs /\ c.hotkeys # None /\ c.list # "messy"
    BY LiveConfigs
  <1> QED BY <1>1, <1>2, <1>3, LiveConfigs DEF Configs

\* serialize_ini keeps a config a config, and one that a file can hold.
LEMMA WrittenConfigs ==
    ASSUME NEW c \in Configs, Savable(c)
    PROVE  OnDisk(c) \in FileConfigs /\ (c.hotkeys # None => OnDisk(c) = c)
  <1>1. OnDisk(c) \in Configs /\ OnDisk(c).list = c.list /\ (c.hotkeys # None => OnDisk(c) = c)
    BY DefaultIsLive DEF OnDisk, Configs
  <1> QED BY <1>1 DEF FileConfigs, Savable

LEMMA FreshIsFresh ==
    ASSUME TypeOK
    PROVE  /\ FreshTime \in Times /\ FreshTime \notin {mtime, seen, token, None}
  <1>1. \E t \in Times : t \notin {mtime, seen, token}
    BY TimesAssumption DEF TypeOK
  <1> QED BY <1>1, TimesAssumption DEF FreshTime

-----------------------------------------------------------------------------
\* Every variable keeps its type, and memory holds normalized configs only: no path
\* through loading, repairing, migrating or changing brings in one that is not.
THEOREM StoreTypeCorrect == Spec => []TypeOK
  <1>1. Init => TypeOK
    <2> SUFFICES ASSUME Init PROVE TypeOK
      OBVIOUS
    <2>1. mtime \in Times \cup {None}
      BY TimesAssumption DEF Init
    <2>2. missed \in BOOLEAN /\ saver \in BOOLEAN /\ unsaved \in BOOLEAN /\ behind \in BOOLEAN /\ booting \in BOOLEAN
      BY Zenon DEF Init
    <2> QED BY <2>1, <2>2, DefaultIsLive, FilesAssumption, FaultsAssumption DEF Init, TypeOK
  <1>2. TypeOK /\ [Next]_vars => TypeOK'
    <2> SUFFICES ASSUME TypeOK, [Next]_vars PROVE TypeOK'
      OBVIOUS
    <2>0. /\ CanFail => faults' \in 0 .. MaxFaults
          /\ Works => faults' \in 0 .. MaxFaults
      BY FaultsAssumption DEF TypeOK, CanFail, Works
    <2>1. ASSUME NEW c \in FileConfigs, PutIni(c)
          PROVE  ini' \in FileConfigs /\ json' \in Legacy /\ mtime' \in Times
      BY <2>1, FreshIsFresh DEF PutIni, TypeOK
    <2>2. ASSUME NEW c \in Live, Rebind(c) PROVE bound' \in Bindings /\ behind' \in BOOLEAN
      <3>1. c.hotkeys \in Bindings
        BY LiveFields, ModifiersAssumption, ListsAssumption, DefaultIsLive
      <3> QED BY <2>2, <3>1 DEF Rebind, TypeOK
    <2>3. CASE Start \/ ReloadPoll \/ ForceReload
      <3>1. /\ UNCHANGED <<disk, mem, bound, notice, draft, undo, faults, hist>>
            /\ seen' \in {seen, None} /\ token' \in {token, mtime} /\ pc' \in {pc, "read"}
        BY <2>3 DEF Start, ReloadPoll, ForceReload, core, call
      <3>2. booting' = booting \/ booting' = TRUE
        BY <2>3 DEF Start, ReloadPoll, ForceReload, call
      <3>3. booting' \in BOOLEAN
        BY <3>2, Zenon DEF TypeOK
      <3>4. UNCHANGED <<ini, mtime, json, persisted, missed, saver, unsaved, carried, behind>>
        BY <3>1 DEF disk, hist
      <3> QED BY <3>1, <3>3, <3>4 DEF TypeOK
    <2>4. ASSUME NEW c \in Live, NEW note \in {"none", "migrated", "recovered", "defaults", "invalid"},
                 Loaded(c, note)
          PROVE  /\ mem' \in Live /\ persisted' \in Live /\ unsaved' \in BOOLEAN /\ behind' \in BOOLEAN
                 /\ notice' \in {"none", "migrated", "recovered", "defaults", "invalid"}
                 /\ draft' \in Live /\ token' = None /\ seen' \in Times \cup {None}
                 /\ pc' \in {"boot", "idle"} /\ bound' \in Bindings
                 /\ booting' \in BOOLEAN /\ undo' \in Live \cup {None}
      <3>1. unsaved' \in BOOLEAN
        BY <2>4, Zenon DEF Loaded
      <3> QED BY <2>4, <3>1, <2>2, DefaultIsLive DEF Loaded, TypeOK
    <2>5. ASSUME LoadFailed
          PROVE  /\ mem' \in Live /\ persisted' \in Live /\ unsaved' \in BOOLEAN /\ behind' \in BOOLEAN
                 /\ notice' \in {"none", "migrated", "recovered", "defaults", "invalid"}
                 /\ draft' \in Live /\ token' = None /\ seen' \in Times \cup {None}
                 /\ pc' \in {"defaults", "idle"} /\ bound' \in Bindings
                 /\ booting' \in BOOLEAN /\ undo' \in Live \cup {None}
      BY <2>5, DefaultIsLive DEF LoadFailed, TypeOK
    <2>6. CASE Read
      <3>1. missed' \in BOOLEAN
        BY <2>6, Zenon DEF Read, TypeOK
      <3>2. CASE ini \in Configs /\ Works /\ Loaded(Normalize(ini), "none") /\ UNCHANGED <<disk, saver, carried>>
        BY <2>0, <2>4, <3>1, <3>2, LiveConfigs DEF TypeOK, disk
      <3>3. CASE /\ ini = Absent /\ Works /\ pc' = "migrate"
                 /\ UNCHANGED <<disk, saver, carried, core, booting, draft, undo, token, persisted, unsaved, behind>>
        BY <2>0, <3>1, <3>3 DEF TypeOK, disk, core
      <3>4. CASE /\ Works \/ CanFail
                 /\ UNCHANGED <<disk, saver, carried>>
                 /\ \/ /\ json \in Configs /\ pc' = "repair" /\ draft' = Normalize(json)
                       /\ UNCHANGED <<core, booting, undo, token, persisted, unsaved, behind>>
                    \/ LoadFailed
        BY <2>0, <2>5, <3>1, <3>4, LiveConfigs DEF TypeOK, disk, core
      <3> QED BY <2>6, <3>2, <3>3, <3>4 DEF Read
    <2>7. CASE Repair
      <3>1. missed' \in BOOLEAN /\ saver' \in BOOLEAN
        BY <2>7, Zenon DEF Repair, TypeOK
      <3>2. draft \in Configs /\ (Savable(draft) => draft \in FileConfigs)
        BY LiveConfigs DEF TypeOK, FileConfigs
      <3> QED BY <2>0, <2>1, <2>4, <2>7, <3>1, <3>2 DEF Repair, TypeOK, disk
    <2>8. CASE Migrate
      <3>1. missed' \in BOOLEAN /\ saver' \in BOOLEAN
        BY <2>8, Zenon DEF Migrate, TypeOK
      <3> QED BY <2>0, <2>1, <2>5, <2>8, <3>1, WrittenConfigs DEF Migrate, TypeOK, disk
    <2>9. CASE Readback
      <3>1. missed' \in BOOLEAN
        BY <2>9, Zenon DEF Readback, TypeOK
      <3> QED BY <2>0, <2>4, <2>5, <2>9, <3>1, LiveConfigs DEF Readback, TypeOK, disk
    <2>10. CASE Defaults
      <3>1. missed' \in BOOLEAN /\ saver' \in BOOLEAN
        BY <2>10, Zenon DEF Defaults, TypeOK
      <3>2. Default \in FileConfigs
        BY DefaultIsLive, LiveConfigs DEF FileConfigs
      <3> QED BY <2>0, <2>1, <2>10, <3>1, <3>2, DefaultIsLive DEF Defaults, TypeOK, disk
    <2>11. CASE Boot
      <3>1. booting' \in BOOLEAN
        BY <2>11, Zenon DEF Boot
      <3>2. mem.hotkeys \in Bindings
        BY LiveFields, ModifiersAssumption, ListsAssumption, DefaultIsLive DEF TypeOK
      <3> QED BY <2>11, <3>1, <3>2 DEF Boot, TypeOK, disk, hist
    <2>12. ASSUME NEW c \in Live, NEW next \in {"write", "sideWrite"}, NEW back \in Live \cup {None},
                  ChangeInPlace(c, next, back)
           PROVE  TypeOK'
      <3>1. behind' \in BOOLEAN
        BY <2>12, Zenon DEF ChangeInPlace, TypeOK
      <3> QED BY <2>12, <3>1 DEF ChangeInPlace, TypeOK, disk
    <2>13. CASE ApplyDraft \/ FieldAction \/ ResetConfig \/ ApplyRecommended
      <3>1. mem \in Live
        BY DEF TypeOK
      <3> QED BY <2>12, <2>13, <3>1, LiveFields, DefaultIsLive, ModifiersAssumption
              DEF ApplyDraft, FieldAction, ResetConfig, ApplyRecommended
    <2>14. CASE SetModifier
      <3>1. draft' \in Live
        <4>1. PICK m \in Modifiers : draft' = [mem EXCEPT !.modifier = m, !.hotkeys = Preset(m)]
          BY <2>14 DEF SetModifier
        <4> QED BY <4>1, LiveFields, ListsAssumption, DefaultIsLive DEF TypeOK
      <3> QED BY <2>14, <3>1 DEF SetModifier, TypeOK, disk, core, hist
    <2>15. CASE SideWrite
      <3>1. saver' \in BOOLEAN
        BY <2>15, Zenon DEF SideWrite, TypeOK
      <3> QED BY <2>0, <2>1, <2>15, <3>1, LiveConfigs, WrittenConfigs DEF SideWrite, TypeOK, disk, core
    <2>16. CASE Write
      <3>1. missed' \in BOOLEAN /\ saver' \in BOOLEAN /\ unsaved' \in BOOLEAN
        BY <2>16, Zenon DEF Write, TypeOK
      <3>2. draft \in Live /\ Normalize(draft) = draft
        BY LiveConfigs DEF TypeOK
      <3>3. Savable(draft) => draft \in FileConfigs
        BY <3>2, LiveConfigs DEF FileConfigs
      <3> QED BY <2>0, <2>1, <2>16, <3>1, <3>2, <3>3, DefaultIsLive DEF Write, TypeOK, disk, core
    <2>17. CASE Adopt \/ RestoreConfig
      <3>1. missed' \in BOOLEAN
        BY <2>17, Zenon DEF Adopt, RestoreConfig, TypeOK
      <3>2. AdoptConfig
        BY <2>17 DEF Adopt, RestoreConfig
      <3> QED BY <2>2, <3>1, <3>2, DefaultIsLive DEF AdoptConfig, TypeOK, disk
    <2>18. CASE Edit
      <3>1. missed' \in BOOLEAN /\ saver' \in BOOLEAN
        BY <2>18, Zenon DEF Edit, TypeOK
      <3> QED BY <2>18, <3>1, FreshIsFresh, FilesAssumption DEF Edit, TypeOK, core, call
    <2>19. CASE Crash
      <3>1. missed' \in BOOLEAN /\ saver' \in BOOLEAN /\ unsaved' \in BOOLEAN /\ behind' \in BOOLEAN
            /\ booting' \in BOOLEAN
        BY <2>19, Zenon DEF Crash
      <3> QED BY <2>19, <3>1, DefaultIsLive DEF Crash, TypeOK, disk
    <2>20. CASE UNCHANGED vars
      BY <2>20 DEF vars, TypeOK, disk, core, call, hist
    <2> QED
      BY <2>3, <2>6, <2>7, <2>8, <2>9, <2>10, <2>11, <2>13, <2>14, <2>15, <2>16, <2>17, <2>18, <2>19, <2>20
         DEF Next, Operation, Handler
  <1> QED BY <1>1, <1>2, PTL DEF Spec

-----------------------------------------------------------------------------
\* Only the load of main runs while the program boots, and the defaults only there.
Phases ==
    /\ booting => pc \in {"read", "repair", "migrate", "readback", "defaults", "boot"}
    /\ pc \in {"defaults", "boot"} => booting
    /\ pc = "down" \/ booting => ~unsaved /\ ~behind /\ ~saver

\* The listener is behind only in a process that changed its shortcuts in memory.
ListenerInv ==
    /\ Phases
    /\ (pc # "down" /\ ~booting /\ ~behind => bound = mem.hotkeys)

LEMMA InitListener == Init => ListenerInv
  BY DEF Init, ListenerInv, Phases

LEMMA StepPhases == TypeOK /\ Phases /\ [Next]_vars => Phases'
  <1> SUFFICES ASSUME TypeOK, Phases, [Next]_vars PROVE Phases'
    OBVIOUS
  <1> USE DEF Phases
  <1>1. CASE Start
    BY <1>1 DEF Start, TypeOK, hist
  <1>2. CASE Read \/ Readback
    BY <1>2 DEF Read, Readback, Loaded, LoadFailed, Rebind, TypeOK, core
  <1>3. CASE Repair \/ Migrate
    BY <1>3 DEF Repair, Migrate, Loaded, LoadFailed, Rebind, TypeOK, core
  <1>4. CASE Defaults \/ Boot \/ Crash \/ Edit \/ UNCHANGED vars
    BY <1>4 DEF Defaults, Boot, Crash, Edit, vars, core, call, hist, TypeOK
  <1>5. ASSUME pc # "down", ~booting, ~booting', pc' \notin {"down", "defaults", "boot"} PROVE Phases'
    BY <1>5
  <1>6. CASE Operation \/ ReloadPoll \/ SideWrite \/ Write
    BY <1>5, <1>6 DEF Operation, ReloadPoll, ForceReload, SetModifier, SideWrite, Write, call, ApplyDraft,
       FieldAction, ResetConfig, ApplyRecommended, ChangeInPlace
  <1>7. CASE Adopt \/ RestoreConfig
    BY <1>7 DEF Adopt, RestoreConfig, AdoptConfig, TypeOK
  <1> QED BY <1>1, <1>2, <1>3, <1>4, <1>6, <1>7 DEF Next, Handler

LEMMA StepListener == TypeOK /\ ListenerInv /\ [Next]_vars => ListenerInv'
  <1> SUFFICES ASSUME TypeOK, ListenerInv, [Next]_vars, Phases',
                      pc' # "down", ~booting', ~behind'
               PROVE  bound' = mem'.hotkeys
    BY StepPhases DEF ListenerInv
  <1> USE DEF ListenerInv, Phases
  <1>1. ASSUME NEW c, Rebind(c), mem' = c, pc # "down", ~booting PROVE bound' = mem'.hotkeys
    BY <1>1 DEF Rebind
  <1>2. ASSUME NEW c, NEW note, Loaded(c, note), pc # "down" PROVE bound' = mem'.hotkeys
    BY <1>1, <1>2 DEF Loaded
  <1>3. ASSUME LoadFailed, pc # "down" PROVE bound' = mem'.hotkeys
    BY <1>3 DEF LoadFailed
  <1>4. CASE Read \/ Repair \/ Migrate \/ Readback
    BY <1>2, <1>3, <1>4 DEF Read, Repair, Migrate, Readback, core
  <1>5. CASE Defaults \/ Boot \/ Crash \/ Edit \/ UNCHANGED vars
    BY <1>5 DEF Defaults, Boot, Crash, Edit, vars, core, call, hist
  <1>6. CASE Start \/ ReloadPoll \/ ForceReload \/ SetModifier \/ SideWrite \/ Write
    BY <1>6 DEF Start, ReloadPoll, ForceReload, SetModifier, SideWrite, Write, core, call, hist
  <1>7. CASE ApplyDraft \/ FieldAction \/ ResetConfig \/ ApplyRecommended
    BY <1>7 DEF ApplyDraft, FieldAction, ResetConfig, ApplyRecommended, ChangeInPlace
  <1>8. CASE Adopt \/ RestoreConfig
    BY <1>1, <1>8 DEF Adopt, RestoreConfig, AdoptConfig, disk
  <1> QED BY <1>4, <1>5, <1>6, <1>7, <1>8 DEF Next, Operation, Handler

\* However loads, saves, undone drafts, editors and crashes interleave, the listener
\* holds the running config's shortcuts, except for those changed in memory ahead of
\* adopt_saved_config's comparison.
THEOREM ListenerIsTold == Spec => []ListenerFollowsConfig
  <1>1. ListenerInv => ListenerFollowsConfig
    BY DEF ListenerInv, Phases, ListenerFollowsConfig
  <1> QED BY <1>1, InitListener, StepListener, StoreTypeCorrect, PTL DEF Spec

-----------------------------------------------------------------------------
\* Where the program stands between two handlers, or in a load.
Loads == {"read", "repair", "migrate", "readback"}

\* The config to go back to, and the one to adopt, are the one last saved; an own
\* save is known by the recorded time, or by the one a load read before the file.
MemoryInv ==
    /\ pc \notin {"sideWrite", "write", "adopt", "restore"} /\ ~unsaved => mem = persisted
    /\ pc \in {"sideWrite", "write"} /\ undo # None /\ ~unsaved => undo = persisted
    /\ pc = "restore" /\ ~unsaved => draft = persisted
    /\ pc = "adopt" => draft = persisted
    /\ pc = "idle" /\ saver => seen = mtime
    /\ pc \in Loads /\ saver => token = mtime

\* What is known of the file, given the times that were read; a load that gave up
\* the file did so because it was no config, or because reading it failed.
Known == ini \in Configs /\ ~missed => persisted = Normalize(ini)
FileInv ==
    /\ mtime = None => ini = Absent
    /\ pc \in {"idle", "sideWrite", "write", "restore"} /\ seen = mtime => Known
    /\ pc \in {"adopt", "boot"} => Known
    /\ pc = "repair" /\ (booting \/ token = mtime) /\ ini \in Configs => missed
    /\ pc = "defaults" /\ ini \in Configs => missed

StoreInv == TypeOK /\ Phases /\ MemoryInv /\ FileInv

LEMMA InitStore == Init => MemoryInv /\ FileInv
  BY TimesAssumption DEF Init, MemoryInv, FileInv, Loads

LEMMA StepMemory == StoreInv /\ [Next]_vars => MemoryInv'
  <1> SUFFICES ASSUME StoreInv, [Next]_vars PROVE MemoryInv'
    OBVIOUS
  <1> USE DEF MemoryInv, Loads
  <1>0. TypeOK /\ Phases /\ MemoryInv
    BY DEF StoreInv
  <1>1. CASE Start \/ ReloadPoll \/ ForceReload
    BY <1>0, <1>1 DEF Start, ReloadPoll, ForceReload, Phases, disk, core, call, hist
  <1>2. CASE Read
    BY <1>0, <1>2 DEF Read, Phases, Loaded, LoadFailed, Rebind, disk, core
  <1>3. CASE Repair
    BY <1>0, <1>3 DEF Repair, Phases, Loaded, Rebind, disk
  <1>4. CASE Migrate \/ Readback
    BY <1>0, <1>4 DEF Migrate, Readback, Phases, Loaded, LoadFailed, Rebind, disk
  <1>5. CASE Defaults \/ Boot \/ Crash \/ Edit \/ UNCHANGED vars
    BY <1>0, <1>5 DEF Defaults, Boot, Crash, Edit, Phases, vars, disk, core, call, hist
  <1>6. CASE ApplyDraft \/ FieldAction \/ ResetConfig \/ ApplyRecommended \/ SetModifier
    BY <1>0, <1>6 DEF ApplyDraft, FieldAction, ResetConfig, ApplyRecommended, ChangeInPlace, SetModifier,
       disk, core, hist
  <1>7. CASE SideWrite \/ Write
    BY <1>0, <1>7 DEF SideWrite, Write, disk, core
  <1>8. CASE Adopt \/ RestoreConfig
    BY <1>0, <1>8 DEF Adopt, RestoreConfig, AdoptConfig, disk
  <1> QED BY <1>1, <1>2, <1>3, <1>4, <1>5, <1>6, <1>7, <1>8 DEF Next, Operation, Handler

LEMMA StepFile == StoreInv /\ [Next]_vars => FileInv'
  <1> SUFFICES ASSUME StoreInv, [Next]_vars PROVE FileInv'
    OBVIOUS
  <1> USE DEF FileInv, Known
  <1>0. /\ TypeOK /\ Phases /\ FileInv
        /\ FreshTime \notin {mtime, seen, token, None}
        /\ Absent \notin Configs /\ Bad \notin Configs
    BY FreshIsFresh, NoConfig DEF StoreInv
  <1>01. Normalize(draft) = draft /\ Normalize(Default) = Default /\ Normalize(Normalize(draft)) = Normalize(draft)
    BY <1>0, LiveConfigs, DefaultIsLive DEF TypeOK
  <1> HIDE DEF Default
  <1>1. CASE Start \/ ReloadPoll \/ ForceReload
    BY <1>0, <1>1 DEF Start, ReloadPoll, ForceReload, disk, core, call, hist
  <1>2. CASE Read
    BY <1>0, <1>2 DEF Read, Phases, Loaded, LoadFailed, Rebind, disk, core
  <1>3. CASE Repair
    BY <1>0, <1>01, <1>3 DEF Repair, Phases, Loaded, Rebind, PutIni, disk
  <1>4. CASE Migrate
    BY <1>0, <1>4 DEF Migrate, Phases, LoadFailed, PutIni, disk
  <1>5. CASE Readback
    BY <1>0, <1>5 DEF Readback, Phases, Loaded, LoadFailed, Rebind, disk
  <1>6. CASE Defaults
    BY <1>0, <1>01, <1>6 DEF Defaults, PutIni, disk
  <1>7. CASE Boot \/ Crash \/ UNCHANGED vars
    BY <1>0, <1>7 DEF Boot, Crash, vars, disk, core, call, hist
  <1>8. CASE Edit
    BY <1>0, <1>8 DEF Edit, core, call
  <1>9. CASE ApplyDraft \/ FieldAction \/ ResetConfig \/ ApplyRecommended \/ SetModifier
    BY <1>0, <1>9 DEF ApplyDraft, FieldAction, ResetConfig, ApplyRecommended, ChangeInPlace, SetModifier,
       disk, core, hist
  <1>10. CASE SideWrite
    BY <1>0, <1>10 DEF SideWrite, PutIni, disk, core
  <1>11. CASE Write
    BY <1>0, <1>01, <1>11 DEF Write, PutIni, disk, core
  <1>12. CASE Adopt \/ RestoreConfig
    BY <1>0, <1>12 DEF Adopt, RestoreConfig, AdoptConfig, disk
  <1> QED
    BY <1>1, <1>2, <1>3, <1>4, <1>5, <1>6, <1>7, <1>8, <1>9, <1>10, <1>11, <1>12
       DEF Next, Operation, Handler

\* Between handlers memory is what was last saved or loaded, and, when the recorded
\* time is the file's, what the file says: an edit escapes the poll only if it fell
\* between an own file operation and the reading of the time, or could not be read.
THEOREM MemoryFollowsFile == Spec => []MemoryAndFileAgree
  <1>1. TypeOK /\ Init => Phases
    BY DEF Init, Phases
  <1>2. MemoryInv /\ FileInv => MemoryAndFileAgree
    BY DEF MemoryInv, FileInv, Known, MemoryAndFileAgree, MemoryIsPersisted, EditsAreSeen
  <1> QED
    BY <1>1, <1>2, InitStore, StepMemory, StepFile, StepPhases, StoreTypeCorrect, PTL
       DEF Spec, StoreInv

-----------------------------------------------------------------------------
RepairInv == pc = "repair" => json \in Configs /\ draft = Normalize(json)

LEMMA StepRepair == RepairInv /\ [Next]_vars => RepairInv'
  <1> SUFFICES ASSUME RepairInv, [Next]_vars PROVE RepairInv'
    OBVIOUS
  <1>1. CASE Read
    BY <1>1 DEF RepairInv, Read, Loaded, LoadFailed, disk
  <1>2. CASE Edit \/ UNCHANGED vars
    BY <1>2 DEF RepairInv, Edit, vars, call, disk
  <1>3. CASE Start \/ Operation \/ ReloadPoll \/ Crash
    BY <1>3 DEF RepairInv, Start, Operation, ReloadPoll, Crash, ForceReload, SetModifier, ApplyDraft,
       FieldAction, ResetConfig, ApplyRecommended, ChangeInPlace, call
  <1>4. CASE Repair \/ Migrate \/ Readback \/ Defaults \/ Boot
    BY <1>4 DEF RepairInv, Repair, Migrate, Readback, Defaults, Boot, Loaded, LoadFailed
  <1>5. CASE SideWrite \/ Write \/ Adopt \/ RestoreConfig
    BY <1>5 DEF RepairInv, SideWrite, Write, Adopt, RestoreConfig, AdoptConfig
  <1> QED BY <1>1, <1>2, <1>3, <1>4, <1>5 DEF Next, Handler

\* What was carried over to config.ini is there still, as a config.
CarriedInv == carried # "no" => /\ json \in Configs /\ ini \in Configs
                               /\ Normalize(ini) = CarriedOver

LEMMA StepCarried == TypeOK /\ RepairInv /\ CarriedInv /\ [Next]_vars => CarriedInv'
  <1> SUFFICES ASSUME TypeOK, RepairInv, CarriedInv, [Next]_vars PROVE CarriedInv'
    OBVIOUS
  <1>1. ASSUME UNCHANGED <<ini, json, carried>> PROVE CarriedInv'
    BY <1>1 DEF CarriedInv, CarriedOver
  <1>2. ASSUME carried' = "no" PROVE CarriedInv'
    BY <1>2 DEF CarriedInv
  <1>3. CASE Repair
    <2>1. json \in Configs /\ draft = Normalize(json)
      BY <1>3 DEF Repair, RepairInv
    <2>2. draft \in Configs /\ Normalize(draft) = draft
      BY <2>1, LiveConfigs
    <2>3. CASE ini' = draft /\ json' = json /\ carried' = "repaired"
      <3>1. [Normalize(json) EXCEPT !.hotkeys = Normalize(json).hotkeys] = Normalize(json)
        BY DEF Normalize
      <3> QED BY <2>1, <2>2, <2>3, <3>1 DEF CarriedInv, CarriedOver
    <2>4. CASE UNCHANGED <<disk, carried>>
      BY <1>1, <2>4 DEF disk
    <2> QED BY <1>3, <2>3, <2>4 DEF Repair, PutIni
  <1>4. CASE Migrate
    <2>1. CASE /\ json \in Configs /\ Savable(json)
               /\ ini' = OnDisk(json) /\ json' = json /\ carried' = "migrated"
      <3>1. OnDisk(json) \in Configs /\ DefaultBindings # None
        BY <2>1, WrittenConfigs, DefaultIsLive, LiveConfigs DEF FileConfigs, Default
      <3>2. Normalize(OnDisk(json)) =
              [Normalize(json) EXCEPT !.hotkeys = IF json.hotkeys = None THEN DefaultBindings ELSE @]
        BY <2>1, <3>1 DEF OnDisk, Normalize, Configs
      <3> QED BY <2>1, <3>1, <3>2 DEF CarriedInv, CarriedOver
    <2>2. CASE UNCHANGED <<disk, carried>>
      BY <1>1, <2>2 DEF disk
    <2> QED BY <1>4, <2>1, <2>2 DEF Migrate, PutIni
  <1>5. CASE Edit \/ Crash \/ Start \/ ReloadPoll \/ ForceReload \/ SetModifier \/ UNCHANGED vars
    BY <1>1, <1>2, <1>5 DEF Edit, Crash, Start, ReloadPoll, ForceReload, SetModifier, vars, disk, hist
  <1>6. CASE ApplyDraft \/ FieldAction \/ ResetConfig \/ ApplyRecommended
    BY <1>1, <1>6 DEF ApplyDraft, FieldAction, ResetConfig, ApplyRecommended, ChangeInPlace, disk
  <1>7. CASE Read \/ Readback \/ Boot
    BY <1>1, <1>7 DEF Read, Readback, Boot, disk, hist
  <1>8. CASE Defaults \/ SideWrite \/ Write
    BY <1>1, <1>2, <1>8 DEF Defaults, SideWrite, Write, disk
  <1>9. CASE Adopt \/ RestoreConfig
    BY <1>1, <1>9 DEF Adopt, RestoreConfig, AdoptConfig, disk
  <1> QED BY <1>3, <1>4, <1>5, <1>6, <1>7, <1>8, <1>9 DEF Next, Operation, Handler

\* A legacy config carried over to config.ini stays there as it was meant, whatever
\* crashes, faults and restarts follow, until something else writes the file, and is
\* what runs between handlers; whatever the legacy file says.  The one it changes, a
\* bare modifier, gets the default shortcuts from a migration: serialize_ini spells
\* absent shortcuts as the defaults, where normalize takes the modifier's preset.
THEOREM MigrationKeepsMeaning == Spec => []MigrationIsFaithful
  <1>1. Init => RepairInv /\ CarriedInv
    BY DEF Init, RepairInv, CarriedInv
  <1>2. TypeOK /\ Init => Phases
    BY DEF Init, Phases
  <1>3. MemoryInv /\ FileInv /\ CarriedInv => MigrationIsFaithful
    BY DEF MemoryInv, FileInv, Known, CarriedInv, MigrationIsFaithful
  <1> QED
    BY <1>1, <1>2, <1>3, InitStore, StepMemory, StepFile, StepPhases, StepRepair, StepCarried,
       StoreTypeCorrect, PTL DEF Spec, StoreInv
=============================================================================
