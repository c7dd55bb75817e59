---------------------------- MODULE SettingsPage ----------------------------
(***************************************************************************)
(* The settings page (frontend/src/settings) against AppCore's side of it:   *)
(* a draft beside the baseline it was read from, and a save of up to three    *)
(* commands, each awaited: the patch, the modifier, the startup registration. *)
(* The page can be closed between any two of them, and the file can be edited  *)
(* at any time; the host does not tell the page of that.                       *)
(*                                                                         *)
(* A configuration is an item (a field validation may reject), the recorded    *)
(* shortcuts, the modifier and the autostart flag.  The status of the           *)
(* shortcuts is the shortcuts it is about.                                      *)
(***************************************************************************)
EXTENDS PageChannel

CONSTANT Modifiers   \* a preset of shortcuts is named like its modifier

ASSUME ModifiersAssumption == "custom" \notin Modifiers

\* What can be typed, and what a save still has to send after the patch.
Items == {"plain", "other", "bad"}
KeySets == Modifiers \cup {"custom"}
Drafts == [item : Items, keys : KeySets, modifier : Modifiers, auto : BOOLEAN]
LaterCommands ==
    [op : {"modifier"}, modifier : Modifiers, orphan : {FALSE}]
    \cup [op : {"autostart"}, auto : BOOLEAN, orphan : {FALSE}]

\* The absent value is no save under way.
ASSUME AbsentAssumption == None \notin [draft : Drafts, todo : Seq(LaterCommands)]

VARIABLES
    store,  \* AppCore.config, config.ini and whether its time is new to the poll,
            \*   the shortcuts the listener holds, the startup registration
    desk,   \* SettingsSurface: its draft, its baseline and what it shows
    past    \* history, see below

settings == <<store, desk, past>>

Config(item, keys, m, a) == [item |-> item, keys |-> keys, modifier |-> m, auto |-> a]
Presets == {Config("plain", m, m, FALSE) : m \in Modifiers}

\* edited: the file was loaded since this page had its bootstrap; half: a save of
\* this page went wrong after it had changed something; overwritten: a save of this
\* page changed the modifier with other shortcuts than its preset; missed: the
\* status changed before this page had the bootstrap and its listener; misread: the
\* startup registration was not what the bootstrap said; unsaved: memory was changed
\* by a save that failed.
NewPage(p) == [p EXCEPT !.edited = FALSE, !.half = FALSE, !.overwritten = FALSE,
                        !.missed = FALSE, !.misread = FALSE]

ClosedDesk == [phase |-> "closed", listens |-> FALSE, base |-> None, draft |-> None,
               status |-> None, saving |-> None, shown |-> None]

SettingsInit(mayOpen) ==
    /\ \E c \in IF mayOpen THEN Presets ELSE {CHOOSE p \in Presets : TRUE},
         a \in IF mayOpen THEN BOOLEAN ELSE {FALSE} :
         store = [conf |-> c, file |-> c, new |-> FALSE, bound |-> c.keys, startup |-> a]
    /\ desk = ClosedDesk
    /\ past = [edited |-> FALSE, half |-> FALSE, overwritten |-> FALSE, missed |-> FALSE,
               misread |-> FALSE, unsaved |-> FALSE]

-----------------------------------------------------------------------------
(* The page. *)

Ready == desk.phase = "ready"
Dirty == desk.draft # desk.base

\* The page is mounted: it asks for the bootstrap and registers its listener, and
\* awaits neither before the other.
OpenPage ==
    /\ Occasion /\ desk.phase = "closed"
    /\ desk' = [ClosedDesk EXCEPT !.phase = "loading"]
    /\ past' = NewPage(past)
    /\ Invoke([op |-> "bootstrap", orphan |-> FALSE])
    /\ UNCHANGED <<store, events, replies>>

ListenKeys ==
    /\ desk.phase # "closed" /\ ~desk.listens
    /\ desk' = [desk EXCEPT !.listens = TRUE]
    /\ UNCHANGED <<store, past, channel, occasions>>

\* Escape, Cancel or the button: the page is gone with what was on its way to it;
\* the host still runs what it has been sent.
ClosePage ==
    /\ Occasion /\ desk.phase # "closed"
    /\ desk' = ClosedDesk
    /\ sent' = [i \in DOMAIN sent |-> [sent[i] EXCEPT !.orphan = TRUE]]
    /\ events' = <<>> /\ replies' = <<>>
    /\ UNCHANGED <<store, past>>

Draft(d) == desk' = [desk EXCEPT !.draft = d, !.shown = None]
ByHand == Occasion /\ Ready /\ UNCHANGED <<store, past, channel>>

Type(item) == ByHand /\ Draft([desk.draft EXCEPT !.item = item])
Record == ByHand /\ Draft([desk.draft EXCEPT !.keys = "custom"])
\* ModifierPicker: the preset replaces every recorded shortcut.
PickModifier(m) == ByHand /\ Draft([desk.draft EXCEPT !.modifier = m, !.keys = m])
FlipAutostart == ByHand /\ Draft([desk.draft EXCEPT !.auto = ~@])
ResetDraft == ByHand /\ Dirty /\ Draft(desk.base)

\* BlacklistEditor: the recommended list is fetched, and merged when it comes.
Recommend ==
    /\ Occasion /\ Ready /\ Invoke([op |-> "recommend", orphan |-> FALSE])
    /\ UNCHANGED <<store, desk, past, events, replies>>

\* save(): what it sends one after the other, from the draft and the baseline of
\* the moment.
Plan(draft, base) ==
    <<[op |-> "update", item |-> draft.item, keys |-> draft.keys, orphan |-> FALSE]>>
    \o (IF draft.modifier # base.modifier
        THEN <<[op |-> "modifier", modifier |-> draft.modifier, orphan |-> FALSE]>> ELSE <<>>)
    \o (IF draft.auto # base.auto THEN <<[op |-> "autostart", auto |-> draft.auto, orphan |-> FALSE]>> ELSE <<>>)

Save ==
    /\ Occasion /\ Ready /\ Dirty /\ desk.saving = None
    /\ LET plan == Plan(desk.draft, desk.base)
       IN  /\ Invoke(Head(plan))
           /\ desk' = [desk EXCEPT !.saving = [draft |-> desk.draft, todo |-> Tail(plan)],
                                   !.shown = None]
    /\ past' = [past EXCEPT !.overwritten =
                  @ \/ (desk.draft.modifier # desk.base.modifier
                        /\ desk.draft.keys # desk.draft.modifier)]
    /\ UNCHANGED <<store, events, replies>>

SaveGoesOn ==
    /\ Reply("done") /\ desk.saving.todo # <<>>
    /\ Invoke(Head(desk.saving.todo))
    /\ desk' = [desk EXCEPT !.saving.todo = Tail(@)]
    /\ UNCHANGED <<store, past, events, occasions>>

\* Mutant: the baseline becomes what the draft is now.
SaveEndsNow ==
    /\ Reply("done") /\ desk.saving.todo = <<>>
    /\ desk' = [desk EXCEPT !.base = desk.draft, !.saving = None, !.shown = "saved"]
    /\ UNCHANGED <<store, past, sent, events, occasions>>

\* The baseline becomes what was saved; what was typed meanwhile stays in the draft.
SaveEnds ==
    /\ Reply("done") /\ desk.saving.todo = <<>>
    /\ desk' = [desk EXCEPT !.base = desk.saving.draft, !.saving = None, !.shown = "saved"]
    /\ UNCHANGED <<store, past, sent, events, occasions>>

SaveFails ==
    /\ Reply("failed")
    /\ desk' = [desk EXCEPT !.saving = None, !.shown = "failed"]
    /\ UNCHANGED <<store, past, sent, events, occasions>>

OnSettings ==
    /\ Reply("bootstrap")
    /\ LET r == Head(replies)
       IN  desk' = [desk EXCEPT !.phase = "ready", !.base = r.config, !.draft = r.config,
                                !.status = r.status]
    /\ UNCHANGED <<store, past, sent, events, occasions>>

OnRecommended ==
    /\ Reply("recommend")
    /\ Draft([desk.draft EXCEPT !.item = "other"])
    /\ UNCHANGED <<store, past, sent, events, occasions>>

OnKeys ==
    /\ events # <<>> /\ events' = Tail(events)
    /\ desk' = IF desk.listens THEN [desk EXCEPT !.status = Head(events).status] ELSE desk
    /\ UNCHANGED <<store, past, sent, replies, occasions>>

-----------------------------------------------------------------------------
(* The host. *)

Runs(op) == sent # <<>> /\ Head(sent).op = op /\ sent' = Tail(sent)
Answers(r) == Returned(IF Head(sent).orphan THEN <<>> ELSE <<r>>)

\* Saved, adopted: the listener is told of shortcuts that differ from memory's.
Adopted(c, told) ==
    /\ store' = [store EXCEPT !.conf = c, !.file = c, !.new = FALSE,
                              !.bound = IF told THEN c.keys ELSE @]
    /\ IF told /\ desk.phase # "closed"
       THEN Told(<<[kind |-> "keys", status |-> c.keys]>>) ELSE UNCHANGED events

\* Whether the page sees a change of the status.
Sees(told) == IF told THEN ~(Ready /\ desk.listens) ELSE past.missed

GetSettings ==
    /\ Runs("bootstrap")
    /\ Answers([op |-> "bootstrap", config |-> store.conf, status |-> store.bound])
    /\ past' = [past EXCEPT !.misread = store.startup # store.conf.auto]
    /\ UNCHANGED <<store, desk, events, occasions>>

RecommendedBlacklist ==
    /\ Runs("recommend") /\ Answers([op |-> "recommend"])
    /\ UNCHANGED <<store, desk, past, events, occasions>>

Patched == [store.conf EXCEPT !.item = Head(sent).item, !.keys = Head(sent).keys]

UpdateRejected ==
    /\ Runs("update") /\ Patched.item = "bad" /\ Answers([op |-> "failed"])
    /\ UNCHANGED <<store, desk, past, events, occasions>>

\* update_settings changes memory, save_config writes it: the adoption compares the
\* shortcuts with themselves.
UpdateSettings ==
    /\ Runs("update") /\ Patched.item # "bad"
    /\ Adopted(Patched, FALSE) /\ Answers([op |-> "done"])
    /\ past' = [past EXCEPT !.unsaved = FALSE]
    /\ UNCHANGED <<desk, occasions>>

UpdateUnsaved ==
    /\ Occasion /\ Runs("update") /\ Patched.item # "bad"
    /\ store' = [store EXCEPT !.conf = Patched] /\ Answers([op |-> "failed"])
    /\ past' = [past EXCEPT !.unsaved = TRUE, !.half = TRUE]
    /\ UNCHANGED <<desk, events>>

SetModifier ==
    /\ Runs("modifier")
    /\ LET m == Head(sent).modifier
           c == [store.conf EXCEPT !.modifier = m, !.keys = m]
           told == c # store.conf
       IN  Adopted(c, told) /\ past' = [past EXCEPT !.unsaved = FALSE, !.missed = Sees(told)]
    /\ Answers([op |-> "done"])
    /\ UNCHANGED <<desk, occasions>>

SetAutostart ==
    /\ Runs("autostart") /\ Answers([op |-> "done"])
    /\ store' = [store EXCEPT !.startup = Head(sent).auto]
    /\ UNCHANGED <<desk, past, events, occasions>>

\* The second or third command fails: on the disk, or in the registry.
LaterCommandFails ==
    /\ Occasion /\ (Runs("modifier") \/ Runs("autostart")) /\ Answers([op |-> "failed"])
    /\ past' = [past EXCEPT !.half = TRUE]
    /\ UNCHANGED <<store, desk, events>>

EditFile ==
    /\ Occasion
    /\ \E c \in {[p EXCEPT !.item = "other"] : p \in Presets}
                \cup {[p EXCEPT !.keys = "custom"] : p \in Presets} :
         store' = [store EXCEPT !.file = c, !.new = TRUE]
    /\ UNCHANGED <<desk, past, channel>>

\* reload_config_if_changed
Reload ==
    /\ store.new
    /\ LET told == store.file.keys # store.conf.keys \/ store.file.modifier # store.conf.modifier
       IN  /\ Adopted(store.file, told)
           /\ past' = [past EXCEPT !.edited = TRUE, !.unsaved = FALSE, !.missed = Sees(told)]
    /\ UNCHANGED <<desk, sent, replies, occasions>>

-----------------------------------------------------------------------------
SettingsUser ==
    \/ OpenPage \/ ClosePage
    \/ \E item \in Items : Type(item)
    \/ Record \/ (\E m \in Modifiers : PickModifier(m)) \/ FlipAutostart
    \/ ResetDraft \/ Recommend \/ Save

SettingsHost ==
    \/ GetSettings \/ RecommendedBlacklist
    \/ UpdateRejected \/ UpdateSettings \/ UpdateUnsaved
    \/ SetModifier \/ SetAutostart \/ LaterCommandFails

SettingsNext ==
    \/ SettingsUser \/ SettingsHost \/ ListenKeys
    \/ OnSettings \/ OnRecommended \/ OnKeys
    \/ SaveGoesOn \/ SaveEnds \/ SaveFails
    \/ EditFile \/ Reload

-----------------------------------------------------------------------------
Configs == [item : {"plain", "other"}, keys : KeySets, modifier : Modifiers, auto : {FALSE}]

SettingsTypeOK ==
    /\ store \in [conf : Configs, file : Configs, new : BOOLEAN,
                  bound : KeySets, startup : BOOLEAN]
    /\ desk.phase \in {"closed", "loading", "ready"} /\ desk.listens \in BOOLEAN
    /\ Ready => desk.base \in Drafts /\ desk.draft \in Drafts
    /\ desk.shown \in {None, "saved", "failed"}
    /\ desk.saving # None => desk.saving.draft \in Drafts

Settled == Ready /\ desk.listens /\ desk.saving = None /\ NothingUnderWay /\ ~store.new

\* An open page with nothing under way is true to the host: its baseline, which
\* Reset restores and Save compares with, is the running configuration, the file has
\* it too, the switch shows the startup registration, and the badges show the status
\* of the shortcuts the listener holds; whatever was typed during the save, and
\* whenever pages were closed and opened before it.  What is excepted: edits of the
\* file, commands that failed, and the shortcuts set_modifier overwrites.
SettingsAgree ==
    Settled =>
      /\ \/ past.edited \/ past.half \/ past.overwritten
         \/ desk.base = [store.conf EXCEPT !.auto = desk.base.auto]
      /\ past.unsaved \/ store.file = store.conf
      /\ past.misread \/ past.half \/ desk.base.auto = store.startup
      /\ past.missed \/ desk.status = store.bound
=============================================================================
