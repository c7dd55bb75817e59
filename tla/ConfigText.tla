----------------------------- MODULE ConfigText -----------------------------
(***************************************************************************)
(* config.ini as text (config_ini.rs), the rules of its fields (config.rs,    *)
(* AppCore::update_settings) and the egui settings window as the place where  *)
(* fields are set: its rows, which bring a number into their range whenever   *)
(* they are drawn, the shortcut recorder, the checks before a save and the    *)
(* tab a refusal turns to.  Users edit the text line by line meanwhile.       *)
(*                                                                         *)
(* theme stands for every field with named values, overlay_duration_ms for    *)
(* every number with a range of its own.                                     *)
(***************************************************************************)
EXTENDS Absent, Integers, Sequences, SequencesExt, FiniteSets, FiniteSetsExt

CONSTANTS
    StartTexts,   \* what may be in the file at first
    NewLines,     \* lines a user adds
    Tidy,         \* normalize_blacklist_entry
    Dragged,      \* numbers a row is dragged to
    Strokes,      \* keys a recorder hears: modifiers held and the key
    MaxTextInputs \* bound: edits of the file and gestures in the window

ASSUME TextBound == MaxTextInputs \in Nat

VARIABLES
    text,       \* the lines of config.ini
    held,       \* AppCore.config
    form, opened,  \* the window's draft and its baseline
    page,       \* its tab
    recording,  \* the action that waits for a shortcut
    complaint,  \* the field of the refusal that is shown
    textInputs

settingsText == <<text, held, form, opened, page, recording, complaint, textInputs>>

-----------------------------------------------------------------------------
(* The text. *)

\* What is right of the = : words, and the number if it is nothing but digits.
Word(w) == [words |-> <<w>>, number |-> -1]
Combo(words) == [words |-> words, number |-> -1]
Decimal(n) == [words |-> <<>>, number |-> n]
Heading(s) == [kind |-> "section", name |-> s]
Pair(k, v) == [kind |-> "pair", name |-> k, value |-> v]
Item(i, name) == [kind |-> "pair", name |-> "item", index |-> i, value |-> Word(name)]

Modifiers4 == {"CtrlAlt", "Alt", "Ctrl", "CapsLock"}
ThemeNames == {"System", "Light", "Dark"}
HomeOf == [volume_step |-> "general", volume_step_large |-> "general",
              overlay_duration_ms |-> "general", modifier |-> "general", theme |-> "appearance",
              green_up_to |-> "color_thresholds", blue_up_to |-> "color_thresholds"]
Fields == DOMAIN HomeOf
Numbers == Fields \ {"modifier", "theme"}
KeyActions == <<"volume_up", "toggle_mute">>

\* parse_decimal into the type of the field, parse_modifier, parse_theme.
ParseDecimal(k, v) == v.number >= 0 /\ (HomeOf[k] = "color_thresholds" => v.number <= 255)
ParseNamed(k, v) == v \in {Word(w) : w \in IF k = "modifier" THEN Modifiers4 ELSE ThemeNames}
Parses(k, v) == IF k \in Numbers THEN ParseDecimal(k, v) ELSE ParseNamed(k, v)

PresetKeys(m) ==
    LET first == CASE m = "Alt" -> <<"Alt">> [] m = "Ctrl" -> <<"Ctrl">> [] OTHER -> <<"Ctrl", "Alt">>
    IN  [volume_up |-> first \o <<"ArrowUp">>, toggle_mute |-> first \o <<"KeyM">>]

DefaultFields == [volume_step |-> Decimal(1), volume_step_large |-> Decimal(10),
                  overlay_duration_ms |-> Decimal(1800), modifier |-> Word("CtrlAlt"),
                  theme |-> Word("System"), green_up_to |-> Decimal(40), blue_up_to |-> Decimal(75)]
DefaultConfig == [fields |-> DefaultFields, hotkeys |-> PresetKeys("CtrlAlt"), blacklist |-> <<>>]
ModifierOf(c) == Head(c.fields.modifier.words)

\* A reader of the text: items are the entries of the blacklist with their numbers.
Reader == [ok |-> TRUE, section |-> None, seen |-> {}, items |-> {},
           config |-> [DefaultConfig EXCEPT !.hotkeys = None]]
Broken(r) == [r EXCEPT !.ok = FALSE]

ReadShortcutLate(r, l) ==
    LET keys == IF r.config.hotkeys = None THEN PresetKeys("CtrlAlt") ELSE r.config.hotkeys
    IN  [r EXCEPT !.config.hotkeys = [keys EXCEPT ![l.name] = l.value.words]]

\* A value for some of the shortcuts starts from the preset of the modifier read so far.
ReadShortcut(r, l) ==
    LET keys == IF r.config.hotkeys = None THEN PresetKeys(ModifierOf(r.config)) ELSE r.config.hotkeys
    IN  [r EXCEPT !.config.hotkeys = [keys EXCEPT ![l.name] = l.value.words]]

ReadItem(r, l) ==
    IF l.index < 0 \/ \E e \in r.items : e[1] = l.index THEN Broken(r)
    ELSE [r EXCEPT !.items = @ \cup {<<l.index, Head(l.value.words)>>}]

EnsureUnique(r, l) == <<r.section, l.name>> \notin r.seen
IsKnown(section, name) ==
    \/ section = "hotkeys" /\ name \in ToSet(KeyActions)
    \/ name \in Fields /\ HomeOf[name] = section

ReadPair(r, l) ==
    CASE r.section = "blacklist" /\ l.name = "item" -> ReadItem(r, l)
      [] ~IsKnown(r.section, l.name) -> r
      [] OTHER ->
           LET s == [r EXCEPT !.seen = @ \cup {<<r.section, l.name>>}]
           IN  CASE ~EnsureUnique(r, l) -> Broken(r)
                 [] r.section = "hotkeys" -> ReadShortcut(s, l)
                 [] Parses(l.name, l.value) -> [s EXCEPT !.config.fields[l.name] = l.value]
                 [] OTHER -> Broken(r)

ReadLine(r, l) ==
    CASE ~r.ok \/ l.kind = "blank" -> r
      [] l.kind = "section" -> [r EXCEPT !.section = l.name]
      [] l.kind = "pair" /\ r.section # None -> ReadPair(r, l)
      [] OTHER -> Broken(r)

Listed(items) ==
    LET order == SetToSortSeq(items, LAMBDA a, b : a[1] < b[1])
    IN  [i \in DOMAIN order |-> order[i][2]]

-----------------------------------------------------------------------------
(* The rules. *)

\* What the parser of shortcuts makes of the words: modifiers, then one key; a key has
\* two spellings.
Code == [ArrowUp |-> "ArrowUp", KeyM |-> "KeyM", M |-> "KeyM"]
HotKey(words) ==
    IF words = <<>> \/ ~ToSet(Front(words)) \subseteq {"Ctrl", "Alt", "Shift"}
       \/ Last(words) \notin DOMAIN Code THEN None
    ELSE [mods |-> ToSet(Front(words)), code |-> Code[Last(words)]]

\* The first field, in the order of the rules, that breaks its rule.
Rule(field, holds) == [field |-> field, holds |-> holds]
FirstFault(rules) ==
    LET broken == SelectSeq(rules, LAMBDA r : ~r.holds)
    IN  IF broken = <<>> THEN None ELSE Head(broken).field

ValidateSteps(c) ==
    LET small == c.fields.volume_step.number
        large == c.fields.volume_step_large.number
    IN  <<Rule("volume_step", small \in 1..50),
          Rule("volume_step_large", large \in 1..50 /\ large > small)>>

ValidateHotkeys(b) ==
    [i \in DOMAIN KeyActions |->
        LET mine == b[KeyActions[i]]
        IN  Rule(KeyActions[i],
                 \/ mine = <<>>
                 \/ /\ HotKey(mine) # None /\ HotKey(mine).mods # {}
                    /\ \A j \in 1..(i - 1) : HotKey(b[KeyActions[j]]) # HotKey(mine))]

ValidateThresholds(c) ==
    LET green == c.fields.green_up_to.number
        blue == c.fields.blue_up_to.number
    IN  <<Rule("green_up_to", green <= 100), Rule("blue_up_to", blue <= 100),
          Rule("green_up_to", green <= blue)>>

BindingsOf(c) == IF c.hotkeys = None THEN PresetKeys("CtrlAlt") ELSE c.hotkeys
ValidDuration(c, least) ==
    Rule("overlay_duration_ms", c.fields.overlay_duration_ms.number \in least..10000)
\* config::validate; the thresholds are not among its rules.
Validate(c) ==
    FirstFault(ValidateSteps(c) \o <<ValidDuration(c, 200)>> \o ValidateHotkeys(BindingsOf(c)))

Clamp(n, least, most) == Max({least, Min({n, most})})
Normalize(c) ==
    LET keys == IF c.hotkeys = None \/ FirstFault(ValidateHotkeys(c.hotkeys)) # None
                THEN PresetKeys(ModifierOf(c)) ELSE c.hotkeys
        small == Clamp(c.fields.volume_step.number, 1, 49)
        large == Clamp(c.fields.volume_step_large.number, small + 1, 50)
    IN  [fields |-> [c.fields EXCEPT
            !.volume_step = Decimal(small), !.volume_step_large = Decimal(large),
            !.overlay_duration_ms = Decimal(Clamp(@.number, 200, 10000))],
         hotkeys |-> keys,
         blacklist |-> [i \in DOMAIN c.blacklist |-> Tidy[c.blacklist[i]]]]

\* parse_ini: None for a text that is refused.
ParseIni(lines) ==
    LET r == FoldLeft(ReadLine, Reader, lines)
        c == [r.config EXCEPT !.blacklist = Listed(r.items)]
    IN  IF ~r.ok \/ Validate(c) # None THEN None ELSE Normalize(c)

InSection(s, names, c) == <<Heading(s)>> \o [i \in DOMAIN names |-> Pair(names[i], c.fields[names[i]])]
SerializeIni(c) ==
    IF Validate(c) # None THEN None
    ELSE InSection("general", <<"volume_step", "volume_step_large", "overlay_duration_ms", "modifier">>, c)
         \o <<Heading("hotkeys")>>
         \o [i \in DOMAIN KeyActions |-> Pair(KeyActions[i], Combo(BindingsOf(c)[KeyActions[i]]))]
         \o InSection("appearance", <<"theme">>, c)
         \o InSection("color_thresholds", <<"green_up_to", "blue_up_to">>, c)
         \o <<Heading("blacklist")>>
         \o [i \in DOMAIN c.blacklist |-> Item(i - 1, c.blacklist[i])]

\* AppCore::update_settings: every rule before the first change.
UpdateSettings(c) ==
    FirstFault(ValidateHotkeys(c.hotkeys) \o ValidateSteps(c) \o <<ValidDuration(c, 200)>>
          \o ValidateThresholds(c))

-----------------------------------------------------------------------------
(* The window. *)

Pages == {"general", "hotkeys", "appearance", "storage"}
\* The rows with a number, a tab's with the range each is dragged in.
RowRange == [volume_step |-> <<1, 50>>, volume_step_large |-> <<1, 50>>,
             overlay_duration_ms |-> <<200, 10000>>, green_up_to |-> <<0, 100>>,
             blue_up_to |-> <<0, 100>>]
RowsOf == [p \in Pages |->
    CASE p = "general" -> {"volume_step", "volume_step_large", "overlay_duration_ms"}
      [] p = "appearance" -> {"green_up_to", "blue_up_to"}
      [] OTHER -> {}]

\* A row that is drawn brings the number into its range (external: egui's DragValue).
RowsDrawn(p, c) ==
    [c EXCEPT !.fields = [k \in Fields |->
        IF k \in RowsOf[p] THEN Decimal(Clamp(c.fields[k].number, RowRange[k][1], RowRange[k][2]))
        ELSE c.fields[k]]]

TabForField(k) ==
    CASE k \in ToSet(KeyActions) -> "hotkeys"
      [] k \in {"green_up_to", "blue_up_to"} -> "appearance"
      [] OTHER -> "general"

TextInput == textInputs < MaxTextInputs /\ textInputs' = textInputs + 1
FormOnly == TextInput /\ UNCHANGED <<text, held, opened>>

TextInit ==
    /\ text \in StartTexts
    /\ held = IF ParseIni(text) = None THEN DefaultConfig ELSE ParseIni(text)
    /\ opened = held /\ page = "general" /\ form = RowsDrawn("general", held)
    /\ recording = None /\ complaint = None /\ textInputs = 0

\* The window opens on the configuration, at the tab it was left on.
OpenForm ==
    /\ form' = RowsDrawn(page, held) /\ opened' = held /\ recording' = None /\ complaint' = None
    /\ TextInput /\ UNCHANGED <<text, held, page>>

ShowPage(p) ==
    /\ p # page /\ page' = p /\ form' = RowsDrawn(p, form)
    /\ FormOnly /\ UNCHANGED <<recording, complaint>>

NumericRow(k, n) ==
    /\ k \in RowsOf[page] /\ n \in RowRange[k][1]..RowRange[k][2]
    /\ form' = [form EXCEPT !.fields[k] = Decimal(n)]
    /\ FormOnly /\ UNCHANGED <<page, recording, complaint>>

ComboRow(w) ==
    /\ page = "appearance" /\ form' = [form EXCEPT !.fields.theme = Word(w)]
    /\ FormOnly /\ UNCHANGED <<page, recording, complaint>>

StartRecording(a) ==
    /\ page = "hotkeys" /\ recording' = a
    /\ FormOnly /\ UNCHANGED <<form, page, complaint>>

ClearBinding(a) ==
    /\ page = "hotkeys" /\ form.hotkeys[a] # <<>> /\ form' = [form EXCEPT !.hotkeys[a] = <<>>]
    /\ FormOnly /\ UNCHANGED <<page, recording, complaint>>

\* Keys the recorder has no name for are all Unidentified.
KeyCode(k) == IF k \in {"ArrowUp", "KeyM"} THEN k ELSE "Unidentified"
Spelled(stroke) ==
    SelectSeq(<<"Ctrl", "Alt", "Shift">>, LAMBDA m : m \in stroke.held) \o <<KeyCode(stroke.key)>>

\* A key while an action waits, whatever tab is shown; without a modifier it goes on
\* waiting.
Feed(stroke) ==
    /\ recording # None
    /\ CASE stroke.key = "Escape" -> recording' = None /\ UNCHANGED form
         [] stroke.key = "Backspace" ->
              recording' = None /\ form' = [form EXCEPT !.hotkeys[recording] = <<>>]
         [] OTHER -> /\ stroke.held # {} /\ recording' = None
                     /\ form' = [form EXCEPT !.hotkeys[recording] = Spelled(stroke)]
    /\ FormOnly /\ UNCHANGED <<page, complaint>>

ResetForm ==
    /\ form # opened /\ form' = RowsDrawn(page, opened) /\ complaint' = None
    /\ FormOnly /\ UNCHANGED <<page, recording>>

\* The draft has no modifier of its own: its checks are of the baseline's.
WindowFault(c) ==
    IF c.fields.overlay_duration_ms.number < 500 THEN "overlay_duration_ms"
    ELSE IF Validate(c) # None THEN Validate(c) ELSE FirstFault(ValidateThresholds(c))

SaveForm ==
    /\ form # opened /\ TextInput
    /\ LET fault == WindowFault(form)
           patched == [form EXCEPT !.fields.modifier = held.fields.modifier]
       IN  IF fault # None
           THEN /\ complaint' = fault /\ page' = TabForField(fault)
                /\ form' = RowsDrawn(page', form) /\ UNCHANGED <<text, held, opened>>
           ELSE /\ held' = Normalize(patched) /\ text' = SerializeIni(held')
                /\ opened' = held' /\ form' = RowsDrawn(page, held') /\ complaint' = None
                /\ UNCHANGED page
    /\ UNCHANGED recording

-----------------------------------------------------------------------------
(* The file. *)

UserWrites(lines) ==
    /\ text' = lines /\ TextInput
    /\ UNCHANGED <<held, form, opened, page, recording, complaint>>

\* The program takes a text that it can read, and keeps what it has otherwise.
LoadText ==
    /\ ParseIni(text) # None /\ held' = ParseIni(text) /\ TextInput
    /\ UNCHANGED <<text, form, opened, page, recording, complaint>>

TextNext ==
    \/ OpenForm \/ ResetForm \/ SaveForm \/ LoadText
    \/ \E p \in Pages : ShowPage(p)
    \/ \E k \in Numbers, n \in Dragged : NumericRow(k, n)
    \/ \E w \in ThemeNames : ComboRow(w)
    \/ \E a \in ToSet(KeyActions) : StartRecording(a) \/ ClearBinding(a)
    \/ \E s \in Strokes : Feed(s)
    \/ \E l \in NewLines : UserWrites(Append(text, l))
    \/ \E i \in DOMAIN text : UserWrites(RemoveAt(text, i))

-----------------------------------------------------------------------------
\* What the program writes it reads back: the same configuration, whatever it was made
\* of.
ReadsItsOwnText == SerializeIni(held) # None /\ ParseIni(SerializeIni(held)) = held

\* The section a line stands in, and the values a text has for a name.
SectionAt(i) ==
    LET heads == {j \in 1..(i - 1) : text[j].kind = "section"}
    IN  IF heads = {} THEN None ELSE text[Max(heads)].name
Written(section, name) ==
    {i \in DOMAIN text : text[i].kind = "pair" /\ text[i].name = name /\ SectionAt(i) = section}

\* A shortcut stands above the modifier: what the section leaves out is then taken from
\* the preset of another modifier.
ShortcutsFirst ==
    \E i \in Written("general", "modifier"), a \in ToSet(KeyActions) :
        \E j \in Written("hotkeys", a) : j < i

\* A text that is read is read whole: every known line has its say, once, in whatever
\* order, and what is not written has its default, the shortcuts that of the modifier
\* of the file.
WrittenIsRead ==
    LET c == ParseIni(text)
    IN  c # None =>
          /\ \A k \in Fields :
               {c.fields[k]} = IF Written(HomeOf[k], k) = {} THEN {DefaultFields[k]}
                               ELSE {text[i].value : i \in Written(HomeOf[k], k)}
          /\ \A a \in ToSet(KeyActions) :
               IF Written("hotkeys", a) = {}
               THEN ShortcutsFirst \/ c.hotkeys[a] = PresetKeys(ModifierOf(c))[a]
               ELSE {c.hotkeys[a]} = {text[i].value.words : i \in Written("hotkeys", a)}
          /\ Len(c.blacklist) = Cardinality(Written("blacklist", "item"))
          /\ ToSet(c.blacklist) = {Tidy[Head(text[i].value.words)] : i \in Written("blacklist", "item")}

\* The checks of the window, of the core and of the file agree: what the window lets
\* pass, the core takes and the file holds.
ChecksAgree ==
    WindowFault(form) = None =>
        LET patched == [form EXCEPT !.fields.modifier = held.fields.modifier]
        IN  UpdateSettings(patched) = None /\ SerializeIni(Normalize(patched)) # None

\* A save is refused for what was changed in the window.  Excepted are what a file, or
\* another window, may hold but this one may not: a duration below half a second and
\* thresholds out of order.
Changed(k) == IF k \in Fields THEN form.fields[k] # opened.fields[k]
              ELSE form.hotkeys[k] # opened.hotkeys[k]
Together(k) == CASE k = "volume_step_large" -> {"volume_step", k}
                 [] k = "green_up_to" -> {"blue_up_to", k}
                 [] k \in ToSet(KeyActions) -> ToSet(KeyActions)
                 [] OTHER -> {k}
RefusalIsOnesOwn ==
    LET fault == WindowFault(form)
    IN  fault # None =>
          \/ \E k \in Together(fault) : Changed(k)
          \/ opened.fields.overlay_duration_ms.number < 500
          \/ FirstFault(ValidateThresholds(opened)) # None
=============================================================================
