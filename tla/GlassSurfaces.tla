---------------------------- MODULE GlassSurfaces ---------------------------
(***************************************************************************)
(* The native surfaces of the liquid_glass crate: LiquidGlassSurface-        *)
(* Controller, to which the host publishes its confirmed state, and the       *)
(* overlay, mixer, panel and help surfaces, which draw it and turn         *)
(* gestures into host actions.  Publications, frames, gestures and the        *)
(* ticks of the host's loop come in any order: a gesture aims at the frame    *)
(* that was drawn last.  Each frame fills a new scene, as the crate's tests   *)
(* do; no program of the repository links the crate yet, so the windows and   *)
(* the answers of the host are external.                                      *)
(***************************************************************************)
EXTENDS Absent, GlassScene

CONSTANTS
    Rows,           \* the audio sessions
    SessionLists,   \* the lists of them that the host may publish
    Matching,       \* the sessions that pass each search query
    MaxGlass        \* bound: publications, gestures and notifications

ASSUME GlassAssumption ==
    /\ IsFiniteSet(Rows) /\ SessionLists \subseteq Seq(Rows) /\ None \notin Rows /\ None \notin {"System", "Light", "Dark"}
    /\ DOMAIN Matching # {} /\ \A q \in DOMAIN Matching : Matching[q] \subseteq Rows
    /\ MaxGlass \in Nat

VARIABLES
    app,       \* the host's confirmed state, and what it published last
    hud,       \* OverlaySurface; times in ticks of half a second
    mixer,     \* MixerSurface
    panel,  \* SettingsSurface
    help,      \* HelpSurface: whether it is open
    seen,      \* the surfaces as the last frame drew them
    sent,      \* the last action that a surface emitted, and what the user aimed at
    wanted,    \* history: the theme the user asked for, None when it is the host's
    unseen,    \* history: a change came while the host had the overlay hidden
    glassActs

glass == <<app, hud, mixer, panel, help, seen, sent, wanted, unseen, glassActs>>

Percents == {0, 50}
GlassTabs == {Tabs[i] : i \in DOMAIN Tabs}
GlassThemes == {Themes[i] : i \in 1..3}
GlassSteps == {Steps[i] : i \in 1..3}

HudTicks == 3     \* 1500 ms
NoteTicks == 5    \* 2500 ms
FadeTicks == 1    \* the critically damped spring settles in less

\* from_state: what the host's state does not hold gets a fixed value.
DraftFrom(a) == [theme |-> a.theme, step |-> 2]
Nothing == [action |-> None, row |-> None, aimed |-> None, stale |-> FALSE, draft |-> None]
Mixed(m, a) == [m EXCEPT !.percent = a.percent, !.muted = a.muted, !.list = a.list]
Drawn == [mixer |-> mixer, settings |-> panel, help |-> help]

GlassStates ==
    [percent : {50}, muted : {FALSE}, hudUp : BOOLEAN, helpUp : {FALSE}, theme : {"Dark"}, list : SessionLists]

GlassInit ==
    /\ app \in GlassStates
    /\ hud = [up |-> FALSE, percent |-> 50, muted |-> FALSE, note |-> FALSE,
              age |-> 0, limit |-> HudTicks, fading |-> FALSE]
    /\ mixer = [percent |-> app.percent, muted |-> app.muted, list |-> app.list,
                query |-> CHOOSE q \in DOMAIN Matching : Matching[q] = Rows]
    /\ panel = [tab |-> "General", draft |-> DraftFrom(app), unsaved |-> FALSE]
    /\ help = FALSE
    /\ seen = Drawn /\ sent = Nothing
    /\ wanted = None /\ unseen = FALSE /\ glassActs = 0

GlassAct == glassActs < MaxGlass /\ glassActs' = glassActs + 1

-----------------------------------------------------------------------------
(* The host publishes; frames; time. *)

\* show: the fade is turned back, the age starts again.
ShowKeepsLimit(h, a) ==
    [h EXCEPT !.up = TRUE, !.percent = a.percent, !.muted = a.muted, !.note = FALSE,
              !.age = 0, !.fading = FALSE]
ShowHud(h, a) ==
    [h EXCEPT !.up = TRUE, !.percent = a.percent, !.muted = a.muted, !.note = FALSE,
              !.age = 0, !.limit = HudTicks, !.fading = FALSE]

SyncConfirmed(a) ==
    panel' = IF panel.unsaved THEN panel ELSE [panel EXCEPT !.draft = DraftFrom(a)]

Publish(a) ==
    /\ a # app /\ GlassAct /\ app' = a
    /\ mixer' = Mixed(mixer, a) /\ SyncConfirmed(a) /\ help' = a.helpUp
    /\ LET changed == a.percent # app.percent \/ a.muted # app.muted
       IN  /\ hud' = IF changed /\ a.hudUp THEN ShowHud(hud, a) ELSE hud
           /\ unseen' = IF changed THEN ~a.hudUp ELSE unseen
    /\ wanted' = IF panel.unsaved THEN wanted ELSE None
    /\ UNCHANGED <<seen, sent>>

\* One thing changes at a time: the host applies one action, or learns of one change.
Changes ==
    {[app EXCEPT !.percent = p] : p \in Percents} \cup {[app EXCEPT !.muted = ~@]}
    \cup {[app EXCEPT !.hudUp = ~@], [app EXCEPT !.helpUp = ~@]}
    \cup {[app EXCEPT !.theme = t] : t \in GlassThemes}
    \cup {[app EXCEPT !.list = l] : l \in SessionLists}

ShowNotification ==
    /\ GlassAct
    /\ hud' = [hud EXCEPT !.up = TRUE, !.note = TRUE, !.age = 0, !.limit = NoteTicks, !.fading = FALSE]
    /\ UNCHANGED <<app, mixer, panel, help, seen, sent, wanted, unseen>>

\* Half a second, at the end of which the host's loop calls update.
Tick ==
    /\ hud.up
    /\ LET older == [hud EXCEPT !.age = @ + 1]
       IN  hud' = IF older.age >= hud.limit + FadeTicks THEN [older EXCEPT !.up = FALSE]
                  ELSE [older EXCEPT !.fading = older.age >= hud.limit]
    /\ UNCHANGED <<app, mixer, panel, help, seen, sent, wanted, unseen, glassActs>>

Frame ==
    /\ seen # Drawn /\ seen' = Drawn
    /\ UNCHANGED <<app, hud, mixer, panel, help, sent, wanted, unseen, glassActs>>

-----------------------------------------------------------------------------
(* The mixer. *)

Filtered(m) == SelectSeq(m.list, LAMBDA r : r \in Matching[m.query])

\* The scenes, by what they depend on (here every row has the same level).
SceneKey(m) == <<m.percent, m.muted, Len(Filtered(m))>>
SceneKeys == {<<p, m, n>> : p \in Percents, m \in BOOLEAN, n \in 0..Cardinality(Rows)}
SceneOf(key) == MixerScene(key[1], key[2], [i \in 1..key[3] |-> [percent |-> 50, muted |-> FALSE]])

\* What a press on a rail may hit.
Presses(scene) ==
    {<<press[1].id, press[2].id>> :
        press \in {p \in {<<n, hit>> : n \in scene, hit \in scene} :
                       /\ p[1].id[1] \in {"master", "row"}
                       /\ \E place \in Probes(p[1].bounds) : p[2] \in Hits(scene, place)}}
Sliders(scene) == {n.id : n \in {m \in scene : m.id[3] = "slider"}}
MixerPresses == {[key |-> key, presses |-> Presses(SceneOf(key)), sliders |-> Sliders(SceneOf(key))] : key \in SceneKeys}

\* handle_click, handle_slider_drag, handle_slider_adjustment: a row's identity holds
\* its position among the filtered sessions, of now.
AtPositionUnfiltered(m, i) == IF i \in DOMAIN m.list THEN m.list[i] ELSE None
AtPosition(m, i) == IF i \in DOMAIN Filtered(m) THEN Filtered(m)[i] ELSE None

RailGesture(name) == IF name = "mute" THEN "toggle" ELSE "drag"
RowAt(m, id) == IF id[1] = "row" THEN AtPosition(m, id[2]) ELSE None

\* The action for the node id, where the user meant the one at aim.
Emit(g, aim, id) ==
    /\ GlassAct
    /\ sent' = IF id[1] = "row" /\ RowAt(mixer, id) = None THEN Nothing
               ELSE [Nothing EXCEPT !.action = g, !.row = RowAt(mixer, id),
                     !.aimed = RowAt(seen.mixer, aim),
                     !.stale = Filtered(seen.mixer) # Filtered(mixer)]
    /\ UNCHANGED <<app, hud, mixer, panel, help, seen, wanted, unseen>>

\* The user presses on a rail of the last frame; what it is is found out now.  Nothing comes of
\* a press that hits neither slider nor mute button, also when it falls on a slider's own fill.
PressRail(aim, id) ==
    \/ id[3] \in {"slider", "mute"} /\ Emit(RailGesture(id[3]), aim, id)
    \/ /\ id[3] \notin {"slider", "mute"} /\ GlassAct /\ sent' = Nothing
       /\ UNCHANGED <<app, hud, mixer, panel, help, seen, wanted, unseen>>

\* A screen reader names the slider itself.
Adjust(id) == Emit("adjust", id, id)

\* append_search_char, pop_search_char, commit_search_text, clear_search.
Search(q) ==
    /\ GlassAct /\ q # mixer.query /\ mixer' = [mixer EXCEPT !.query = q]
    /\ UNCHANGED <<app, hud, panel, help, seen, sent, wanted, unseen>>

-----------------------------------------------------------------------------
(* Settings: a click on a node of the last frame, whatever tab is chosen now. *)

TabControls ==
    {[tab |-> tab, kinds |-> {n.id[1] : n \in {c \in SettingsScene(tab, 760, 620) : c.focusable}}] :
        tab \in GlassTabs}

OnSettings(kind) ==
    /\ GlassAct
    /\ \E t \in TabControls : t.tab = seen.settings.tab /\ kind \in t.kinds
    /\ UNCHANGED <<app, hud, mixer, help, seen, unseen>>

SelectTab(tab) ==
    /\ OnSettings("tab") /\ panel' = [panel EXCEPT !.tab = tab]
    /\ UNCHANGED <<sent, wanted>>

SetTheme(t) ==
    /\ OnSettings("theme") /\ wanted' = t
    /\ panel' = [panel EXCEPT !.draft.theme = t, !.unsaved = TRUE]
    /\ UNCHANGED sent

SetStep(s) ==
    /\ OnSettings("step")
    /\ panel' = [panel EXCEPT !.draft.step = s, !.unsaved = TRUE]
    /\ wanted' = IF wanted = None THEN panel.draft.theme ELSE wanted
    /\ UNCHANGED sent

\* The draft counts as saved before the host has answered.
SaveDraft ==
    /\ OnSettings("save")
    /\ panel' = [panel EXCEPT !.unsaved = FALSE]
    /\ sent' = [Nothing EXCEPT !.action = "save", !.draft = panel.draft]
    /\ wanted' = panel.draft.theme

CancelDraft ==
    /\ OnSettings("cancel")
    /\ panel' = [panel EXCEPT !.draft = DraftFrom(app), !.unsaved = FALSE]
    /\ sent' = [Nothing EXCEPT !.action = "cancel"] /\ wanted' = None

\* The defaults stay an unsaved draft when the host has reset its own.
ResetDefaults ==
    /\ OnSettings("reset")
    /\ panel' = [panel EXCEPT !.draft = [theme |-> "System", step |-> 2], !.unsaved = TRUE]
    /\ sent' = [Nothing EXCEPT !.action = "reset"] /\ wanted' = "System"

\* Buttons that only send: check for updates and the two of the blacklist.
SendOnly(kind) ==
    /\ OnSettings(kind)
    /\ sent' = [Nothing EXCEPT !.action = kind] /\ UNCHANGED <<panel, wanted>>

\* What counts against the bound.
HostOrUser ==
    \/ \E a \in Changes : Publish(a)
    \/ ShowNotification
    \/ \E drawn \in MixerPresses :
          /\ drawn.key = SceneKey(seen.mixer)
          /\ \/ \E press \in drawn.presses : PressRail(press[1], press[2])
             \/ \E id \in drawn.sliders : Adjust(id)
    \/ \E q \in DOMAIN Matching : Search(q)
    \/ \E tab \in GlassTabs : SelectTab(tab)
    \/ \E t \in GlassThemes : SetTheme(t)
    \/ \E s \in GlassSteps : SetStep(s)
    \/ SaveDraft \/ CancelDraft \/ ResetDefaults
    \/ \E kind \in {"check", "recommended", "clear"} : SendOnly(kind)

GlassNext == Tick \/ Frame \/ (glassActs < MaxGlass /\ HostOrUser)

-----------------------------------------------------------------------------

\* What a surface shows and does is what the host and the user meant, however
\* publications, frames and gestures interleave.  A gesture on a row addresses the
\* session drawn there, unless the list changed after the frame; the draft's theme is
\* the user's until it is saved, and the host's otherwise; the overlay has the volume
\* published last, unless it changed while the host had hidden the overlay; and it
\* goes within its time, also when a text and a volume follow each other.
GlassIsHonest ==
    /\ sent.action \in {"toggle", "drag", "adjust"} => sent.row = sent.aimed \/ sent.stale
    /\ panel.draft.theme = IF wanted = None THEN app.theme ELSE wanted
    /\ hud.up /\ ~hud.note /\ ~unseen => hud.percent = app.percent /\ hud.muted = app.muted
    /\ hud.up => hud.age < (IF hud.note THEN NoteTicks ELSE HudTicks) + FadeTicks

UnusableMixers == {key \in SceneKeys : ~Usable(SceneOf(key))}
UnusableTabs ==
    {tab \in GlassTabs : \E w \in {400, 620, 1000}, h \in {400, 620} : ~Usable(SettingsScene(tab, w, h))}
UnusableHelp == {open \in BOOLEAN : ~Usable(HelpScene(open))}

\* Whatever list, query, volume, tab and window size, every control of a surface lies in its card
\* (which in a settings window below 620 by 520 is larger than the window), no control takes
\* another one's press, and Tab and Shift+Tab pass all of them.
ScenesAreUsable ==
    SceneKey(mixer) \notin UnusableMixers /\ panel.tab \notin UnusableTabs /\ help \notin UnusableHelp

\* Not checked, for the code does otherwise: a press on a slider is the slider's.  Where the fill
\* covers it, hit_test answers with the fill, and nothing maps a fill to its slider.
SlidersTakeTheirPresses ==
    \A drawn \in MixerPresses : drawn.key = SceneKey(mixer) =>
        \A press \in drawn.presses : press[1][3] = "slider" => press[2] = press[1]
=============================================================================
