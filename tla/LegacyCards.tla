----------------------------- MODULE LegacyCards -----------------------------
(***************************************************************************)
(* What the native Windows program shows on its painted windows: the mixer's *)
(* flyout, the overlay and the help card (mixer.rs, overlay.rs, help.rs), the *)
(* appearance app.rs resolves for them (ui/theme.rs, ui/capabilities.rs), the *)
(* rail they share (ui/signal_rail.rs) and the canvas they are painted on     *)
(* (ui/platform/windows/primitives.rs).  A window is its data, the region     *)
(* still to be painted and the picture last painted; all run on one thread.   *)
(* theme stands for theme, accent and language.  Where the windows lie and    *)
(* the sound itself are in LegacyHost.  External: when Windows paints a       *)
(* window, tells of the pointer, moves the focus, and what DWM does to the    *)
(* backdrop of a window just shown under high contrast.                       *)
(***************************************************************************)
EXTENDS Naturals, Sequences, FiniteSets, SequencesExt, Absent

CONSTANTS CardMaterials,      \* the materials config may ask for
          Bounds,         \* the colour thresholds config may hold
          Chords,         \* the modifiers config may hold
          Heard,          \* the sounds the device may have: level and mute
          TextWidth,          \* of a text, as GDI measures it
          Statuses,       \* what may become of the shortcuts
          MaxCards,       \* bound: inputs
          MaxCardFaults   \* bound: failed reads and paints

ASSUME CardsAssumption == /\ MaxCards \in Nat /\ MaxCardFaults \in Nat
                          /\ Bounds # {} /\ Chords # {} /\ Heard # {}
                          /\ \A b \in Bounds : b.green \in Nat /\ b.blue \in Nat
                          /\ \A h \in Heard : h.level \in 0..100 /\ h.muted \in BOOLEAN

VARIABLES flyout, capsule, helpCard,   \* the windows of the mixer, the overlay and the help card
          chosen,                  \* the running config: theme, material, bounds, modifier
          registered,              \* what became of each shortcut's registration
          told,                    \* the sound as last read
          dusk,                    \* Windows prefers dark
          caps,                    \* the display session, as measured at the start
          pointer, focusOn,        \* where they are
          unheard,                    \* what changed since the last publish, and since the help card was shown
          cardSpent                    \* inputs and faults so far

cards == <<flyout, capsule, helpCard, chosen, registered, told, dusk, caps, pointer, focusOn, unheard, cardSpent>>

(***************************************************************************)
(* Appearance.                                                             *)
(***************************************************************************)
CardThemes == {"System", "Light", "Dark"}
TokensFor(theme) == [dark |-> IF theme = "System" THEN dusk ELSE theme = "Dark", contrast |-> caps.contrast]

\* detect_capabilities: blur is taken to come with the compositor.
Capabilities == {[contrast |-> FALSE, compositor |-> TRUE, plain |-> FALSE], [contrast |-> TRUE, compositor |-> TRUE, plain |-> FALSE],
                 [contrast |-> FALSE, compositor |-> FALSE, plain |-> FALSE], [contrast |-> FALSE, compositor |-> TRUE, plain |-> TRUE]}
ResolveMaterial(material) ==
    IF caps.contrast \/ caps.plain \/ ~caps.compositor \/ material = "Opaque" THEN "Opaque"
    ELSE IF material \in {"Auto", "Acrylic", "LiquidGlass", "Blur"} THEN "Blurred" ELSE "Translucent"

LookOf(c) == [tokens |-> TokensFor(c.theme), material |-> ResolveMaterial(c.material)]
HelpLook(c) == TokensFor(c.theme)

\* The backdrop a material asks DWM for.
ApplyBackdrop(material) == IF material = "Blurred" THEN "transient" ELSE "none"

(***************************************************************************)
(* The rail (SignalRail, rail_geometry), on a track from left to right.    *)
(***************************************************************************)
VolumeColour(h, b) ==
    IF h.muted \/ h.level = 0 THEN "grey"
    ELSE IF h.level <= b.green THEN "green" ELSE IF h.level <= b.blue THEN "blue" ELSE "orange"
FillColour(rail) ==
    LET r == rail.heard IN
    IF r.muted \/ r.level = 0 THEN "grey"
    ELSE IF r.level <= rail.bounds.green THEN "green"
    ELSE IF r.level <= rail.bounds.blue THEN "blue" ELSE "orange"
ClampCenter(x, low, high) == IF x < low THEN low ELSE IF x > high THEN high ELSE x
RailGeometry(rail, track) ==
    LET fill == track.left + ((track.right - track.left) * rail.heard.level) \div 100 IN
    [fill |-> fill, colour |-> FillColour(rail),
     marker |-> [shape |-> IF rail.heard.muted THEN "diamond" ELSE "thumb",
                 at |-> ClampCenter(fill, track.left + 6, track.right - 6)]]
RailPicture(rail, look, track) ==
    [background |-> look.tokens, border |-> look.material = "Opaque",
     value |-> IF rail.heard.muted THEN "Muted" ELSE rail.heard.level,
     rail |-> RailGeometry(rail, track)]

(***************************************************************************)
(* The help card's rows (build_rows, conflict_callout, pack_explanation).  *)
(***************************************************************************)
ActionRows == <<[action |-> "VolumeUp", key |-> "up"], [action |-> "VolumeDown", key |-> "down"],
                [action |-> "ToggleMute", key |-> "M"], [action |-> "OpenMixer", key |-> "V"],
                [action |-> "Reset50", key |-> "R"]>>

KeycapChips(modifier, key) == (IF modifier = "CtrlAlt" THEN <<"Ctrl", "Alt">> ELSE <<modifier>>) \o <<key>>
BadgeForAction(status) ==
    IF status = "Conflicted" THEN "In use" ELSE IF status = "Disabled" THEN "Disabled"
    ELSE IF status = "HookRouted" THEN "Fallback" ELSE "Ready"
BuildRows(c, status) ==
    [i \in DOMAIN ActionRows |-> [chips |-> KeycapChips(c.modifier, ActionRows[i].key),
                                  badge |-> BadgeForAction(status[ActionRows[i].action])]]
\* The rows of the conflicted shortcuts; none means no callout.
ConflictCallout(keys) == SelectSeq(keys, LAMBDA r : r.badge = "In use")

BadgeColours(tokens, badge) ==
    IF tokens.contrast THEN "text"
    ELSE IF badge = "Ready" THEN "low" ELSE IF badge = "Fallback" THEN "accent"
    ELSE IF badge = "In use" THEN "high" ELSE "secondary"

SentenceTail(n) == IF n = 1 THEN "is used by another app." ELSE "are used by another app."
ExplanationAtoms(callout) ==
    LET n == Len(callout) IN
    FlattenSeq([i \in 1..n |-> <<callout[i].chips>> \o
                  (IF i = n THEN <<>> ELSE IF i + 1 = n THEN <<<<" and ">>>> ELSE <<<<", ">>>>)])
        \o <<<<SentenceTail(n)>>>>
\* A combo is its padded chips with the plus signs between them; a text has no frame.
AtomWidth(atom) ==
    IF Len(atom) = 1 THEN TextWidth[atom[1]]
    ELSE FoldLeft(LAMBDA sum, chip : sum + TextWidth[chip] + 12, 0, atom) + (Len(atom) - 1) * 18

\* Greedily into lines from left to right, the third line taking what is left.
PackExplanation(atoms, area) ==
    LET Place(packed, atom) ==
            LET wrap == packed.x > area.left /\ packed.x + AtomWidth(atom) > area.right
                line == IF wrap /\ packed.line < 2 THEN packed.line + 1 ELSE packed.line
                x == IF wrap THEN area.left ELSE packed.x
            IN [x |-> x + AtomWidth(atom), line |-> line,
                runs |-> Append(packed.runs, [line |-> line, from |-> x, to |-> x + AtomWidth(atom), atom |-> atom])]
    IN FoldLeft(Place, [x |-> area.left, line |-> 0, runs |-> <<>>], atoms).runs

(***************************************************************************)
(* Windows, pictures and painting.                                         *)
(***************************************************************************)
Places == {"away", "flyoutCross", "card", "cardCross"}
MixerStops == <<"slider", "mute", "reset", "close">>
HelpStops == <<"edit", "settings", "close">>
Targets == {<<"flyout", c>> : c \in Range(MixerStops)} \cup {<<"card", c>> : c \in Range(HelpStops)}
               \cup {<<"flyout", "window">>, <<"card", "window">>}
RingIn(window) == IF focusOn # None /\ focusOn[1] = window /\ focusOn[2] # "window" THEN focusOn[2] ELSE None

\* Where the layouts put the rails and the callout's text, from the left.
FlyoutTrack == [left |-> 16, right |-> 384]
CapsuleTrack == [left |-> 16, right |-> 320]
CalloutText == [left |-> 40, right |-> 480]

FlyoutPicture(f) == RailPicture(f.rail, f.look, FlyoutTrack)
CapsulePicture(o) == IF o.toast THEN [background |-> o.look.tokens, border |-> o.look.material = "Opaque"]
                     ELSE RailPicture(o.rail, o.look, CapsuleTrack)
RowPicture(tokens, model) == [model |-> model, badge |-> BadgeColours(tokens, model.badge)]
CalloutPicture(h) ==
    LET taken == ConflictCallout(h.rows) IN
    IF taken = <<>> THEN None
    ELSE PackExplanation(ExplanationAtoms(taken), CalloutText)
CardPicture(h) ==
    [background |-> h.look, hover |-> h.hover, callout |-> CalloutPicture(h),
     rows |-> [i \in DOMAIN h.rows |-> RowPicture(h.look, h.rows[i])]]

PlainLook == [tokens |-> [dark |-> FALSE, contrast |-> FALSE], material |-> "Opaque"]
NoRail == [heard |-> [level |-> 0, muted |-> FALSE], bounds |-> [green |-> 40, blue |-> 75]]

\* The windows are made at the start, hidden.
NewFlyout == [open |-> FALSE, look |-> PlainLook, rail |-> NoRail, hover |-> FALSE, armed |-> FALSE, todo |-> {},
              seen |-> None, cross |-> FALSE, back |-> "none", timer |-> FALSE, young |-> FALSE, wiped |-> FALSE]
NewCapsule == [open |-> FALSE, look |-> PlainLook, rail |-> NoRail, toast |-> FALSE, todo |-> FALSE, seen |-> None]
NewCard == [open |-> FALSE, look |-> PlainLook.tokens, rows |-> <<>>, hover |-> FALSE, armed |-> FALSE, todo |-> FALSE,
            seen |-> None, back |-> "auto", timer |-> FALSE, young |-> FALSE, wiped |-> FALSE]

CardsInit ==
    /\ flyout = NewFlyout /\ capsule = NewCapsule /\ helpCard = NewCard
    /\ caps \in Capabilities
    /\ chosen = [theme |-> "System", material |-> "Auto", bounds |-> CHOOSE b \in Bounds : TRUE,
                 modifier |-> CHOOSE m \in Chords : TRUE]
    /\ registered \in Statuses
    /\ told = (CHOOSE h \in Heard : TRUE) /\ dusk = FALSE /\ pointer = "away" /\ focusOn = None
    /\ unheard = [flyout |-> {}, card |-> {}] /\ cardSpent = [inputs |-> 0, faults |-> 0]

CardInput == cardSpent.inputs < MaxCards /\ cardSpent' = [cardSpent EXCEPT !.inputs = @ + 1]
Costing(faults, inputs) ==
    /\ cardSpent.faults + faults <= MaxCardFaults /\ cardSpent.inputs + inputs <= MaxCards
    /\ cardSpent' = [inputs |-> cardSpent.inputs + inputs, faults |-> cardSpent.faults + faults]

\* BeginPaint, a Direct2D operation or EndDraw failed: the window is invalidated again.
PaintFails == Costing(1, 0)
FlyoutPainted(f) == [f EXCEPT !.todo = (@ \ {"window"}) \cup {"cross"}, !.wiped = FALSE,
                              !.seen = [look |-> f.look, rail |-> f.rail, ring |-> RingIn("flyout")]]
PaintFlyout ==
    /\ flyout.open /\ "window" \in flyout.todo
    /\ \/ flyout' = FlyoutPainted(flyout) /\ UNCHANGED cardSpent
       \/ PaintFails /\ UNCHANGED flyout
    /\ UNCHANGED <<capsule, helpCard, chosen, registered, told, dusk, caps, pointer, focusOn, unheard>>
\* The owner-drawn close button.
PaintCross ==
    /\ flyout.open /\ "cross" \in flyout.todo
    /\ flyout' = [flyout EXCEPT !.todo = @ \ {"cross"}, !.cross = flyout.hover]
    /\ UNCHANGED <<capsule, helpCard, chosen, registered, told, dusk, caps, pointer, focusOn, unheard, cardSpent>>
PaintCapsule ==
    /\ capsule.open /\ capsule.todo
    /\ \/ capsule' = [capsule EXCEPT !.todo = FALSE, !.seen = [look |-> capsule.look, rail |-> capsule.rail, toast |-> capsule.toast]] /\ UNCHANGED cardSpent
       \/ PaintFails /\ UNCHANGED capsule
    /\ UNCHANGED <<flyout, helpCard, chosen, registered, told, dusk, caps, pointer, focusOn, unheard>>
PaintCard ==
    /\ helpCard.open /\ helpCard.todo
    /\ \/ /\ helpCard' = [helpCard EXCEPT !.todo = FALSE, !.wiped = FALSE, !.seen = [look |-> helpCard.look, rows |-> helpCard.rows, hover |-> helpCard.hover, ring |-> RingIn("card")]]
          /\ UNCHANGED cardSpent
       \/ PaintFails /\ UNCHANGED helpCard
    /\ UNCHANGED <<flyout, capsule, chosen, registered, told, dusk, caps, pointer, focusOn, unheard>>

(***************************************************************************)
(* What the host does to them (publish_confirmed_state, handle_action).    *)
(***************************************************************************)
Invalidated(f) == [f EXCEPT !.todo = @ \cup {"window"}]
ApplyAppearance(f, look) ==
    IF f.look = look THEN f
    ELSE Invalidated([f EXCEPT !.look = look, !.back = ApplyBackdrop(look.material)])
SetThresholds(f, b) == IF f.rail.bounds = b THEN f ELSE Invalidated([f EXCEPT !.rail.bounds = b])
SyncedFlyout(f, h) == Invalidated([ApplyAppearance(f, LookOf(chosen')) EXCEPT !.rail.heard = h])

\* UpdateWindow paints at once, and the cross takes the pointer's place; the mouse is not asked to tell of
\* its leaving.
FlyoutOpened(f) ==
    LET g == Invalidated([ApplyAppearance(f, LookOf(chosen')) EXCEPT !.open = TRUE, !.timer = TRUE, !.young = caps.contrast])
        Over(h) == [h EXCEPT !.hover = pointer = "flyoutCross"]
    IN {[now |-> Over(FlyoutPainted(g)), cost |-> 0], [now |-> Over(g), cost |-> 1]}

Present(o) == [o EXCEPT !.open = TRUE, !.todo = TRUE, !.look = LookOf(chosen')]
ShowVolume(h) == Present([capsule EXCEPT !.rail = [heard |-> h, bounds |-> chosen'.bounds], !.toast = FALSE])
ShowText == Present([capsule EXCEPT !.toast = TRUE])

\* A read that fails publishes nothing.  f: the flyout before it; o: the overlay; costs: what came before.
PublishConfirmed(f, o, showing, cost, inputs) ==
    \/ /\ Costing(cost, inputs)
       /\ \E h \in Heard :
             /\ told' = h
             /\ flyout' = IF f.open THEN SyncedFlyout(SetThresholds(f, chosen'.bounds), h) ELSE f
             /\ capsule' = IF showing THEN ShowVolume(h) ELSE o
       /\ unheard' = [unheard EXCEPT !.flyout = {}, !.card = IF chosen' = chosen THEN @ ELSE @ \cup {"config"}]
    \/ /\ Costing(cost + 1, inputs)
       /\ flyout' = f /\ capsule' = o /\ UNCHANGED told
       /\ unheard' = [flyout |-> unheard.flyout \cup {"read"}, card |-> IF chosen' = chosen THEN unheard.card ELSE unheard.card \cup {"config"}]

\* A change of volume, whoever asked for it.
HandleSound ==
    /\ UNCHANGED chosen /\ PublishConfirmed(flyout, capsule, TRUE, 0, 1)
    /\ UNCHANGED <<helpCard, registered, dusk, caps, pointer, focusOn>>

\* The new modifier's shortcuts are registered; the other fields leave them alone.
Choose(c) ==
    /\ chosen' = c
    /\ IF c.modifier = chosen.modifier THEN UNCHANGED registered ELSE registered' \in Statuses
ChangedConfig ==
    {c \in {[chosen EXCEPT !.theme = t] : t \in CardThemes} \cup {[chosen EXCEPT !.material = m] : m \in CardMaterials}
             \cup {[chosen EXCEPT !.bounds = b] : b \in Bounds} \cup {[chosen EXCEPT !.modifier = m] : m \in Chords} : c # chosen}

\* The watched file shows the volume on the overlay, the settings window nothing; the tray's reload shows
\* a text and publishes nothing.
ReloadConfig ==
    /\ cardSpent.inputs < MaxCards
    /\ \E c \in ChangedConfig : Choose(c)
    /\ \/ \E showing \in BOOLEAN : PublishConfirmed(flyout, capsule, showing, 0, 1)
       \/ /\ CardInput /\ capsule' = ShowText
          /\ unheard' = [w \in DOMAIN unheard |-> unheard[w] \cup {"config"}]
          /\ UNCHANGED <<flyout, told>>
    /\ UNCHANGED <<helpCard, dusk, caps, pointer, focusOn>>

PollHost ==
    /\ UNCHANGED chosen /\ PublishConfirmed(flyout, capsule, FALSE, 0, 0)
    /\ UNCHANGED <<helpCard, registered, dusk, caps, pointer, focusOn>>

Toast ==
    /\ CardInput /\ UNCHANGED chosen /\ capsule' = ShowText
    /\ UNCHANGED <<flyout, helpCard, registered, told, dusk, caps, pointer, focusOn, unheard>>

\* Synced first, when the device can be read.
ShowMixer ==
    /\ cardSpent.inputs < MaxCards /\ ~flyout.open /\ UNCHANGED chosen
    /\ \/ \E h \in Heard : \E o \in FlyoutOpened(SyncedFlyout(flyout, h)) : PublishConfirmed(o.now, capsule, FALSE, o.cost, 1)
       \/ \E o \in FlyoutOpened(flyout) : PublishConfirmed(o.now, capsule, FALSE, o.cost + 1, 1)
    /\ UNCHANGED <<helpCard, registered, dusk, caps, pointer, focusOn>>

ShowHelp ==
    /\ CardInput /\ UNCHANGED chosen
    /\ helpCard' = [helpCard EXCEPT !.open = TRUE, !.look = HelpLook(chosen), !.rows = BuildRows(chosen, registered),
                            !.timer = TRUE, !.young = caps.contrast, !.todo = TRUE]
    /\ unheard' = [unheard EXCEPT !.card = {}]
    /\ UNCHANGED <<flyout, capsule, registered, told, dusk, caps, pointer, focusOn>>

\* The overlay's timer hides it; the other two apply the resolved backdrop again.
CapsuleTimer ==
    /\ capsule.open /\ capsule' = [capsule EXCEPT !.open = FALSE, !.todo = FALSE, !.seen = None]
    /\ UNCHANGED <<flyout, helpCard, chosen, registered, told, dusk, caps, pointer, focusOn, unheard, cardSpent>>
FlyoutTimer ==
    /\ flyout.timer /\ ~flyout.young
    /\ flyout' = [flyout EXCEPT !.timer = FALSE, !.back = ApplyBackdrop(flyout.look.material)]
    /\ UNCHANGED <<capsule, helpCard, chosen, registered, told, dusk, caps, pointer, focusOn, unheard, cardSpent>>
CardTimer ==
    /\ helpCard.timer /\ ~helpCard.young
    /\ helpCard' = [helpCard EXCEPT !.timer = FALSE, !.back = ApplyBackdrop("Opaque")]
    /\ UNCHANGED <<flyout, capsule, chosen, registered, told, dusk, caps, pointer, focusOn, unheard, cardSpent>>

(***************************************************************************)
(* The user, and Windows.                                                  *)
(***************************************************************************)
\* A hidden window keeps its highlight unless Windows tells it that the pointer has left.
HiddenWindow(w, left) == [w EXCEPT !.open = FALSE, !.seen = None, !.wiped = FALSE, !.armed = FALSE, !.hover = @ /\ ~left]
FocusLeft(window) == focusOn' = IF focusOn # None /\ focusOn[1] = window THEN None ELSE focusOn
CloseMixer ==
    /\ CardInput /\ flyout.open /\ FocusLeft("flyout")
    /\ \E left \in BOOLEAN : flyout' = [HiddenWindow(flyout, left) EXCEPT !.todo = {}]
    /\ UNCHANGED <<capsule, helpCard, chosen, registered, told, dusk, caps, pointer, unheard>>
\* A button that opens the config file or the settings posts to the host and hides the card.
CloseHelp ==
    /\ CardInput /\ helpCard.open /\ FocusLeft("card")
    /\ \E left \in BOOLEAN : helpCard' = [HiddenWindow(helpCard, left) EXCEPT !.todo = FALSE]
    /\ UNCHANGED <<flyout, capsule, chosen, registered, told, dusk, caps, pointer, unheard>>

\* A control that gains or loses the focus has its window painted again.
Shows(t, window) == t # None /\ t[1] = window /\ t[2] # "window"
MoveFocusSilently(t) ==
    /\ focusOn' = t
    /\ UNCHANGED <<flyout, helpCard, capsule, chosen, registered, told, dusk, caps, pointer, unheard>>
MoveFocus(t) ==
    /\ focusOn' = t
    /\ flyout' = IF Shows(focusOn, "flyout") \/ Shows(t, "flyout") THEN Invalidated(flyout) ELSE flyout
    /\ helpCard' = IF Shows(focusOn, "card") \/ Shows(t, "card") THEN [helpCard EXCEPT !.todo = TRUE] ELSE helpCard
    /\ UNCHANGED <<capsule, chosen, registered, told, dusk, caps, pointer, unheard>>
Focus ==
    /\ CardInput
    /\ \E t \in Targets \cup {None} :
          /\ t # focusOn /\ (t # None => IF t[1] = "flyout" THEN flyout.open ELSE helpCard.open)
          /\ MoveFocus(t)
Neighbour(order, control, back) ==
    IF control = "window" THEN order[1]
    ELSE LET n == Len(order)
             i == CHOOSE k \in DOMAIN order : order[k] = control
         IN order[((i - 1 + IF back THEN n - 1 ELSE 1) % n) + 1]
TabKey ==
    /\ CardInput /\ focusOn # None
    /\ \E back \in BOOLEAN :
          MoveFocus(<<focusOn[1], Neighbour(IF focusOn[1] = "flyout" THEN MixerStops ELSE HelpStops, focusOn[2], back)>>)

\* WM_MOUSEMOVE where the pointer is, WM_MOUSELEAVE where it was.
OverFlyout(p) ==
    IF flyout.open /\ p = "flyoutCross" /\ ~flyout.hover
    THEN [flyout EXCEPT !.hover = TRUE, !.armed = TRUE, !.todo = @ \cup {"cross"}]
    ELSE IF p # "flyoutCross" /\ flyout.armed
    THEN [flyout EXCEPT !.hover = FALSE, !.armed = FALSE, !.todo = IF flyout.hover THEN @ \cup {"cross"} ELSE @]
    ELSE flyout
OverCard(p) ==
    LET on == p = "cardCross"
        in == p \in {"card", "cardCross"} /\ helpCard.open
        heardOf == in \/ helpCard.armed
    IN [helpCard EXCEPT !.armed = in, !.hover = IF heardOf THEN in /\ on ELSE @,
                    !.todo = @ \/ (heardOf /\ helpCard.hover # (in /\ on))]
PointerMoves ==
    /\ \/ CardInput /\ \E p \in Places : p # pointer /\ pointer' = p
       \/ UNCHANGED <<pointer, cardSpent>>
    /\ flyout' = OverFlyout(pointer') /\ helpCard' = OverCard(pointer')
    /\ UNCHANGED <<capsule, chosen, registered, told, dusk, caps, focusOn, unheard>>

\* Under high contrast DWM soon puts its own backdrop under a window just shown, and takes it for painted.
Overrides ==
    /\ \/ /\ flyout.young /\ UNCHANGED helpCard
          /\ flyout' = [flyout EXCEPT !.young = FALSE, !.back = "auto", !.todo = @ \ {"window"},
                                      !.wiped = flyout.open /\ (@ \/ "window" \in flyout.todo)]
       \/ /\ helpCard.young /\ UNCHANGED flyout
          /\ helpCard' = [helpCard EXCEPT !.young = FALSE, !.back = "auto", !.todo = FALSE, !.wiped = helpCard.open /\ (@ \/ helpCard.todo)]
    /\ UNCHANGED <<capsule, chosen, registered, told, dusk, caps, pointer, focusOn, unheard, cardSpent>>

DuskFalls ==
    /\ CardInput /\ dusk' = ~dusk
    /\ unheard' = [w \in DOMAIN unheard |-> unheard[w] \cup {"dusk"}]
    /\ UNCHANGED <<flyout, capsule, helpCard, chosen, registered, told, caps, pointer, focusOn>>

CardsNext ==
    \/ PaintFlyout \/ PaintCross \/ PaintCapsule \/ PaintCard
    \/ HandleSound \/ ReloadConfig \/ PollHost \/ Toast \/ ShowMixer \/ ShowHelp
    \/ CapsuleTimer \/ FlyoutTimer \/ CardTimer
    \/ CloseMixer \/ CloseHelp \/ Focus \/ TabKey \/ PointerMoves \/ Overrides \/ DuskFalls

(***************************************************************************)
(* Properties.                                                             *)
(***************************************************************************)
\* What an open window has painted is what it holds, unless it is about to be painted or DWM took it for
\* painted before it was.
PicturesAreCurrent ==
    /\ flyout.open /\ "window" \notin flyout.todo /\ ~flyout.wiped
         => FlyoutPicture(flyout.seen) = FlyoutPicture(flyout) /\ flyout.seen.ring = RingIn("flyout")
    /\ flyout.open /\ flyout.todo = {} /\ ~flyout.wiped => flyout.cross = flyout.hover
    /\ capsule.open /\ ~capsule.todo => CapsulePicture(capsule.seen) = CapsulePicture(capsule)
    /\ helpCard.open /\ ~helpCard.todo /\ ~helpCard.wiped
         => CardPicture(helpCard.seen) = CardPicture(helpCard) /\ helpCard.seen.ring = RingIn("card")
\* An open mixer holds what was last read, under the running config; the help card tells the registrations
\* it was shown for, all of one moment; both until something changed that does not reach them.
HeldIsConfirmed ==
    /\ flyout.open /\ unheard.flyout = {} => flyout.look = LookOf(chosen) /\ flyout.rail = [heard |-> told, bounds |-> chosen.bounds]
    /\ helpCard.open /\ unheard.card = {} => helpCard.look = HelpLook(chosen) /\ helpCard.rows = BuildRows(chosen, registered)
\* A highlighted cross has the pointer on it, where Windows was asked to tell of its leaving.
HighlightIsThePointers ==
    /\ flyout.open /\ flyout.hover /\ flyout.armed => pointer = "flyoutCross"
    /\ helpCard.open /\ helpCard.hover /\ helpCard.armed => pointer = "cardCross"
\* Once its timer has run, an open window has the backdrop of its material, whatever DWM did.
BackdropSettles ==
    /\ flyout.open /\ ~flyout.young /\ ~flyout.timer => flyout.back = ApplyBackdrop(flyout.look.material)
    /\ helpCard.open /\ ~helpCard.young /\ ~helpCard.timer => helpCard.back = "none"
\* The rail has the colour core gives the sound, and its marker lies on the track.
RailsAgree ==
    \A h \in Heard, b \in Bounds :
       LET g == RailGeometry([heard |-> h, bounds |-> b], FlyoutTrack) IN
       g.colour = VolumeColour(h, b) /\ g.fill \in 16..384 /\ g.marker.at \in 22..378
\* However many shortcuts are taken, the callout's lines hold them apart from each other inside the card.
ExplanationFits ==
    \A m \in Chords, taken \in SUBSET {r.action : r \in Range(ActionRows)} :
       LET keys == BuildRows([modifier |-> m], [a \in {r.action : r \in Range(ActionRows)} |->
                                                  IF a \in taken THEN "Conflicted" ELSE "Registered"])
           runs == PackExplanation(ExplanationAtoms(ConflictCallout(keys)), CalloutText)
       IN taken # {} => \A i, j \in DOMAIN runs : i < j =>
              runs[i].line < runs[j].line \/ (runs[i].line = runs[j].line /\ runs[i].to <= runs[j].from)
=============================================================================
