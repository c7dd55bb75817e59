----------------------------- MODULE LegacySettings -----------------------------
(***************************************************************************)
(* The native Windows settings window (settings.rs) with the draft it      *)
(* edits (ui/settings.rs) and the host arms that serve it (app.rs).        *)
(*                                                                         *)
(* The window keeps a draft (the baseline "orig", the working copy "cur",  *)
(* the last validation error) and native controls, which hold what the     *)
(* user typed.  Some edits reach the working copy at once (look,           *)
(* blacklist), the others only when Apply reads the controls.  The window  *)
(* posts apply, reset and cancel to the host, which handles them later on  *)
(* the same thread; the 150 ms poll reloads a file changed on disk.        *)
(*                                                                         *)
(* A configuration is reduced to one field of each kind: two steps that    *)
(* validate together, a beep frequency (0 is out of range, and what a text *)
(* that is no number reads as), the material of the appearance, the modifier,   *)
(* the blacklist, and "rest", which the window does not expose.  The combo *)
(* box of the materials lists fewer than there are: "Mica" stands for the  *)
(* ones it cannot select.                                                  *)
(***************************************************************************)
EXTENDS Absent, Naturals, Sequences, FiniteSets

CONSTANTS
  Modifiers,     \* the modifiers a shortcut may use
  Recommended,   \* [Modifiers -> SUBSET Apps], the recommended blacklists
  Apps,          \* the programs a blacklist may name
  StartDisks,    \* the configurations a behaviour may find on the disk
  MaxGestures,     \* bound: what the user and other programs do
  MaxFailures      \* bound: saves that fail on the disk

ASSUME WindowAssumption == /\ Recommended \in [Modifiers -> SUBSET Apps]
                           /\ Modifiers # {}
                           /\ MaxGestures \in Nat /\ MaxFailures \in Nat

VARIABLES disk,      \* the configuration on disk
          touched,    \* the file was written since the host last looked
          config,    \* the host's running configuration
          listener,  \* the modifier of the shortcut listener and the wheel hook
          work,     \* the draft: orig, cur and err
          ctl,       \* what the native controls read as
          win,       \* the window: open, section, focus, canSave, shown
          posts,     \* messages posted to the host and not handled yet
          gestures, failures,
          unsure,    \* the last Apply failed on the disk (history)
          owned      \* since the controls last showed the baseline: the fields the user
                     \* worked on, and those a reload moved under a dirty draft (history)

legacy == <<disk, touched, config, listener, work, ctl, win, posts, gestures, failures, unsure, owned>>

LookModes == {"Auto", "Opaque", "Mica"}
ComboLooks == {"Auto", "Opaque"}

Domain == [step |-> {1, 2}, large |-> {2, 3}, freq |-> {0, 1}, look |-> LookModes,
           modifier |-> Modifiers, black |-> SUBSET Apps, rest |-> {0, 1}]
LegacyConfigs == [step : Domain.step, large : Domain.large, freq : Domain.freq, look : Domain.look,
            modifier : Modifiers, black : SUBSET Apps, rest : Domain.rest]

\* The first field validation rejects, in validate's order.
Invalid(c) == CASE c.large <= c.step -> "large"
                [] c.large > c.step /\ c.freq = 0 -> "freq"
                [] OTHER -> None

\* A load returns nothing that does not validate.
ASSUME DisksAssumption == \A c \in StartDisks : c \in LegacyConfigs /\ Invalid(c) = None

\* The sections in rail order, and the section of each field with a control.
Rail == <<"General", "Hotkeys", "Appearance", "Blacklist", "Feedback", "Storage">>
Sections == {Rail[i] : i \in DOMAIN Rail}
IndexOf(s) == CHOOSE i \in DOMAIN Rail : Rail[i] = s
Down(s) == Rail[(IndexOf(s) % 6) + 1]
Up(s) == Rail[((IndexOf(s) + 4) % 6) + 1]
SectionOf == [step |-> "General", large |-> "General", modifier |-> "Hotkeys",
              look |-> "Appearance", black |-> "Blacklist", freq |-> "Feedback"]
Errors == {"large", "freq"}
Posts == {"apply", "reset", "cancel"}

\* What Tab goes through, the controls of a section taken as one stop.
TabCycle(s) == <<"rail", s, "cancel", "save", "close">>
Stops == Sections \cup {"rail", "cancel", "save", "close", "none"}

(***************************************************************************)
(* The draft.                                                              *)
(***************************************************************************)
Fresh(c) == [orig |-> c, cur |-> c, err |-> None]
ReplacedIfClean(d, c) == IF d.orig = d.cur THEN [orig |-> c, cur |-> c, err |-> None] ELSE d
Replaced(d, c) == [d EXCEPT !.orig = c, !.err = None]
SetCurrent(d, c) == [d EXCEPT !.cur = c, !.err = None]
IsDirty(d) == d.orig # d.cur

\* The controls laid over the working copy; "rest" has no control.
Overlaid(d, c) == [c EXCEPT !.rest = d.cur.rest]

\* populate_controls, by what read_controls makes of it: a material that the combo box does
\* not list leaves it blank, and a blank one reads as Auto.
ReadsAs(look) == IF look \in ComboLooks THEN look ELSE "Auto"
Populated(c) == [c EXCEPT !.look = ReadsAs(@)]
Unsaved(d, c) == IsDirty(d) \/ Overlaid(d, c) # d.cur

(***************************************************************************)
(* What the window shows.  "save" is the Save button.  A disabled button cannot keep the keyboard.     *)
(***************************************************************************)
SyncedByDraft(w, d, c) == [w EXCEPT !.canSave = IsDirty(d),
                                   !.focus = IF ~IsDirty(d) /\ @ = "save" THEN "none" ELSE @]
Synced(w, d, c) == [w EXCEPT !.canSave = Unsaved(d, c),
                             !.focus = IF ~Unsaved(d, c) /\ @ = "save" THEN "none" ELSE @]
ShownIn(s, d) == IF d.err \in Errors /\ SectionOf[d.err] = s THEN d.err ELSE None
WithErrors(w, d) == [w EXCEPT !.shown = ShownIn(w.section, d)]

\* select_section: a control of a section that is hidden gives the keyboard to
\* the rail, and so does a window that has it nowhere.
Selected(w, d, s) ==
  IF w.section = s THEN w
  ELSE WithErrors([w EXCEPT !.section = s,
                            !.focus = IF @ \in Sections \cup {"none"} THEN "rail" ELSE @], d)

\* focus_validation_field: the section of the field, then the field itself.
FocusValidationField(w, d, f) ==
  LET at == Selected(w, d, SectionOf[f])
  IN IF at.open THEN [at EXCEPT !.focus = SectionOf[f]] ELSE at

Hidden(w) == [w EXCEPT !.open = FALSE, !.focus = "none"]

(***************************************************************************)
(* The user at the window.  Each gesture is one input.                     *)
(***************************************************************************)
HostState == <<disk, touched, config, listener, unsure, failures>>

Acts == gestures < MaxGestures /\ gestures' = gestures + 1

\* The user acts on a control of section s, which takes the keyboard.
AtControl(s) == win.open /\ win.section = s /\ Acts
Focused(w, s) == [w EXCEPT !.focus = s]

\* A text field: typing drops the error of that field and no other.
ClearFieldError(f) == IF work.err = f THEN SetCurrent(work, work.cur) ELSE work

Type(f, v) ==
  /\ AtControl(SectionOf[f])
  /\ ctl[f] # v
  /\ ctl' = [ctl EXCEPT ![f] = v]
  /\ work' = ClearFieldError(f)
  /\ owned' = owned \cup {f}
  /\ win' = LET w == Focused(win, SectionOf[f])
                shown == IF work.err = f THEN WithErrors(w, work') ELSE w
            IN Synced(shown, work', ctl')
  /\ UNCHANGED <<HostState, posts>>

PickModifier(m) ==
  /\ AtControl("Hotkeys")
  /\ ctl' = [ctl EXCEPT !.modifier = m]
  /\ owned' = owned \cup {"modifier"}
  /\ win' = Synced(Focused(win, "Hotkeys"), work, ctl')
  /\ UNCHANGED <<HostState, work, posts>>

\* The appearance goes to the working copy at once, for the preview.
PickLook(v) ==
  /\ AtControl("Appearance")
  /\ owned' = owned \cup {"look"}
  /\ ctl' = [ctl EXCEPT !.look = v]
  /\ work' = SetCurrent(work, [work.cur EXCEPT !.look = v])
  /\ win' = Synced(Focused(win, "Appearance"), work', ctl')
  /\ UNCHANGED <<HostState, posts>>

\* Add, Remove, Clear and Add recommended edit the working copy's blacklist.
\* One that changes nothing leaves the draft and its error alone.
EditBlacklist(apps) ==
  /\ AtControl("Blacklist")
  /\ IF apps = work.cur.black
     THEN /\ win' = Focused(win, "Blacklist")
          /\ UNCHANGED <<ctl, work, owned>>
     ELSE /\ owned' = owned \cup {"black"}
          /\ work' = SetCurrent(work, [work.cur EXCEPT !.black = apps])
          /\ ctl' = [ctl EXCEPT !.black = apps]
          /\ win' = Synced(Focused(win, "Blacklist"), work', ctl')
  /\ UNCHANGED <<HostState, posts>>

AddEntry(a) == EditBlacklist(work.cur.black \cup {a})
RemoveEntry(a) == a \in ctl.black /\ EditBlacklist(work.cur.black \ {a})
ClearEntries == EditBlacklist({})
MergeRecommended == EditBlacklist(work.cur.black \cup Recommended[ctl.modifier])

\* Navigation: a click on the rail, the arrows while the rail has the keyboard,
\* Tab and Shift+Tab.  A disabled button refuses the keyboard.
Click(s) ==
  /\ win.open /\ Acts
  /\ win' = [Selected(win, work, s) EXCEPT !.focus = "rail"]
  /\ UNCHANGED <<HostState, work, ctl, posts, owned>>

Arrow ==
  /\ win.open /\ win.focus = "rail" /\ Acts
  /\ \E s \in {Down(win.section), Up(win.section)} : win' = Selected(win, work, s)
  /\ UNCHANGED <<HostState, work, ctl, posts, owned>>

Tab(step) ==
  /\ win.open /\ win.focus # "none" /\ Acts
  /\ LET cycle == TabCycle(win.section)
         here == CHOOSE i \in 1 .. 5 : cycle[i] = win.focus
         to == IF here = 1 THEN cycle[2] ELSE cycle[((here + step - 1) % 5) + 1]
     IN win' = [win EXCEPT !.focus = IF to = "save" /\ ~win.canSave THEN @ ELSE to]
  /\ UNCHANGED <<HostState, work, ctl, posts, owned>>

\* Escape, the close button and WM_CLOSE hide the window and keep the draft.
Close ==
  /\ win.open /\ Acts
  /\ win' = Hidden(win)
  /\ UNCHANGED <<HostState, work, ctl, posts, owned>>

\* The footer's buttons post to the host; a disabled Save posts nothing.
Press(p) ==
  /\ win.open /\ Acts
  /\ p = "apply" => win.canSave
  /\ posts' = Append(posts, p)
  /\ win' = [win EXCEPT !.focus = IF p = "apply" THEN "save" ELSE "cancel"]
  /\ UNCHANGED <<HostState, work, ctl, owned>>

(***************************************************************************)
(* The host.                                                               *)
(***************************************************************************)
Show ==
  LET d == Fresh(config')
      w == [open |-> TRUE, section |-> "General", focus |-> "General",
            canSave |-> Unsaved(d, Populated(d.cur)), shown |-> None]
  IN work' = d /\ ctl' = Populated(d.cur) /\ win' = w /\ unsure' = FALSE /\ owned' = {}

LegacyInit ==
  /\ disk \in StartDisks
  /\ config = disk /\ listener = disk.modifier /\ touched = FALSE
  /\ work = Fresh(disk) /\ ctl = Populated(disk) /\ owned = {}
  /\ win = [open |-> FALSE, section |-> "General", focus |-> "none",
            canSave |-> FALSE, shown |-> None]
  /\ posts = <<>> /\ gestures = 0 /\ failures = 0 /\ unsure = FALSE

\* An open window takes the reloaded configuration for its baseline, and shows
\* it if that leaves the draft clean.
Adopt(c) ==
  LET d == Replaced(work, c) IN
    /\ work' = d
    /\ IF IsDirty(d)
       THEN ctl' = ctl /\ owned' = owned \cup {f \in DOMAIN Domain : work.orig[f] # c[f]}
       ELSE ctl' = Populated(d.cur) /\ owned' = {}
    /\ win' = WithErrors(Synced(win, d, ctl'), d)
    /\ unsure' = FALSE

\* reload_config_if_changed; "force" is the tray's Reload.
Reload(force) ==
  IF touched \/ force
  THEN /\ touched' = FALSE /\ config' = disk /\ listener' = disk.modifier
       /\ IF win.open THEN Adopt(disk) ELSE UNCHANGED <<work, ctl, win, unsure, owned>>
  ELSE UNCHANGED <<touched, config, listener, work, ctl, win, unsure, owned>>

\* The 150 ms poll.  It takes the tray's commands after the reload, in the same
\* pass, so no command finds a file the host has not looked at.
Poll ==
  /\ touched
  /\ Reload(FALSE)
  /\ UNCHANGED <<disk, posts, gestures, failures>>

TrayReload ==
  /\ Acts
  /\ Reload(TRUE)
  /\ UNCHANGED <<disk, posts, failures>>

\* The Help card's link, posted: no reload comes before it.
HelpSettings ==
  /\ ~win.open /\ Acts
  /\ config' = config
  /\ Show
  /\ UNCHANGED <<disk, touched, listener, posts, failures>>

TraySettings ==
  /\ ~touched /\ Acts
  /\ config' = config
  /\ IF win.open THEN win' = Hidden(win) /\ UNCHANGED <<work, ctl, unsure, owned>> ELSE Show
  /\ UNCHANGED <<disk, touched, listener, posts, failures>>

\* Apply: the controls are read into the working copy, which is validated and
\* saved.  A rejected field is shown; after a failed write the window is left
\* as it is.
HandleApply ==
  LET c == Overlaid(work, ctl)
      d == SetCurrent(work, c)
      rejected == [d EXCEPT !.err = Invalid(c)]
      saved == Fresh(c)
  IN \/ /\ Invalid(c) # None
        /\ work' = rejected
        /\ win' = FocusValidationField(WithErrors(win, rejected), rejected, Invalid(c))
        /\ UNCHANGED <<disk, touched, config, listener, ctl, failures, unsure, owned>>
     \/ /\ Invalid(c) = None /\ failures < MaxFailures
        /\ failures' = failures + 1 /\ unsure' = TRUE
        /\ work' = d
        /\ UNCHANGED <<disk, touched, config, listener, ctl, win, owned>>
     \/ /\ Invalid(c) = None
        /\ disk' = c /\ touched' = FALSE /\ config' = c /\ listener' = c.modifier
        /\ work' = saved /\ ctl' = Populated(c)
        /\ win' = WithErrors(Synced(win, saved, ctl'), saved)
        /\ unsure' = FALSE /\ owned' = {}
        /\ UNCHANGED failures

\* Reset and Cancel go back to the baseline; Cancel also hides.
HandleReset(hide) ==
  LET d == Fresh(work.orig)
      w == WithErrors(Synced(win, d, Populated(d.cur)), d)
  IN /\ work' = d /\ ctl' = Populated(d.cur) /\ owned' = {}
     /\ win' = IF hide THEN Hidden(w) ELSE w
     /\ unsure' = FALSE
     /\ UNCHANGED <<disk, touched, config, listener, failures>>

HandlePost ==
  /\ posts # <<>>
  /\ posts' = Tail(posts)
  /\ CASE Head(posts) = "apply" -> HandleApply
       [] Head(posts) = "reset" -> HandleReset(FALSE)
       [] Head(posts) = "cancel" -> HandleReset(TRUE)
  /\ UNCHANGED gestures

\* Another program writes the file.  What a load returns is always valid.
EditDisk ==
  /\ Acts
  /\ \E f \in DOMAIN Domain : \E v \in Domain[f] : disk' = [disk EXCEPT ![f] = v]
  /\ Invalid(disk') = None
  /\ touched' = TRUE
  /\ UNCHANGED <<config, listener, work, ctl, win, posts, failures, unsure, owned>>

LegacyGesture == \/ \E f \in {"step", "large", "freq"} : \E v \in Domain[f] : Type(f, v)
           \/ \E m \in Modifiers : PickModifier(m)
           \/ \E v \in ComboLooks : PickLook(v)
           \/ \E a \in Apps : AddEntry(a) \/ RemoveEntry(a)
           \/ ClearEntries \/ MergeRecommended
           \/ \E s \in Sections : Click(s)
           \/ Arrow
           \/ \E step \in {1, 4} : Tab(step)
           \/ Close
           \/ \E p \in Posts : Press(p)

LegacyNext == LegacyGesture \/ Poll \/ TrayReload \/ TraySettings \/ HelpSettings \/ HandlePost \/ EditDisk

-----------------------------------------------------------------------------
LegacyTypeOK ==
  /\ disk \in LegacyConfigs /\ config \in LegacyConfigs /\ listener \in Modifiers
  /\ touched \in BOOLEAN /\ unsure \in BOOLEAN /\ owned \subseteq DOMAIN Domain
  /\ work \in [orig : LegacyConfigs, cur : LegacyConfigs, err : Errors \cup {None}]
  /\ ctl \in LegacyConfigs
  /\ win \in [open : BOOLEAN, section : Sections, focus : Stops,
              canSave : BOOLEAN, shown : Errors \cup {None}]
  /\ posts \in Seq(Posts)
  /\ gestures \in 0 .. MaxGestures /\ failures \in 0 .. MaxFailures

\* "Keep the Save changes button honest": in an open window Save is enabled
\* while something typed or picked is not saved; and it is enabled only then,
\* but after a save that failed on the disk, which leaves the button alone.
SaveButtonIsHonest ==
  win.open => /\ Unsaved(work, ctl) => win.canSave
              /\ win.canSave => Unsaved(work, ctl) \/ unsure

\* An inline error on the screen belongs to the section on the screen, and it
\* is the draft's, or the one an Apply that then failed on the disk left there.
\* The draft's error is on the screen whenever its section is.
ErrorIsInSight ==
  win.open =>
    /\ win.shown # None => /\ SectionOf[win.shown] = win.section
                           /\ win.shown = work.err \/ unsure
    /\ ShownIn(win.section, work) # None => win.shown = work.err

\* The keyboard is never in a section that is hidden, nor on a disabled Save.
FocusIsInSight ==
  win.open => /\ win.focus \in Sections => win.focus = win.section
              /\ win.focus = "save" => win.canSave

\* After any sequence of gestures, posts and reloads the Save button, the inline
\* error and the keyboard's place fit the window's section and its draft.
SaveIsHonest == SaveButtonIsHonest /\ ErrorIsInSight /\ FocusIsInSight

\* An open window edits on top of what the host runs with, and the listener and
\* the wheel hook use the running modifier.
BaselineIsRunning == /\ win.open => work.orig = config
                     /\ listener = config.modifier
                     /\ ~touched => config = disk

\* What Apply would write for field f is what the host runs with, unless the user worked on
\* it or a reload moved it under a dirty draft.  The material is the other exception: while
\* the host's own is one the combo box does not list, Apply may write Auto.
OthersAreLeftAlone ==
  win.open => \A f \in DOMAIN Domain \ owned :
                \/ Overlaid(work, ctl)[f] = config[f]
                \/ f = "look" /\ config.look \notin ComboLooks /\ ctl.look = "Auto"

\* After any sequence of gestures, posts, reloads and saves, window, host and file tell
\* one story, and an Apply changes what the user changed.
LegacyWindowIsHonest == SaveIsHonest /\ BaselineIsRunning /\ OthersAreLeftAlone

\* Not checked, for the code does otherwise: "Save is disabled when the draft is clean"
\* (settings.rs 2594-2595), in a window nobody has touched.  A material the combo box does
\* not list lights Save at once.
CleanDraftCannotSave == win.open /\ owned = {} /\ ~IsDirty(work) => ~win.canSave

\* Not checked, for the code does otherwise: on a reload "the controls are only repopulated
\* when the draft is clean, so an external change never clobbers what the user is typing"
\* (settings.rs 1784-1787).  The baseline moves before the draft is asked whether it is dirty: an
\* untouched window keeps the old values as if typed, and a typed text is lost to a reload
\* that changes nothing.
UntouchedFollowsReloads ==
  [][win.open /\ owned = {} /\ config' # config => work'.cur = config']_legacy
TypingSurvivesReloads ==
  [][win.open /\ touched /\ ~touched' /\ posts' = posts => owned \subseteq owned']_legacy
=============================================================================
