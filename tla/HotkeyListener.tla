--------------------------- MODULE HotkeyListener --------------------------
(***************************************************************************)
(* GlobalHotkeys (hotkeys_global.rs in crates/volumectl/src): a listener    *)
(* thread turns the platform's key events into actions, a repeat worker     *)
(* sends a held volume action every 50 ms, and the host thread rebinds,     *)
(* drains the actions or drops the whole.                                  *)
(*                                                                         *)
(* The three share HotkeyHold: atomics that start() and stop() write one    *)
(* after the other without a lock, and a condition variable that they       *)
(* notify without its mutex.  Each of these stores is one step of the       *)
(* thread that makes it; what a thread has still to do is its todo list.    *)
(***************************************************************************)
EXTENDS Integers, Sequences, SequencesExt

CONSTANTS
    Combos,         \* the key combinations
    Actions,        \* HotkeyAction
    VolumeActions,  \* those that repeat while their key is down
    Shortcuts,      \* the bindings in use: a combination, or None, per action
    Initial,        \* those of them the program starts with
    None,           \* no combination, no action, and the zero of the atomics
    Calm,           \* TRUE: shortcuts change only with hands off the keyboard
    Spurious,       \* TRUE: a waiting thread may wake by itself
    MaxPresses,     \* bound: key presses and auto-repeats in a behaviour
    MaxRebinds,     \* bound: calls of set_bindings
    MaxFaults,      \* bound: registrations and unregistrations that fail
    MaxQueue        \* bound: actions counted while they wait for the host

ASSUME ActionsAssumption == VolumeActions \subseteq Actions /\ None \notin Combos \cup Actions
\* validate_hotkeys refuses a combination given twice.
ASSUME ShortcutsAssumption ==
    /\ Initial \subseteq Shortcuts /\ Shortcuts \subseteq [Actions -> Combos \cup {None}]
    /\ \A b \in Shortcuts, a, d \in Actions : b[a] = b[d] /\ b[a] # None => a = d
ASSUME ModeAssumption == Calm \in BOOLEAN /\ Spurious \in BOOLEAN
ASSUME BoundsAssumption == {MaxPresses, MaxRebinds, MaxFaults} \subseteq Nat /\ MaxQueue \in Nat \ {0}

VARIABLES
    keys,      \* the combinations that are physically down
    newest,    \* the one that auto-repeats: pressed last and still down
    grabbed,   \* the combinations the system delivers to this program
    heard,     \* the pressed ones whose release the system will deliver
    events,    \* GlobalHotKeyEvent::receiver()
    ids,       \* the combinations the listener knows, with their action
    status,    \* reg_results
    down,      \* HotkeyHold.combo_down
    hold,      \* HotkeyHold.hold_combo, hold_action and holding
    stop,      \* the stop flag
    listener,  \* what the listener has still to do for the event it took
    ended,     \* the listener thread has ended
    worker,    \* where the repeat worker stands
    host,      \* what the host thread is doing
    want,      \* the bindings of the last set_bindings
    left,      \* the combinations it has still to unregister or register
    todo,      \* the stores it has still to make
    queue,     \* the actions sent to the host
    presses, rebinds, faults,
    waited     \* history: how much of an interval the worker has waited for the
               \* current hold: "none", "part" (it waits) or "full"

platform == <<keys, newest, grabbed, heard, presses>>
shared   == <<hold, worker, queue, waited>>
hosting  == <<host, want, left, todo, rebinds, faults>>
table    == <<ids, status>>
vars == <<platform, events, table, down, shared, stop, listener, ended, hosting>>

-----------------------------------------------------------------------------
(* HotkeyHold. *)

Store(f, v) == [field |-> f, value |-> v]
Wake        == Store("wake", TRUE)
Send(a)     == Store("send", a)

Start(c, a) == <<Store("combo", c), Store("action", a), Store("holding", TRUE), Wake>>
Stop == <<Store("holding", FALSE), Store("combo", None), Store("action", None), Wake>>

NoHold == [combo |-> None, action |-> None, holding |-> FALSE]

\* Where notify_one finds the worker: only a thread that waits is woken.
Notified(w) == CASE w = "asleep" -> "check" [] w = "timing" -> "look" [] OTHER -> w

\* Sending never blocks; past the bound an action is not counted.
Sends(a) == queue' = IF Len(queue) < MaxQueue THEN Append(queue, a) ELSE queue

\* A thread makes one store, notifies the worker or sends an action.
Perform(s) ==
    \/ /\ s.field \in DOMAIN hold
       /\ hold' = [hold EXCEPT ![s.field] = s.value]
       /\ waited' = IF s.field = "holding" THEN "none" ELSE waited
       /\ UNCHANGED <<worker, queue>>
    \/ /\ s.field = "wake"
       /\ worker' = Notified(worker)
       /\ UNCHANGED <<hold, queue, waited>>
    \/ /\ s.field = "send"
       /\ Sends(s.value)
       /\ UNCHANGED <<hold, worker, waited>>

-----------------------------------------------------------------------------
(* The listener: run_listener and on_event. *)

Event(c, kind) == [combo |-> c, kind |-> kind]
IsPress(e) == e.kind \in {"press", "again"}

\* on_event, for a press of a combination the table knows.
OnPress(c, a) ==
    /\ down' = c
    /\ listener' = IF down = c THEN <<>>
                   ELSE (IF a \in VolumeActions THEN Start(c, a) ELSE <<>>) \o <<Send(a)>>
\* Mutant of OnRelease: the combination still counts as down.
OnReleaseKeeps(c) ==
    /\ listener' = IF hold.holding /\ hold.combo = c THEN Stop ELSE <<>>
    /\ UNCHANGED down
\* Mutant of OnRelease: only the release of the newest combination ends a hold.
OnReleaseNewest(c) ==
    /\ down' = IF down = c THEN None ELSE down
    /\ listener' = IF down = c /\ hold.combo = c THEN Stop ELSE <<>>
OnRelease(c) ==
    /\ down' = IF down = c THEN None ELSE down
    /\ listener' = IF hold.holding /\ hold.combo = c THEN Stop ELSE <<>>

\* The listener takes an event and looks its combination up.
Take ==
    /\ ~ended /\ ~stop /\ listener = <<>> /\ events # <<>>
    /\ events' = Tail(events)
    /\ LET e == Head(events) IN
         IF e.combo \notin DOMAIN ids THEN UNCHANGED <<down, listener>>
         ELSE IF IsPress(e) THEN OnPress(e.combo, ids[e.combo]) ELSE OnRelease(e.combo)
    /\ UNCHANGED <<platform, table, shared, stop, ended, hosting>>

ListenerStores ==
    /\ listener # <<>> /\ Perform(Head(listener)) /\ listener' = Tail(listener)
    /\ UNCHANGED <<platform, events, table, down, stop, ended, hosting>>

ListenerEnds ==
    /\ ~ended /\ stop /\ listener = <<>>
    /\ ended' = TRUE
    /\ UNCHANGED <<platform, events, table, down, shared, stop, listener, hosting>>

-----------------------------------------------------------------------------
(* The worker: run_repeat_worker.                                          *)
(*   top    - at the head of its loop       check  - about to test the     *)
(*   doze   - the test told it to wait                predicate of         *)
(*   asleep - it waits                                wait_while           *)
(*   arm    - about to wait an interval     timing - it waits              *)
(*   look   - about to load holding         fetch  - about to load action  *)

WorkerGoes(from, to) == worker = from /\ worker' = to /\ UNCHANGED <<hold, queue>>
WorkerOnly == UNCHANGED <<platform, events, table, down, stop, listener, ended, hosting>>

WorkerTop ==
    /\ WorkerGoes("top", IF stop THEN "dead" ELSE IF hold.holding THEN "arm" ELSE "check")
    /\ UNCHANGED waited /\ WorkerOnly

WorkerChecks ==
    /\ WorkerGoes("check", IF hold.holding \/ stop THEN "top" ELSE "doze")
    /\ UNCHANGED waited /\ WorkerOnly

WorkerSleeps == WorkerGoes("doze", "asleep") /\ UNCHANGED waited /\ WorkerOnly

WorkerArms ==
    /\ WorkerGoes("arm", "timing") /\ waited' = "part" /\ WorkerOnly

\* The interval is over; it counts if it began after the hold did.
WorkerTimesOut ==
    /\ WorkerGoes("timing", "look")
    /\ waited' = IF waited = "part" THEN "full" ELSE waited
    /\ WorkerOnly

WorkerWakes ==
    /\ Spurious
    /\ WorkerGoes("asleep", "check") \/ WorkerGoes("timing", "look")
    /\ UNCHANGED waited /\ WorkerOnly

WorkerLooks ==
    /\ WorkerGoes("look", IF hold.holding THEN "fetch" ELSE "top")
    /\ UNCHANGED waited /\ WorkerOnly
WorkerFetches ==
    /\ worker = "fetch" /\ worker' = "top"
    /\ IF hold.action = None THEN UNCHANGED queue
       ELSE Sends(hold.action)
    /\ UNCHANGED <<hold, waited>> /\ WorkerOnly

WorkerStep == \/ WorkerTop \/ WorkerChecks \/ WorkerSleeps \/ WorkerArms
              \/ WorkerTimesOut \/ WorkerLooks \/ WorkerFetches

-----------------------------------------------------------------------------
(* The host thread: set_bindings, try_recv and drop, under the core mutex.  *)

HostOnly == UNCHANGED <<keys, newest, presses, events, down, listener, ended>>
HandsOff == keys = {} /\ events = <<>> /\ listener = <<>>

SetBindings ==
    /\ host = "idle" /\ rebinds < MaxRebinds
    /\ Calm => HandsOff
    /\ want' \in Shortcuts /\ todo' = Stop /\ rebinds' = rebinds + 1
    /\ host' = "stop" /\ UNCHANGED <<faults, left, grabbed, heard, table, shared, stop>> /\ HostOnly
HostStores ==
    /\ host \in {"stop", "drop"} /\ todo # <<>>
    /\ Perform(Head(todo)) /\ todo' = Tail(todo)
    /\ UNCHANGED <<faults, host, want, left, rebinds, grabbed, heard, table, stop>> /\ HostOnly

Stopped ==
    /\ host = "stop" /\ todo = <<>>
    /\ host' = "unregister" /\ left' = DOMAIN ids
    /\ UNCHANGED <<faults, want, todo, rebinds, grabbed, heard, table, shared, stop>> /\ HostOnly

CanFail == faults > 0 /\ faults' = faults - 1
Works   == UNCHANGED faults

\* manager.unregister; an error is ignored.  Whether the release of a key that is
\* down still arrives depends on the platform.
Unregister ==
    /\ host = "unregister"
    /\ \E c \in left :
         /\ left' = left \ {c}
         /\ \/ Works /\ grabbed' = grabbed \ {c}
            \/ CanFail /\ UNCHANGED grabbed
         /\ heard' \in {heard, heard \ {c}}
    /\ UNCHANGED <<host, want, todo, rebinds, table, shared, stop>> /\ HostOnly

Unregistered ==
    /\ host = "unregister" /\ left = {}
    /\ host' = "register" /\ left' = {want[a] : a \in Actions} \ {None}
    /\ UNCHANGED <<faults, want, todo, rebinds, grabbed, heard, table, shared, stop>> /\ HostOnly

\* manager.register: refused if this or another program holds the combination.
\* The granted ones are collected in todo until they are published.
Register ==
    /\ host = "register"
    /\ \E c \in left :
         /\ left' = left \ {c}
         /\ \/ /\ c \notin grabbed /\ Works
               /\ grabbed' = grabbed \cup {c} /\ todo' = Append(todo, c)
            \/ /\ IF c \in grabbed THEN Works ELSE CanFail
               /\ UNCHANGED <<grabbed, todo>>
    /\ UNCHANGED <<host, want, rebinds, heard, table, shared, stop>> /\ HostOnly

Table(b, granted) == [c \in granted |-> CHOOSE a \in Actions : b[a] = c]
\* Mutant of Results: a combination that was not granted counts as registered.
ResultsHopeful(b, granted) ==
    [a \in Actions |-> IF b[a] = None THEN "disabled" ELSE "registered"]
Results(b, granted) ==
    [a \in Actions |-> IF b[a] = None THEN "disabled"
                       ELSE IF b[a] \in granted THEN "registered" ELSE "conflicted"]

Publish ==
    /\ host = "register" /\ left = {}
    /\ ids' = Table(want, ToSet(todo)) /\ status' = Results(want, ToSet(todo))
    /\ host' = "idle" /\ todo' = <<>>
    /\ UNCHANGED <<faults, want, left, rebinds, grabbed, heard, shared, stop>> /\ HostOnly

\* poll_hotkeys takes everything that waits.
Drain ==
    /\ host = "idle" /\ queue # <<>> /\ queue' = <<>>
    /\ UNCHANGED <<hosting, grabbed, heard, table, hold, worker, waited, stop>> /\ HostOnly

Drop ==
    /\ host = "idle"
    /\ stop' = TRUE /\ todo' = Stop /\ host' = "drop"
    /\ UNCHANGED <<faults, want, left, rebinds, grabbed, heard, table, shared>> /\ HostOnly

\* Both threads are joined, then the manager gives every combination back.
Joined ==
    /\ host = "drop" /\ todo = <<>> /\ worker = "dead" /\ ended
    /\ host' = "gone" /\ grabbed' = {} /\ heard' = {}
    /\ UNCHANGED <<faults, want, left, todo, rebinds, table, shared, stop>> /\ HostOnly

HostStep == HostStores \/ Stopped \/ Unregister \/ Unregistered \/ Register \/ Publish
            \/ Drain \/ Joined

-----------------------------------------------------------------------------
(* The keyboard and the platform. *)

\* Keys pressed once the listener stops change nothing here.
Quick == presses < MaxPresses /\ ~stop /\ (Calm => host = "idle")
Deliver(e) == events' = IF e.combo \in grabbed THEN Append(events, e) ELSE events
UserOnly == UNCHANGED <<grabbed, table, down, shared, stop, listener, ended, hosting>>

Press ==
    /\ Quick /\ presses' = presses + 1
    /\ \E c \in Combos \ keys :
         /\ keys' = keys \cup {c} /\ newest' = c
         /\ heard' = IF c \in grabbed THEN heard \cup {c} ELSE heard
         /\ Deliver(Event(c, "press"))
    /\ UserOnly

AutoRepeat ==
    /\ Quick /\ presses' = presses + 1
    /\ newest # None /\ Deliver(Event(newest, "again"))
    /\ UNCHANGED <<keys, newest, heard>> /\ UserOnly

Release ==
    /\ \E c \in keys :
         /\ keys' = keys \ {c} /\ newest' = IF newest = c THEN None ELSE newest
         /\ heard' = heard \ {c}
         /\ events' = IF c \in heard THEN Append(events, Event(c, "release")) ELSE events
    /\ UNCHANGED presses /\ UserOnly

-----------------------------------------------------------------------------
\* new_with_bindings: both threads start, with every combination granted.
Init ==
    /\ keys = {} /\ newest = None /\ heard = {} /\ events = <<>> /\ presses = 0
    /\ want \in Initial
    /\ grabbed = {want[a] : a \in Actions} \ {None}
    /\ ids = Table(want, grabbed) /\ status = Results(want, grabbed)
    /\ down = None /\ hold = NoHold /\ stop = FALSE
    /\ listener = <<>> /\ ended = FALSE /\ worker = "top"
    /\ host = "idle" /\ left = {} /\ todo = <<>> /\ rebinds = 0 /\ faults = MaxFaults
    /\ queue = <<>> /\ waited = "none"

ListenerStep == Take \/ ListenerStores \/ ListenerEnds
Next == \/ ListenerStep \/ WorkerStep \/ WorkerWakes \/ HostStep
        \/ SetBindings \/ Drop \/ Press \/ AutoRepeat \/ Release

Spec == Init /\ [][Next]_vars
\* Each thread runs; nobody has to press, rebind or drop.
FairSpec == Spec /\ WF_vars(ListenerStep) /\ WF_vars(WorkerStep) /\ WF_vars(HostStep)

-----------------------------------------------------------------------------
(* Properties. *)

Stores == [field : {"combo"}, value : Combos \cup {None}]
          \cup [field : {"action"}, value : VolumeActions \cup {None}]
          \cup [field : {"holding", "wake"}, value : BOOLEAN]
          \cup [field : {"send"}, value : Actions]

\* Every variable keeps its type; the held action is one that repeats.
TypeOK ==
    /\ keys \subseteq Combos /\ newest \in keys \cup {None}
    /\ grabbed \subseteq Combos /\ heard \subseteq keys
    /\ events \in Seq([combo : Combos, kind : {"press", "again", "release"}])
    /\ DOMAIN ids \subseteq Combos /\ ids \in [DOMAIN ids -> Actions]
    /\ status \in [Actions -> {"registered", "disabled", "conflicted"}]
    /\ down \in Combos \cup {None} /\ stop \in BOOLEAN /\ ended \in BOOLEAN
    /\ hold \in [combo : Combos \cup {None}, action : VolumeActions \cup {None},
                 holding : BOOLEAN]
    /\ listener \in Seq(Stores)
    /\ worker \in {"top", "check", "doze", "asleep", "arm", "timing", "look", "fetch",
                  "dead"}
    /\ host \in {"idle", "stop", "unregister", "register", "drop", "gone"}
    /\ want \in Shortcuts /\ left \subseteq Combos
    /\ todo \in Seq(IF host = "register" THEN Combos ELSE Stores)
    /\ queue \in Seq(Actions)
    /\ presses \in 0 .. MaxPresses /\ rebinds \in 0 .. MaxRebinds
    /\ faults \in 0 .. MaxFaults
    /\ waited \in {"none", "part", "full"}

\* The registration status Help shows is the truth: an action is shown as
\* registered exactly when the system delivers its combination and the listener
\* maps that to the action.
StatusIsRegistration ==
    host = "idle" =>
      \A a \in Actions : status[a] = "registered"
        <=> \E c \in DOMAIN ids : ids[c] = a /\ c \in grabbed

\* Once every key is up and its events are dealt with, nothing repeats.
KeysUpMeansQuiet == HandsOff /\ host = "idle" => ~hold.holding

\* While a hold runs and no store is pending, the held combination is down or its
\* release is on its way, and the action is the one the table gives it.
HoldHasItsKey ==
    listener = <<>> /\ host = "idle" /\ hold.holding =>
      /\ hold.combo \in DOMAIN ids /\ hold.action = ids[hold.combo]
      /\ hold.combo \in keys \/ Event(hold.combo, "release") \in ToSet(events)

\* What the listener tells and what it repeats fits what is registered and held.
StatusIsHonest == StatusIsRegistration /\ HoldHasItsKey

\* on_event: a physical press of a known combination sends its action once; the
\* system's auto-repeat of it sends nothing.
OnePressOneAction ==
    [][listener = <<>> /\ events # <<>> /\ events' = Tail(events)
         /\ Head(events).combo \in DOMAIN ids /\ IsPress(Head(events))
       => (listener' # <<>> <=> Head(events).kind = "press")]_vars

\* The worker waits a full interval between the start of a hold and its first
\* repeat.
FirstRepeatWaits ==
    [][worker = "fetch" /\ worker' = "top" /\ hold.action # None => waited = "full"]_vars

\* Once the hands are off the keyboard for good, the volume stops moving.
Settles == <>[](keys = {}) /\ []~stop => <>[](queue = <<>> /\ ~hold.holding)

\* A volume key that stays down repeats its action until it is released.
HeldKeyRepeats ==
    \A c \in Combos :
       <>[](keys = {c} /\ c \in heard /\ ~stop /\ c \in DOMAIN ids /\ ids[c] \in VolumeActions)
         => []<>(worker = "fetch")

\* Dropping the listener comes to an end.
DropEnds == stop ~> host = "gone"
=============================================================================
