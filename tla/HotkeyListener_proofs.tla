----------------------- MODULE HotkeyListener_proofs -----------------------
(***************************************************************************)
(* Theorems about the global shortcuts, for every set of combinations,     *)
(* actions and bindings and any number of presses, rebinds and failures.   *)
(***************************************************************************)
EXTENDS HotkeyListener, SequenceTheorems, TLAPS

Holds == [combo : Combos \cup {None}, action : VolumeActions \cup {None}, holding : BOOLEAN]
Workers == {"top", "check", "doze", "asleep", "arm", "timing", "look", "fetch", "dead"}
Waits == {"none", "part", "full"}
Events == [combo : Combos, kind : {"press", "again", "release"}]

\* The combinations of a set of bindings.
Bound(b) == {b[a] : a \in Actions} \ {None}

\* What set_bindings registers and collects is what it was asked for.
Collects ==
    /\ host = "unregister" => todo = <<>>
    /\ host = "register" => left \cup ToSet(todo) \subseteq Bound(want)

LEMMA BoundTypes == ASSUME NEW b \in Shortcuts PROVE Bound(b) \subseteq Combos /\ b \in [Actions -> Combos \cup {None}]
  BY ShortcutsAssumption DEF Bound

\* The table maps each granted combination to the one action that it is bound to.
LEMMA TableMaps ==
    ASSUME NEW b \in Shortcuts, NEW granted, granted \subseteq Bound(b)
    PROVE  /\ DOMAIN Table(b, granted) = granted
           /\ Table(b, granted) \in [granted -> Actions]
           /\ \A c \in granted, a \in Actions : Table(b, granted)[c] = a <=> b[a] = c
  <1>1. DOMAIN Table(b, granted) = granted
    BY DEF Table
  <1>2. ASSUME NEW c \in granted
        PROVE  Table(b, granted)[c] \in Actions /\ b[Table(b, granted)[c]] = c
    <2>1. \E a \in Actions : b[a] = c
      BY DEF Bound
    <2> QED BY <2>1 DEF Table
  <1>3. \A c \in granted, a \in Actions : Table(b, granted)[c] = a <=> b[a] = c
    BY <1>2, ShortcutsAssumption, ActionsAssumption DEF Bound
  <1> QED BY <1>1, <1>2, <1>3 DEF Table

LEMMA ResultsTypes ==
    ASSUME NEW b, NEW granted
    PROVE  Results(b, granted) \in [Actions -> {"registered", "disabled", "conflicted"}]
  BY DEF Results

LEMMA FourInSeq == \A S : \A a, b, c, d \in S : <<a, b, c, d>> \in Seq(S)
  OBVIOUS

LEMMA StoreTypes ==
    /\ Stop \in Seq(Stores)
    /\ \A c \in Combos, a \in VolumeActions : Start(c, a) \o <<Send(a)>> \in Seq(Stores)
    /\ \A a \in Actions : <<Send(a)>> \in Seq(Stores)
  <1>1. Store("holding", FALSE) \in Stores /\ Store("combo", None) \in Stores
        /\ Store("action", None) \in Stores /\ Wake \in Stores
    BY DEF Stores, Store, Wake
  <1>2. \A c \in Combos, a \in VolumeActions :
           Store("combo", c) \in Stores /\ Store("action", a) \in Stores /\ Store("holding", TRUE) \in Stores
    BY DEF Stores, Store
  <1>3. \A a \in Actions : Send(a) \in Stores
    BY DEF Stores, Store, Send
  <1>4. VolumeActions \subseteq Actions
    BY ActionsAssumption
  <1>5. Stop \in Seq(Stores)
    BY <1>1, FourInSeq, Zenon DEF Stop
  <1>6. \A a \in Actions : <<Send(a)>> \in Seq(Stores)
    BY <1>3
  <1>7. ASSUME NEW c \in Combos, NEW a \in VolumeActions PROVE Start(c, a) \o <<Send(a)>> \in Seq(Stores)
    <2>1. Start(c, a) \in Seq(Stores)
      BY <1>1, <1>2, FourInSeq, Zenon DEF Start
    <2> QED BY <2>1, <1>4, <1>6
  <1> QED BY <1>5, <1>6, <1>7

LEMMA PerformTypes ==
    ASSUME TypeOK, NEW s \in Stores, Perform(s)
    PROVE  hold' \in Holds /\ worker' \in Workers /\ queue' \in Seq(Actions) /\ waited' \in Waits
  <1>1. CASE s.field \in DOMAIN hold
    <2>1. hold' = [hold EXCEPT ![s.field] = s.value] /\ UNCHANGED <<worker, queue>>
          /\ waited' \in {"none", waited}
      BY <1>1 DEF Perform, TypeOK
    <2>2. hold' \in Holds
      BY <2>1, <1>1 DEF Holds, TypeOK, Stores
    <2> QED BY <2>1, <2>2 DEF TypeOK, Workers, Waits
  <1>2. CASE s.field = "wake"
    BY <1>2 DEF Perform, TypeOK, Notified, Holds, Workers, Waits
  <1>3. CASE s.field = "send"
    <2>1. s.value \in Actions /\ s.field \notin DOMAIN hold /\ s.field # "wake"
      BY <1>3 DEF TypeOK, Stores
    <2>2. Sends(s.value) /\ UNCHANGED <<hold, worker, waited>>
      BY <1>3, <2>1 DEF Perform
    <2>3. queue' \in Seq(Actions)
      BY <2>1, <2>2 DEF Sends, TypeOK
    <2> QED BY <2>2, <2>3 DEF TypeOK, Holds, Workers, Waits
  <1> QED BY <1>1, <1>2, <1>3 DEF Perform, TypeOK

LEMMA SequenceFacts ==
    ASSUME NEW S, NEW s \in Seq(S)
    PROVE  /\ s # <<>> => Head(s) \in S /\ Tail(s) \in Seq(S)
           /\ \A x \in S : Append(s, x) \in Seq(S)
           /\ \A x : ToSet(Append(s, x)) = ToSet(s) \cup {x}
           /\ ToSet(<<>>) = {}
  <1>1. s # <<>> => Head(s) \in S /\ Tail(s) \in Seq(S)
    OBVIOUS
  <1>2. \A x \in S : Append(s, x) \in Seq(S)
    OBVIOUS
  <1>3. ASSUME NEW x PROVE ToSet(Append(s, x)) = ToSet(s) \cup {x}
    BY DEF ToSet
  <1>4. ToSet(<<>>) = {}
    BY DEF ToSet
  <1> QED BY <1>1, <1>2, <1>3, <1>4

-----------------------------------------------------------------------------
LEMMA InitTypes == Init => TypeOK /\ Collects
  <1> SUFFICES ASSUME Init PROVE TypeOK /\ Collects
    OBVIOUS
  <1>1. want \in Shortcuts /\ grabbed = Bound(want)
    BY ShortcutsAssumption DEF Init, Bound
  <1>2. grabbed \subseteq Combos
    BY <1>1, BoundTypes
  <1>3. DOMAIN ids = grabbed /\ ids \in [grabbed -> Actions]
    BY <1>1, TableMaps DEF Init
  <1>4. status \in [Actions -> {"registered", "disabled", "conflicted"}]
    BY ResultsTypes DEF Init
  <1>5. hold \in Holds
    BY DEF Init, NoHold, Holds
  <1>6. stop \in BOOLEAN /\ ended \in BOOLEAN
    BY Zenon DEF Init
  <1>7. MaxFaults \in Nat /\ MaxPresses \in Nat /\ MaxRebinds \in Nat
    BY BoundsAssumption
  <1>8. /\ events \in Seq(Events) /\ listener \in Seq(Stores) /\ queue \in Seq(Actions)
        /\ todo \in Seq(IF host = "register" THEN Combos ELSE Stores)
    BY DEF Init
  <1>9. /\ presses \in 0 .. MaxPresses /\ rebinds \in 0 .. MaxRebinds /\ faults \in 0 .. MaxFaults
    BY <1>7 DEF Init
  <1>10. /\ keys = {} /\ heard = {} /\ left = {} /\ newest = None /\ down = None
         /\ worker = "top" /\ host = "idle" /\ waited = "none"
    BY DEF Init
  <1> QED BY <1>1, <1>2, <1>3, <1>4, <1>5, <1>6, <1>8, <1>9, <1>10 DEF TypeOK, Holds, Collects, Events

LEMMA StepTypes == TypeOK /\ Collects /\ [Next]_vars => TypeOK' /\ Collects'
  <1> SUFFICES ASSUME TypeOK, Collects, [Next]_vars PROVE TypeOK' /\ Collects'
    OBVIOUS
  <1> USE DEF platform, shared, hosting, table
  <1>1. CASE Take
    <2>1. Head(events) \in Events /\ events' \in Seq(Events)
      <3>1. events \in Seq(Events) /\ events # <<>> /\ events' = Tail(events)
        BY <1>1 DEF Take, TypeOK, Events
      <3> QED BY <3>1, SequenceFacts
    <2>2. down' \in Combos \cup {None} /\ listener' \in Seq(Stores)
      <3>1. CASE Head(events).combo \notin DOMAIN ids
        BY <1>1, <3>1 DEF Take, TypeOK
      <3>2. CASE Head(events).combo \in DOMAIN ids /\ IsPress(Head(events))
        <4> DEFINE c == Head(events).combo
                   a == ids[Head(events).combo]
        <4>1. c \in Combos /\ a \in Actions
          BY <2>1, <3>2 DEF TypeOK, Events
        <4>2. OnPress(c, a)
          BY <1>1, <3>2 DEF Take
        <4>3. (IF a \in VolumeActions THEN Start(c, a) ELSE <<>>) \o <<Send(a)>> \in Seq(Stores)
          BY <4>1, StoreTypes
        <4> HIDE DEF c, a
        <4> QED BY <4>1, <4>2, <4>3 DEF OnPress
      <3>3. CASE Head(events).combo \in DOMAIN ids /\ ~IsPress(Head(events))
        <4>1. OnRelease(Head(events).combo)
          BY <1>1, <3>3 DEF Take
        <4> QED BY <4>1, StoreTypes DEF OnRelease, TypeOK
      <3> QED BY <3>1, <3>2, <3>3
    <2> QED BY <1>1, <2>1, <2>2 DEF Take, TypeOK, Collects, Events
  <1>2. CASE ListenerStores
    <2>1. Head(listener) \in Stores /\ listener' \in Seq(Stores)
      BY <1>2 DEF ListenerStores, TypeOK
    <2>2. hold' \in Holds /\ worker' \in Workers /\ queue' \in Seq(Actions) /\ waited' \in Waits
      BY <1>2, <2>1, PerformTypes DEF ListenerStores
    <2> QED BY <1>2, <2>1, <2>2 DEF ListenerStores, TypeOK, Collects, Holds, Workers, Waits
  <1>3. CASE ListenerEnds
    BY <1>3 DEF ListenerEnds, TypeOK, Collects
  <1>4. CASE WorkerStep \/ WorkerWakes
    <2>1. worker' \in Workers /\ waited' \in Waits
      BY <1>4 DEF WorkerStep, WorkerTop, WorkerChecks, WorkerSleeps, WorkerArms, WorkerTimesOut, WorkerLooks,
         WorkerFetches, WorkerWakes, WorkerGoes, TypeOK, Workers, Waits
    <2>2. queue' \in Seq(Actions) /\ UNCHANGED hold /\ WorkerOnly
      <3>1. hold.action # None => hold.action \in Actions
        BY ActionsAssumption DEF TypeOK
      <3>2. queue' = queue \/ (hold.action # None /\ Sends(hold.action))
        BY <1>4 DEF WorkerStep, WorkerTop, WorkerChecks, WorkerSleeps, WorkerArms, WorkerTimesOut,
           WorkerLooks, WorkerFetches, WorkerWakes, WorkerGoes
      <3>3. UNCHANGED hold /\ WorkerOnly
        BY <1>4 DEF WorkerStep, WorkerTop, WorkerChecks, WorkerSleeps, WorkerArms, WorkerTimesOut,
           WorkerLooks, WorkerFetches, WorkerWakes, WorkerGoes
      <3>4. queue \in Seq(Actions)
        BY DEF TypeOK
      <3> QED BY <3>1, <3>2, <3>3, <3>4, SequenceFacts DEF Sends
    <2> QED BY <2>1, <2>2 DEF WorkerOnly, TypeOK, Collects, Workers, Waits
  <1>5. CASE SetBindings
    <2>1. todo' \in Seq(Stores) /\ host' = "stop"
      BY <1>5, StoreTypes DEF SetBindings
    <2>2. rebinds' \in 0 .. MaxRebinds
      BY <1>5, BoundsAssumption DEF SetBindings, TypeOK
    <2> QED BY <1>5, <2>1, <2>2 DEF SetBindings, HostOnly, TypeOK, Collects
  <1>6. CASE HostStores
    <2>1. Head(todo) \in Stores /\ todo' \in Seq(Stores)
      BY <1>6 DEF HostStores, TypeOK
    <2>2. hold' \in Holds /\ worker' \in Workers /\ queue' \in Seq(Actions) /\ waited' \in Waits
      BY <1>6, <2>1, PerformTypes DEF HostStores
    <2> QED BY <1>6, <2>1, <2>2 DEF HostStores, HostOnly, TypeOK, Collects, Holds, Workers, Waits
  <1>7. CASE Stopped \/ Unregister
    BY <1>7, BoundsAssumption DEF Stopped, Unregister, HostOnly, TypeOK, Collects, CanFail, Works
  <1>8. CASE Unregistered
    <2>1. left' = Bound(want) /\ ToSet(todo) = {}
      BY <1>8 DEF Unregistered, Collects, Bound, ToSet
    <2> QED BY <1>8, <2>1, BoundTypes DEF Unregistered, HostOnly, TypeOK, Collects
  <1>9. CASE Register
    <2>1. PICK c \in left : /\ left' = left \ {c}
                            /\ \/ grabbed' = grabbed \cup {c} /\ todo' = Append(todo, c)
                               \/ UNCHANGED <<grabbed, todo>>
      BY <1>9 DEF Register
    <2>2. todo \in Seq(Combos) /\ c \in Combos
      BY <1>9, <2>1 DEF Register, TypeOK
    <2>3. todo' \in Seq(Combos) /\ left' \cup ToSet(todo') \subseteq Bound(want)
      <3>1. /\ ToSet(Append(todo, c)) = ToSet(todo) \cup {c} /\ Append(todo, c) \in Seq(Combos)
        BY <2>2, SequenceFacts
      <3>2. left \cup ToSet(todo) \subseteq Bound(want)
        BY <1>9 DEF Register, Collects
      <3> QED BY <2>1, <2>2, <3>1, <3>2
    <2>4. faults' \in 0 .. MaxFaults
      BY <1>9, BoundsAssumption DEF Register, CanFail, Works, TypeOK
    <2> QED BY <1>9, <2>1, <2>2, <2>3, <2>4 DEF Register, HostOnly, TypeOK, Collects
  <1>10. CASE Publish
    <2>1. ToSet(todo) \subseteq Bound(want) /\ ToSet(todo) \subseteq Combos
      BY <1>10, BoundTypes DEF Publish, Collects, TypeOK
    <2>2. DOMAIN ids' = ToSet(todo) /\ ids' \in [ToSet(todo) -> Actions]
      BY <1>10, <2>1, TableMaps DEF Publish, TypeOK
    <2>3. status' \in [Actions -> {"registered", "disabled", "conflicted"}]
      BY <1>10, ResultsTypes DEF Publish
    <2> QED BY <1>10, <2>1, <2>2, <2>3 DEF Publish, HostOnly, TypeOK, Collects
  <1>11. CASE Drain \/ Joined
    <2>1. queue' = <<>> \/ queue' = queue
      BY <1>11 DEF Drain, Joined
    <2>2. todo' = todo /\ host # "register" /\ host' # "register"
      BY <1>11 DEF Drain, Joined
    <2>3. queue' \in Seq(Actions) /\ todo' \in Seq(IF host' = "register" THEN Combos ELSE Stores)
      <3>1. queue \in Seq(Actions) /\ todo \in Seq(IF host = "register" THEN Combos ELSE Stores)
        BY DEF TypeOK
      <3>2. (IF host = "register" THEN Combos ELSE Stores) = (IF host' = "register" THEN Combos ELSE Stores)
        BY <2>2
      <3>3. <<>> \in Seq(Actions)
        OBVIOUS
      <3> QED BY <2>1, <2>2, <3>1, <3>2, <3>3, Zenon
    <2>4. CASE Drain
      BY <2>3, <2>4 DEF Drain, HostOnly, TypeOK, Collects
    <2>5. CASE Joined
      BY <2>3, <2>5 DEF Joined, HostOnly, TypeOK, Collects
    <2> QED BY <1>11, <2>4, <2>5
  <1>12. CASE Drop
    <2>1. stop' \in BOOLEAN
      BY <1>12, Zenon DEF Drop
    <2> QED BY <1>12, <2>1, StoreTypes DEF Drop, HostOnly, TypeOK, Collects
  <1>13. CASE Press \/ AutoRepeat
    <2>1. ASSUME NEW c \in Combos, NEW k \in {"press", "again", "release"}
          PROVE  Append(events, Event(c, k)) \in Seq(Events)
      BY DEF Event, Events, TypeOK
    <2>2. events' \in Seq(Events)
      <3>1. newest # None => newest \in Combos
        BY DEF TypeOK
      <3>2. events \in Seq(Events)
        BY DEF TypeOK, Events
      <3>3. \E c \in Combos, k \in {"press", "again", "release"} : Deliver(Event(c, k))
        BY <1>13, <3>1 DEF Press, AutoRepeat
      <3> QED BY <2>1, <3>2, <3>3 DEF Deliver
    <2>3. presses' \in 0 .. MaxPresses
      BY <1>13, BoundsAssumption DEF Press, AutoRepeat, Quick, TypeOK
    <2> QED BY <1>13, <2>2, <2>3 DEF Press, AutoRepeat, UserOnly, TypeOK, Collects, Events
  <1>14. CASE Release
    <2>1. PICK c \in keys : /\ keys' = keys \ {c} /\ newest' = IF newest = c THEN None ELSE newest
                            /\ heard' = heard \ {c}
                            /\ events' = IF c \in heard THEN Append(events, Event(c, "release")) ELSE events
      BY <1>14 DEF Release
    <2>2. events' \in Seq(Events)
      <3>1. events \in Seq(Events) /\ Event(c, "release") \in Events
        BY DEF TypeOK, Event, Events
      <3> QED BY <2>1, <3>1, SequenceFacts
    <2> QED BY <1>14, <2>1, <2>2 DEF Release, UserOnly, TypeOK, Collects, Events
  <1>15. CASE UNCHANGED vars
    BY <1>15 DEF vars, TypeOK, Collects
  <1> QED
    BY <1>1, <1>2, <1>3, <1>4, <1>5, <1>6, <1>7, <1>8, <1>9, <1>10, <1>11, <1>12, <1>13, <1>14, <1>15
       DEF Next, ListenerStep, HostStep

\* Every variable keeps its type: the held action is one that repeats, the listener's
\* table only maps combinations that were asked for.
THEOREM ListenerTypeCorrect == Spec => []TypeOK
  BY InitTypes, StepTypes, PTL DEF Spec

-----------------------------------------------------------------------------
\* While the host rests, the table and the status come from one set of granted
\* combinations; what is collected for them, the system has granted.
Registered ==
    /\ host = "idle" => /\ ids = Table(want, DOMAIN ids) /\ status = Results(want, DOMAIN ids)
                        /\ DOMAIN ids \subseteq grabbed \cap Bound(want)
    /\ host = "register" => ToSet(todo) \subseteq grabbed

LEMMA InitRegistered == Init => Registered
  <1> SUFFICES ASSUME Init PROVE Registered
    OBVIOUS
  <1>1. want \in Shortcuts /\ grabbed = Bound(want)
    BY ShortcutsAssumption DEF Init, Bound
  <1>2. DOMAIN ids = grabbed
    BY <1>1, TableMaps DEF Init
  <1> QED BY <1>1, <1>2 DEF Init, Registered

LEMMA StepRegistered == TypeOK /\ Collects /\ Registered /\ [Next]_vars => Registered'
  <1> SUFFICES ASSUME TypeOK, Collects, Registered, [Next]_vars PROVE Registered'
    OBVIOUS
  <1> USE DEF Registered
  <1>1. ASSUME UNCHANGED <<host, ids, status, want, grabbed, todo>> PROVE Registered'
    BY <1>1
  <1>2. CASE Take \/ ListenerStores \/ ListenerEnds \/ Press \/ AutoRepeat \/ Release \/ Drain \/ UNCHANGED vars
    BY <1>1, <1>2 DEF Take, ListenerStores, ListenerEnds, Press, AutoRepeat, Release, UserOnly, Drain, HostOnly,
       platform, shared, hosting, table, vars
  <1>3. CASE WorkerStep \/ WorkerWakes
    BY <1>1, <1>3 DEF WorkerStep, WorkerTop, WorkerChecks, WorkerSleeps, WorkerArms, WorkerTimesOut,
       WorkerLooks, WorkerFetches, WorkerWakes, WorkerOnly, platform, hosting, table
  <1>4. CASE SetBindings \/ HostStores \/ Stopped \/ Unregister \/ Drop \/ Joined
    BY <1>4 DEF SetBindings, HostStores, Stopped, Unregister, Drop, Joined
  <1>5. CASE Unregistered
    BY <1>5 DEF Unregistered, Collects, ToSet
  <1>6. CASE Register
    <2>1. PICK c \in left : \/ grabbed' = grabbed \cup {c} /\ todo' = Append(todo, c)
                            \/ UNCHANGED <<grabbed, todo>>
      BY <1>6 DEF Register
    <2>2. host = "register" /\ UNCHANGED host /\ todo \in Seq(Combos)
      BY <1>6 DEF Register, TypeOK
    <2>3. ToSet(Append(todo, c)) = ToSet(todo) \cup {c}
      BY <2>2, SequenceFacts
    <2> QED BY <2>1, <2>2, <2>3
  <1>7. CASE Publish
    <2>1. want \in Shortcuts /\ ToSet(todo) \subseteq Bound(want)
      BY <1>7 DEF Publish, Collects, TypeOK
    <2>2. DOMAIN Table(want, ToSet(todo)) = ToSet(todo)
      BY <2>1, TableMaps
    <2> QED BY <1>7, <2>1, <2>2 DEF Publish
  <1> QED
    BY <1>2, <1>3, <1>4, <1>5, <1>6, <1>7 DEF Next, ListenerStep, HostStep

LEMMA RegisteredIsTrue == TypeOK /\ Registered => StatusIsRegistration
  <1> SUFFICES ASSUME TypeOK, Registered, host = "idle", NEW a \in Actions
               PROVE  status[a] = "registered" <=> \E c \in DOMAIN ids : ids[c] = a /\ c \in grabbed
    BY DEF StatusIsRegistration
  <1>1. /\ want \in Shortcuts /\ DOMAIN ids \subseteq grabbed \cap Bound(want)
        /\ ids = Table(want, DOMAIN ids) /\ status = Results(want, DOMAIN ids)
    BY DEF TypeOK, Registered
  <1>2. \A c \in DOMAIN ids : ids[c] = a <=> want[a] = c
    BY <1>1, TableMaps
  <1>3. status[a] = "registered" <=> want[a] # None /\ want[a] \in DOMAIN ids
    BY <1>1 DEF Results
  <1>4. None \notin DOMAIN ids
    BY <1>1 DEF Bound
  <1> QED BY <1>1, <1>2, <1>3, <1>4

\* The status that Help shows is what the system delivers: an action reads as registered
\* exactly when its combination was granted and the table maps it to the action, also
\* after rebinds half of whose calls failed, with keys pressed at any moment.
THEOREM StatusTellsRegistration == Spec => []StatusIsRegistration
  BY InitTypes, StepTypes, InitRegistered, StepRegistered, RegisteredIsTrue, PTL DEF Spec

-----------------------------------------------------------------------------
(* Shortcuts that change only with hands off the keyboard (Calm).           *)

Up(c) == Event(c, "release")
Rebinding == host \in {"stop", "unregister", "register"}

\* The release of c is still to come: the key is down and will be heard, or the release
\* is among the events from the i-th on.
ToCome(c, i) == c \in keys \cap heard \/ \E j \in i .. Len(events) : events[j] = Up(c)

\* The stores that stop() has still to make.
StopsLeft == {Stop, Tail(Stop), Tail(Tail(Stop)), <<Wake>>, <<>>}

\* A hold that is over when the host changes the table.
Rebinds ==
    /\ stop <=> host \in {"drop", "gone"}
    /\ Rebinding => HandsOff
    /\ host = "stop" => todo \in StopsLeft /\ (hold.holding => todo = Stop)
    /\ host \in {"unregister", "register"} => ~hold.holding

\* Whatever was pressed while its combination was registered will be released.
Releases ==
    host = "idle" => /\ keys \cap grabbed \subseteq heard
                     /\ \A c \in Combos, i \in 1 .. Len(events) :
                           events[i].combo = c /\ IsPress(events[i]) => ToCome(c, i + 1)

\* A hold of c for a has its key; it is what the stores that are left complete, or what
\* they have completed.
Good(c, a) == c \in DOMAIN ids /\ a = ids[c] /\ ToCome(c, 1)
HoldGood == hold.holding => Good(hold.combo, hold.action)
Held ==
    host = "idle" =>
       \/ listener = <<>> /\ HoldGood
       \/ \E a \in Actions : listener = <<Send(a)>> /\ HoldGood
       \/ \E c \in Combos, a \in Actions : listener = Start(c, a) \o <<Send(a)>> /\ Good(c, a)
       \/ \E c \in Combos, a \in Actions :
             /\ listener = <<Store("action", a), Store("holding", TRUE), Wake, Send(a)>>
             /\ Good(c, a) /\ hold.combo = c
       \/ \E a \in Actions :
             /\ listener = <<Store("holding", TRUE), Wake, Send(a)>>
             /\ Good(hold.combo, hold.action)
       \/ \E a \in Actions : listener = <<Wake, Send(a)>> /\ HoldGood
       \/ listener = Stop
       \/ listener \in StopsLeft /\ ~hold.holding

LEMMA StopStores ==
    /\ Stop # <<>> /\ Head(Stop) = Store("holding", FALSE)
    /\ \A s \in StopsLeft : s # <<>> => Tail(s) \in StopsLeft
    /\ \A s \in StopsLeft : s # <<>> /\ s # Stop =>
          Head(s) \in {Store("combo", None), Store("action", None), Wake}
  BY DEF Stop, StopsLeft, Wake, Store

\* The stores of stop(), by whichever thread, end a hold.
LEMMA StopEnds ==
    ASSUME TypeOK, NEW s \in StopsLeft, s # <<>>, hold.holding => s = Stop, Perform(Head(s))
    PROVE  ~hold'.holding
  <1>1. CASE s = Stop
    BY <1>1, StopStores DEF Perform, Store, TypeOK
  <1>2. CASE s # Stop
    <2>1. Head(s).field \in {"combo", "action", "wake"}
      BY <1>2, StopStores DEF Store, Wake
    <2>2. hold \in Holds /\ ~hold.holding
      BY <1>2 DEF TypeOK, Holds
    <2> QED BY <2>1, <2>2 DEF Perform, Holds
  <1> QED BY <1>1, <1>2

LEMMA InitCalm == Init => Rebinds /\ Releases /\ Held
  BY DEF Init, Rebinds, Rebinding, Releases, Held, HoldGood, NoHold

LEMMA StepRebinds == Calm /\ TypeOK /\ Rebinds /\ [Next]_vars => Rebinds'
  <1> SUFFICES ASSUME Calm, TypeOK, Rebinds, [Next]_vars PROVE Rebinds'
    OBVIOUS
  <1> USE DEF Rebinds, Rebinding, HandsOff
  <1>1. CASE Take \/ ListenerStores
    BY <1>1 DEF Take, ListenerStores, hosting
  <1>2. CASE ListenerEnds \/ WorkerWakes \/ WorkerStep
    BY <1>2 DEF ListenerEnds, WorkerWakes, WorkerStep, WorkerTop, WorkerChecks, WorkerSleeps, WorkerArms, WorkerTimesOut,
       WorkerLooks, WorkerFetches, WorkerOnly, WorkerGoes, platform, hosting, shared
  <1>3. CASE SetBindings
    <2>1. Stop \in StopsLeft
      BY DEF StopsLeft
    <2> QED BY <1>3, <2>1 DEF SetBindings, HostOnly
  <1>4. CASE HostStores
    <2>1. CASE host = "stop"
      <3>1. todo \in StopsLeft /\ todo # <<>> /\ (hold.holding => todo = Stop) /\ todo' = Tail(todo)
        BY <1>4, <2>1 DEF HostStores
      <3>2. ~hold'.holding /\ todo' \in StopsLeft
        BY <1>4, <3>1, StopEnds, StopStores DEF HostStores
      <3> QED BY <1>4, <2>1, <3>2 DEF HostStores, HostOnly
    <2>2. CASE host = "drop"
      BY <1>4, <2>2 DEF HostStores, HostOnly
    <2> QED BY <1>4, <2>1, <2>2 DEF HostStores
  <1>5. CASE Stopped
    <2>1. ~hold.holding
      BY <1>5 DEF Stopped, Stop
    <2> QED BY <1>5, <2>1 DEF Stopped, HostOnly, shared
  <1>6. CASE Unregister \/ Unregistered \/ Register \/ Publish
    BY <1>6 DEF Unregister, Unregistered, Register, Publish, HostOnly, shared
  <1>7. CASE Drain \/ Drop \/ Joined
    BY <1>7 DEF Drain, Drop, Joined, HostOnly, hosting
  <1>8. CASE Press \/ AutoRepeat \/ Release
    BY <1>8 DEF Press, AutoRepeat, Release, Quick, UserOnly, shared, hosting
  <1>9. CASE UNCHANGED vars
    BY <1>9 DEF vars, platform, shared, hosting
  <1> QED
    BY <1>1, <1>2, <1>3, <1>4, <1>5, <1>6, <1>7, <1>8, <1>9 DEF Next, ListenerStep, HostStep

\* What the keyboard does to the events: one more at the end, or none.
LEMMA UserEvents ==
    ASSUME TypeOK, Press \/ AutoRepeat \/ Release
    PROVE  /\ events' \in Seq(Events) /\ Len(events') \in {Len(events), Len(events) + 1}
           /\ \A i \in 1 .. Len(events) : events'[i] = events[i]
  <1>1. events \in Seq(Events)
    BY DEF TypeOK, Events
  <1>2. \/ events' = events
        \/ \E c \in Combos, k \in {"press", "again", "release"} : events' = Append(events, Event(c, k))
    BY DEF Press, AutoRepeat, Release, Deliver, TypeOK
  <1>3. \A c \in Combos, k \in {"press", "again", "release"} : Event(c, k) \in Events
    BY DEF Event, Events
  <1> QED BY <1>1, <1>2, <1>3

\* A key's release gets among the events when it is up.
LEMMA ToComeStays ==
    ASSUME TypeOK, Press \/ AutoRepeat \/ Release,
           NEW c \in Combos, NEW i \in 1 .. Len(events) + 1, ToCome(c, i)
    PROVE  ToCome(c, i)'
  <1>0. events \in Seq(Events) /\ Len(events) \in Nat
    BY DEF TypeOK, Events
  <1>1. CASE \E j \in i .. Len(events) : events[j] = Up(c)
    BY <1>0, <1>1, UserEvents DEF ToCome
  <1>2. CASE c \in keys \cap heard /\ (Press \/ AutoRepeat)
    BY <1>2 DEF ToCome, Press, AutoRepeat, UserOnly
  <1>3. CASE c \in keys \cap heard /\ Release
    <2>1. PICK d \in keys : /\ keys' = keys \ {d} /\ heard' = heard \ {d}
                            /\ events' = IF d \in heard THEN Append(events, Up(d)) ELSE events
      BY <1>3 DEF Release, Up
    <2>2. CASE d = c
      <3>1. events' = Append(events, Up(c)) /\ Up(c) \in Events
        BY <1>3, <2>1, <2>2 DEF Up, Event, Events
      <3>2. Len(events') = Len(events) + 1 /\ events'[Len(events) + 1] = Up(c)
        BY <1>0, <3>1
      <3> QED BY <1>0, <3>2 DEF ToCome
    <2>3. CASE d # c
      BY <1>3, <2>1, <2>3 DEF ToCome
    <2> QED BY <2>2, <2>3
  <1> QED BY <1>1, <1>2, <1>3 DEF ToCome

\* Taking an event moves the others up.
LEMMA TakenEvents ==
    ASSUME TypeOK, events # <<>>, events' = Tail(events), UNCHANGED <<keys, heard>>
    PROVE  /\ Head(events) = events[1] /\ Head(events) \in Events
           /\ Len(events') = Len(events) - 1 /\ Len(events) \in Nat \ {0}
           /\ \A i \in 1 .. Len(events') : events'[i] = events[i + 1]
           /\ \A c \in Combos, i \in 1 .. Len(events) : ToCome(c, i + 1) => ToCome(c, i)'
           /\ \A c \in Combos : ToCome(c, 1) /\ Head(events) # Up(c) => ToCome(c, 1)'
  <1>0. events \in Seq(Events) /\ Len(events) \in Nat \ {0}
    BY DEF TypeOK, Events
  <1>1. /\ Head(events) = events[1] /\ Head(events) \in Events /\ Len(events') = Len(events) - 1
        /\ \A i \in 1 .. Len(events') : events'[i] = events[i + 1]
    BY <1>0
  <1>2. ASSUME NEW c \in Combos, NEW i \in 1 .. Len(events), ToCome(c, i + 1) PROVE ToCome(c, i)'
    <2>1. CASE c \in keys \cap heard
      BY <2>1 DEF ToCome
    <2>2. ASSUME NEW j \in (i + 1) .. Len(events), events[j] = Up(c) PROVE ToCome(c, i)'
      <3>1. j - 1 \in i .. Len(events') /\ events'[j - 1] = Up(c)
        BY <1>0, <1>1, <2>2
      <3> QED BY <3>1 DEF ToCome, Up
    <2> QED BY <1>2, <2>1, <2>2 DEF ToCome
  <1>3. ASSUME NEW c \in Combos, ToCome(c, 1), Head(events) # Up(c) PROVE ToCome(c, 1)'
    <2>1. ToCome(c, 2)
      BY <1>0, <1>1, <1>3 DEF ToCome
    <2> QED BY <1>0, <1>2, <2>1
  <1> QED BY <1>0, <1>1, <1>2, <1>3

LEMMA StepReleases == Calm /\ TypeOK /\ Rebinds /\ Releases /\ [Next]_vars => Releases'
  <1> SUFFICES ASSUME Calm, TypeOK, Rebinds, Releases, [Next]_vars, host' = "idle" PROVE Releases'
    BY DEF Releases
  <1>0. events \in Seq(Events)
    BY DEF TypeOK, Events
  <1>1. ASSUME UNCHANGED <<events, keys, heard, grabbed, host>> PROVE Releases'
    BY <1>1 DEF Releases, ToCome
  <1>2. CASE Take
    <2>1. /\ events # <<>> /\ events' = Tail(events) /\ UNCHANGED <<keys, heard, grabbed, host>>
      BY <1>2 DEF Take, platform, hosting
    <2>2. ASSUME NEW c \in Combos, NEW i \in 1 .. Len(events'), events'[i].combo = c, IsPress(events'[i])
          PROVE  ToCome(c, i + 1)'
      <3>1. events'[i] = events[i + 1] /\ i + 1 \in 1 .. Len(events)
        BY <1>0, <2>1, TakenEvents
      <3>2. ToCome(c, (i + 1) + 1)
        BY <2>1, <2>2, <3>1 DEF Releases
      <3> QED BY <2>1, <3>1, <3>2, TakenEvents
    <2> QED BY <2>1, <2>2 DEF Releases, IsPress
  <1>3. CASE Press \/ AutoRepeat \/ Release
    <2>1. UNCHANGED <<host, grabbed>> /\ host = "idle"
      BY <1>3 DEF Press, AutoRepeat, Release, UserOnly, hosting
    <2>2. keys' \cap grabbed' \subseteq heard'
      BY <1>3, <2>1 DEF Press, AutoRepeat, Release, Releases, TypeOK
    <2>3. ASSUME NEW c \in Combos, NEW i \in 1 .. Len(events'), events'[i].combo = c, IsPress(events'[i])
          PROVE  ToCome(c, i + 1)'
      <3>1. CASE i \in 1 .. Len(events)
        <4>1. events'[i] = events[i] /\ ToCome(c, i + 1)
          BY <1>3, <2>1, <2>3, <3>1, UserEvents DEF Releases
        <4> QED BY <1>0, <1>3, <3>1, <4>1, ToComeStays
      <3>2. CASE i = Len(events) + 1 /\ Len(events') = Len(events) + 1
        <4>1. \E d \in keys' : d \in grabbed /\ events'[i].combo = d
          <5>1. CASE Press
            <6>1. PICK d \in Combos : keys' = keys \cup {d} /\ Deliver(Event(d, "press"))
              BY <5>1 DEF Press
            <6>2. d \in grabbed /\ events' = Append(events, Event(d, "press"))
              BY <1>0, <3>2, <6>1 DEF Deliver, Event
            <6> QED BY <1>0, <3>2, <6>1, <6>2 DEF Event
          <5>2. CASE AutoRepeat
            <6>1. newest \in grabbed /\ events' = Append(events, Event(newest, "again"))
              BY <1>0, <3>2, <5>2 DEF AutoRepeat, Deliver, Event
            <6>2. newest \in keys'
              BY <5>2 DEF AutoRepeat, TypeOK
            <6> QED BY <1>0, <3>2, <6>1, <6>2 DEF Event
          <5>3. CASE Release
            <6>1. PICK d \in keys : events' = IF d \in heard THEN Append(events, Event(d, "release")) ELSE events
              BY <5>3 DEF Release
            <6>2. events' = Append(events, Event(d, "release"))
              BY <1>0, <3>2, <6>1
            <6>3. events'[i].kind = "release"
              BY <1>0, <3>2, <6>2 DEF Event
            <6> QED BY <2>3, <6>3 DEF IsPress
          <5> QED BY <1>3, <5>1, <5>2, <5>3
        <4>2. c \in keys' \cap heard'
          BY <2>1, <2>2, <2>3, <4>1
        <4> QED BY <4>2 DEF ToCome
      <3> QED BY <1>0, <1>3, <3>1, <3>2, UserEvents
    <2> QED BY <2>2, <2>3 DEF Releases, IsPress
  <1>4. CASE ListenerStores \/ ListenerEnds \/ WorkerWakes \/ WorkerStep
    BY <1>1, <1>4 DEF ListenerStores, ListenerEnds, WorkerWakes, WorkerStep, WorkerTop, WorkerChecks, WorkerSleeps,
       WorkerArms, WorkerTimesOut, WorkerLooks, WorkerFetches, WorkerOnly, platform, hosting
  <1>5. CASE Publish
    <2>1. keys' = {} /\ events' = <<>>
      BY <1>5 DEF Publish, HostOnly, Rebinds, Rebinding, HandsOff
    <2> QED BY <2>1 DEF Releases
  <1>6. CASE Drain \/ UNCHANGED vars
    BY <1>1, <1>6 DEF Drain, HostOnly, hosting, vars, platform
  <1>7. CASE SetBindings \/ HostStores \/ Stopped \/ Unregister \/ Unregistered \/ Register \/ Drop \/ Joined
    BY <1>7 DEF SetBindings, HostStores, Stopped, Unregister, Unregistered, Register, Drop, Joined
  <1> QED
    BY <1>2, <1>3, <1>4, <1>5, <1>6, <1>7 DEF Next, ListenerStep, HostStep

LEMMA Four ==
    \A a, b, c, d : Head(<<a, b, c, d>>) = a /\ Tail(<<a, b, c, d>>) = <<b, c, d>>
  <1> TAKE a, b, c, d
  <1> DEFINE S == {a, b, c, d}
             s == <<a, b, c, d>>
  <1>1. s \in Seq(S) /\ Len(s) = 4 /\ s # <<>> /\ <<b, c, d>> \in Seq(S)
    OBVIOUS
  <1>2. Tail(s) \in Seq(S) /\ Len(Tail(s)) = 3 /\ \A i \in 1 .. 3 : Tail(s)[i] = s[i + 1]
    BY <1>1, HeadTailProperties
  <1>3. \A i \in 1 .. 3 : Tail(s)[i] = <<b, c, d>>[i]
    BY <1>2
  <1>4. Head(s) = a
    OBVIOUS
  <1> HIDE DEF s, S
  <1>5. Tail(s) = <<b, c, d>>
    BY <1>1, <1>2, <1>3, SeqEqual
  <1> QED BY <1>4, <1>5 DEF s

LEMMA Five ==
    \A k, m :
       /\ Head(Start(k, m) \o <<Send(m)>>) = Store("combo", k)
       /\ Tail(Start(k, m) \o <<Send(m)>>) = <<Store("action", m), Store("holding", TRUE), Wake, Send(m)>>
  <1> TAKE k, m
  <1> DEFINE a == Store("combo", k)
             b == Store("action", m)
             c == Store("holding", TRUE)
             d == Wake
             e == Send(m)
             S == {a, b, c, d, e}
             s == <<a, b, c, d, e>>
             l == <<a, b, c, d>>
             r == <<e>>
  <1> HIDE DEF a, b, c, d, e
  <1>1. s \in Seq(S) /\ Len(s) = 5 /\ s # <<>> /\ <<b, c, d, e>> \in Seq(S)
    OBVIOUS
  <1>2. l \o r = s
    <2>1. l \in Seq(S) /\ r \in Seq(S) /\ Len(l) = 4 /\ Len(r) = 1
      OBVIOUS
    <2>2. /\ l \o r \in Seq(S) /\ Len(l \o r) = 5
          /\ \A i \in 1 .. 5 : (l \o r)[i] = IF i <= 4 THEN l[i] ELSE r[i - 4]
      <3> HIDE DEF l, r, S
      <3>1. /\ l \o r \in Seq(S) /\ Len(l \o r) = Len(l) + Len(r)
            /\ \A i \in 1 .. Len(l) + Len(r) : (l \o r)[i] = IF i <= Len(l) THEN l[i] ELSE r[i - Len(l)]
        BY <2>1, ConcatProperties, Zenon
      <3> QED BY <2>1, <3>1
    <2>3. \A i \in 1 .. 5 : (l \o r)[i] = s[i]
      <3>1. s[1] = l[1] /\ s[2] = l[2] /\ s[3] = l[3] /\ s[4] = l[4] /\ s[5] = r[1]
        OBVIOUS
      <3>2. /\ (l \o r)[1] = l[1] /\ (l \o r)[2] = l[2] /\ (l \o r)[3] = l[3]
            /\ (l \o r)[4] = l[4] /\ (l \o r)[5] = r[1]
        <4> HIDE DEF l, r
        <4> QED BY <2>2
      <3>3. \A i \in 1 .. 5 : i = 1 \/ i = 2 \/ i = 3 \/ i = 4 \/ i = 5
        OBVIOUS
      <3> HIDE DEF l, r, s
      <3> QED BY <3>1, <3>2, <3>3
    <2> HIDE DEF l, r, s, S
    <2> QED BY <1>1, <2>2, <2>3, SeqEqual
  <1>3. Tail(s) \in Seq(S) /\ Len(Tail(s)) = 4 /\ \A i \in 1 .. 4 : Tail(s)[i] = s[i + 1]
    BY <1>1, HeadTailProperties
  <1>4. \A i \in 1 .. 4 : Tail(s)[i] = <<b, c, d, e>>[i]
    BY <1>3
  <1>5. Head(s) = a
    <2>1. Head(s) = s[1]
      BY <1>1, HeadTailProperties
    <2> QED BY <2>1
  <1>6. Len(<<b, c, d, e>>) = 4
    OBVIOUS
  <1> HIDE DEF s, S
  <1>7. Tail(s) = <<b, c, d, e>>
    BY <1>1, <1>3, <1>4, <1>6, SeqEqual
  <1> QED BY <1>2, <1>5, <1>7 DEF l, r, Start, a, b, c, d, e

\* The listener makes its stores while the host rests.
LEMMA StoresHeld == TypeOK /\ Held /\ ListenerStores => Held'
  <1> SUFFICES ASSUME TypeOK, Held, ListenerStores, host = "idle" PROVE Held'
    BY DEF Held, ListenerStores, hosting
  <1>0. /\ listener # <<>> /\ Perform(Head(listener)) /\ listener' = Tail(listener)
        /\ UNCHANGED <<ids, keys, heard, events, host>>
    BY DEF ListenerStores, platform, table, hosting
  <1>1. hold \in Holds
    BY DEF TypeOK, Holds
  <1>2. ASSUME NEW a \in Actions, listener = <<Send(a)>>, HoldGood PROVE Held'
    <2>1. UNCHANGED hold /\ listener' = <<>>
      BY <1>0, <1>1, <1>2 DEF Send, Store, Perform, Holds
    <2> QED BY <1>0, <1>2, <2>1 DEF Held, HoldGood, Good, ToCome
  <1>3. ASSUME NEW c \in Combos, NEW a \in Actions, listener = Start(c, a) \o <<Send(a)>>, Good(c, a) PROVE Held'
    <2>1. /\ Head(listener) = Store("combo", c)
          /\ listener' = <<Store("action", a), Store("holding", TRUE), Wake, Send(a)>>
      BY <1>0, <1>3, Five, Zenon
    <2>2. hold' = [hold EXCEPT !.combo = c]
      BY <1>0, <1>1, <2>1 DEF Store, Perform, Holds
    <2> QED BY <1>0, <1>1, <1>3, <2>1, <2>2 DEF Held, Good, ToCome, Holds
  <1>4. ASSUME NEW c \in Combos, NEW a \in Actions, Good(c, a), hold.combo = c,
               listener = <<Store("action", a), Store("holding", TRUE), Wake, Send(a)>>
        PROVE  Held'
    <2>1. /\ Head(listener) = Store("action", a)
          /\ listener' = <<Store("holding", TRUE), Wake, Send(a)>>
      <3> DEFINE y == Store("action", a)
                 z == Store("holding", TRUE)
      <3>1. Head(<<y, z, Wake, Send(a)>>) = y /\ Tail(<<y, z, Wake, Send(a)>>) = <<z, Wake, Send(a)>>
        BY Four, Zenon
      <3>2. listener = <<y, z, Wake, Send(a)>>
        BY <1>4
      <3> HIDE DEF y, z
      <3>3. Head(listener) = y /\ Tail(listener) = <<z, Wake, Send(a)>>
        BY <3>1, <3>2
      <3> QED BY <1>0, <3>3 DEF y, z
    <2>2. hold' = [hold EXCEPT !.action = a]
      BY <1>0, <1>1, <2>1 DEF Store, Perform, Holds
    <2> QED BY <1>0, <1>1, <1>4, <2>1, <2>2 DEF Held, Good, ToCome, Holds
  <1>5. ASSUME NEW a \in Actions, listener = <<Store("holding", TRUE), Wake, Send(a)>>,
               Good(hold.combo, hold.action)
        PROVE  Held'
    <2>1. Head(listener) = Store("holding", TRUE) /\ listener' = <<Wake, Send(a)>>
      BY <1>0, <1>5
    <2>2. hold' = [hold EXCEPT !.holding = TRUE]
      BY <1>0, <1>1, <2>1 DEF Store, Perform, Holds
    <2> QED BY <1>0, <1>1, <1>5, <2>1, <2>2 DEF Held, HoldGood, Good, ToCome, Holds
  <1>6. ASSUME NEW a \in Actions, listener = <<Wake, Send(a)>>, HoldGood PROVE Held'
    <2>1. Head(listener) = Wake /\ listener' = <<Send(a)>>
      BY <1>0, <1>6
    <2>2. UNCHANGED hold
      BY <1>0, <1>1, <2>1 DEF Wake, Store, Perform, Holds
    <2> QED BY <1>0, <1>6, <2>1, <2>2 DEF Held, HoldGood, Good, ToCome
  <1>7. CASE listener = Stop \/ (listener \in StopsLeft /\ ~hold.holding)
    <2>1. listener \in StopsLeft /\ (hold.holding => listener = Stop)
      BY <1>7 DEF StopsLeft
    <2>2. ~hold'.holding /\ listener' \in StopsLeft
      BY <1>0, <2>1, StopEnds, StopStores
    <2> QED BY <1>0, <2>2 DEF Held
  <1> QED BY <1>0, <1>2, <1>3, <1>4, <1>5, <1>6, <1>7 DEF Held

\* An event the listener takes starts a hold that has its key, ends one, or leaves it.
LEMMA TakeHeld == TypeOK /\ Rebinds /\ Releases /\ Held /\ Take => Held'
  <1> SUFFICES ASSUME TypeOK, Rebinds, Releases, Held, Take, host = "idle" PROVE Held'
    BY DEF Held, Take, hosting
  <1> DEFINE e == Head(events)
  <1>0. /\ listener = <<>> /\ events # <<>> /\ events' = Tail(events)
        /\ UNCHANGED <<hold, ids, keys, heard, host>>
    BY DEF Take, shared, platform, table, hosting
  <1>1. e \in Events /\ e = events[1] /\ 1 \in 1 .. Len(events)
    BY <1>0, TakenEvents
  <1>2. HoldGood
    <2>1. \A a \in Actions, c \in Combos :
             /\ <<>> # Start(c, a) \o <<Send(a)>>
             /\ <<>> # <<Store("action", a), Store("holding", TRUE), Wake, Send(a)>>
             /\ <<>> # <<Store("holding", TRUE), Wake, Send(a)>>
             /\ <<>> # <<Wake, Send(a)>> /\ <<>> # <<Send(a)>>
      BY DEF Start
    <2> QED BY <1>0, <2>1, StopStores DEF Held, HoldGood
  <1>3. ASSUME ~(hold.holding /\ e = Up(hold.combo)) PROVE HoldGood'
    <2> SUFFICES ASSUME hold.holding PROVE Good(hold.combo, hold.action)'
      BY <1>0 DEF HoldGood
    <2>1. PICK c \in Combos : c = hold.combo
      BY <1>2 DEF HoldGood, Good, TypeOK
    <2>2. ToCome(c, 1)'
      BY <1>0, <1>2, <1>3, <2>1, TakenEvents DEF HoldGood, Good
    <2> QED BY <1>0, <1>2, <2>1, <2>2 DEF HoldGood, Good, ToCome
  <1>4. CASE e.combo \notin DOMAIN ids
    <2>1. listener' = <<>>
      BY <1>0, <1>4 DEF Take
    <2>2. ~(hold.holding /\ e = Up(hold.combo))
      BY <1>2, <1>4 DEF HoldGood, Good, Up, Event
    <2> QED BY <1>0, <1>3, <2>1, <2>2 DEF Held
  <1>5. CASE e.combo \in DOMAIN ids /\ IsPress(e)
    <2>1. PICK c \in Combos, a \in Actions : c = e.combo /\ a = ids[c] /\ OnPress(c, a)
      BY <1>1, <1>5 DEF Take, TypeOK, Events
    <2>2. HoldGood'
      BY <1>3, <1>5 DEF IsPress, Up, Event
    <2>3. Good(c, a)'
      <3>1. ToCome(c, 1 + 1)
        BY <1>1, <1>5, <2>1 DEF Releases
      <3>2. ToCome(c, 1)'
        BY <1>0, <1>1, <3>1, TakenEvents
      <3> QED BY <1>0, <1>5, <2>1, <3>2 DEF Good
    <2>4. <<>> \o <<Send(a)>> = <<Send(a)>>
      OBVIOUS
    <2> QED BY <1>0, <2>1, <2>2, <2>3, <2>4 DEF Held, OnPress
  <1>6. CASE e.combo \in DOMAIN ids /\ ~IsPress(e)
    <2>1. e = Up(e.combo)
      BY <1>1, <1>6 DEF Events, IsPress, Up, Event
    <2>2. listener' = IF hold.holding /\ hold.combo = e.combo THEN Stop ELSE <<>>
      BY <1>6 DEF Take, OnRelease
    <2>3. CASE hold.holding /\ hold.combo = e.combo
      BY <1>0, <2>2, <2>3 DEF Held
    <2>4. CASE ~(hold.holding /\ hold.combo = e.combo)
      <3>1. HoldGood'
        BY <1>3, <2>1, <2>4 DEF Up, Event
      <3> QED BY <1>0, <2>2, <2>4, <3>1 DEF Held
    <2> QED BY <2>3, <2>4
  <1> QED BY <1>4, <1>5, <1>6

LEMMA StepHeld == Calm /\ TypeOK /\ Rebinds /\ Releases /\ Held /\ [Next]_vars => Held'
  <1> SUFFICES ASSUME Calm, TypeOK, Rebinds, Releases, Held, [Next]_vars, host' = "idle" PROVE Held'
    BY DEF Held
  <1>1. ASSUME UNCHANGED <<host, listener, hold, ids, events, keys, heard>> PROVE Held'
    BY <1>1 DEF Held, HoldGood, Good, ToCome
  <1>2. CASE ListenerEnds \/ WorkerWakes \/ WorkerStep \/ Drain \/ UNCHANGED vars
    BY <1>1, <1>2 DEF ListenerEnds, WorkerWakes, WorkerStep, WorkerTop, WorkerChecks, WorkerSleeps,
       WorkerArms, WorkerTimesOut, WorkerLooks, WorkerFetches, WorkerOnly, WorkerGoes, Drain, HostOnly,
       platform, shared, hosting, table, vars
  <1>3. CASE Press \/ AutoRepeat \/ Release
    <2>1. UNCHANGED <<host, listener, hold, ids>> /\ host = "idle"
      BY <1>3 DEF Press, AutoRepeat, Release, UserOnly, shared, hosting, table
    <2>2. \A c \in Combos : ToCome(c, 1) => ToCome(c, 1)'
      <3>1. 1 \in 1 .. Len(events) + 1
        BY DEF TypeOK
      <3> QED BY <1>3, <3>1, ToComeStays
    <2>3. \A c, a : Good(c, a) => Good(c, a)'
      BY <2>1, <2>2 DEF Good, TypeOK
    <2>4. Good(hold.combo, hold.action) => Good(hold.combo, hold.action)'
      <3>1. PICK c, a : c = hold.combo /\ a = hold.action
        OBVIOUS
      <3> QED BY <2>1, <2>3, <3>1 DEF Good, ToCome
    <2>5. HoldGood => HoldGood'
      BY <2>1, <2>4 DEF HoldGood
    <2> HIDE DEF Good, HoldGood
    <2> QED BY <2>1, <2>3, <2>4, <2>5 DEF Held
  <1>4. CASE Publish
    <2>1. listener' = <<>> /\ ~hold'.holding
      BY <1>4 DEF Publish, HostOnly, Rebinds, Rebinding, HandsOff, shared
    <2> QED BY <2>1 DEF Held, HoldGood
  <1>5. CASE SetBindings \/ HostStores \/ Stopped \/ Unregister \/ Unregistered \/ Register \/ Drop \/ Joined
    BY <1>5 DEF SetBindings, HostStores, Stopped, Unregister, Unregistered, Register, Drop, Joined
  <1> QED
    BY <1>2, <1>3, <1>4, <1>5, TakeHeld, StoresHeld DEF Next, ListenerStep, HostStep

LEMMA HeldIsTrue == TypeOK /\ Held => HoldHasItsKey
  <1> SUFFICES ASSUME TypeOK, Held, listener = <<>>, host = "idle", hold.holding
               PROVE  /\ hold.combo \in DOMAIN ids /\ hold.action = ids[hold.combo]
                      /\ hold.combo \in keys \/ Event(hold.combo, "release") \in ToSet(events)
    BY DEF HoldHasItsKey
  <1>1. HoldGood
    <2>1. \A a \in Actions, c \in Combos :
             /\ <<>> # Start(c, a) \o <<Send(a)>>
             /\ <<>> # <<Store("action", a), Store("holding", TRUE), Wake, Send(a)>>
             /\ <<>> # <<Store("holding", TRUE), Wake, Send(a)>>
             /\ <<>> # <<Wake, Send(a)>> /\ <<>> # <<Send(a)>>
      BY DEF Start
    <2> QED BY <2>1, StopStores DEF Held, HoldGood
  <1>2. hold.combo \in DOMAIN ids /\ hold.action = ids[hold.combo] /\ ToCome(hold.combo, 1)
    BY <1>1 DEF HoldGood, Good
  <1>3. CASE \E j \in 1 .. Len(events) : events[j] = Up(hold.combo)
    BY <1>3, <1>2 DEF ToSet, Up
  <1> QED BY <1>2, <1>3 DEF ToCome

\* What the listener tells and what it repeats: the registration status is the truth, and
\* a hold is of a key that is down or whose release is on its way, for the action the
\* table gives that key; so no hold can outlive its key.  For shortcuts that change only
\* with hands off the keyboard; without that hypothesis the release of a key that is
\* rebound while down never comes.
THEOREM HoldsHaveTheirKeys == ASSUME Calm PROVE Spec => []StatusIsHonest
  <1>1. Init => TypeOK /\ Collects /\ Registered /\ Rebinds /\ Releases /\ Held
    BY InitTypes, InitRegistered, InitCalm
  <1>2. TypeOK /\ Collects /\ Registered /\ Rebinds /\ Releases /\ Held /\ [Next]_vars
        => (TypeOK /\ Collects /\ Registered /\ Rebinds /\ Releases /\ Held)'
    BY StepTypes, StepRegistered, StepRebinds, StepReleases, StepHeld
  <1>3. TypeOK /\ Registered /\ Held => StatusIsHonest
    BY RegisteredIsTrue, HeldIsTrue DEF StatusIsHonest
  <1> QED BY <1>1, <1>2, <1>3, PTL DEF Spec

-----------------------------------------------------------------------------
(* A press and its auto-repeats.                                           *)

\* An event makes c the combination that counts as down, or ends that.
Opens(c, e) == e.combo = c /\ IsPress(e)
Ends(known, c, e) == IF e.combo = c THEN ~IsPress(e) ELSE e.combo \in known /\ IsPress(e)

\* Whether c will count as down when the listener comes to the i-th of the events q, if d
\* counts as down now.
DownAt(q, known, d, c, i) ==
    \/ \E j \in 1 .. i - 1 : Opens(c, q[j]) /\ \A k \in j + 1 .. i - 1 : ~Ends(known, c, q[k])
    \/ d = c /\ \A k \in 1 .. i - 1 : ~Ends(known, c, q[k])

DownThen(c, i) == DownAt(events, DOMAIN ids, down, c, i)

\* A press comes when its combination does not count as down, an auto-repeat when it does.
InOrder ==
    ~stop =>
      /\ down \in DOMAIN ids \cup {None}
      /\ Rebinding => down = None
      /\ \A c \in DOMAIN ids :
            /\ \A i \in 1 .. Len(events) :
                  Opens(c, events[i]) => (events[i].kind = "again" <=> DownThen(c, i))
            /\ c \notin keys => ~DownThen(c, Len(events) + 1)
            /\ newest = c => DownThen(c, Len(events) + 1)

LEMMA DownNext ==
    ASSUME NEW q, NEW known, NEW d, NEW c, NEW i \in Nat \ {0}
    PROVE  DownAt(q, known, d, c, i + 1) <=> Opens(c, q[i]) \/ (DownAt(q, known, d, c, i) /\ ~Ends(known, c, q[i]))
  <1>1. ASSUME Opens(c, q[i]) PROVE DownAt(q, known, d, c, i + 1)
    <2>1. i \in 1 .. (i + 1) - 1 /\ \A k \in i + 1 .. (i + 1) - 1 : FALSE
      OBVIOUS
    <2> QED BY <1>1, <2>1 DEF DownAt
  <1>2. ASSUME DownAt(q, known, d, c, i), ~Ends(known, c, q[i]) PROVE DownAt(q, known, d, c, i + 1)
    <2>1. \A j \in 1 .. i - 1 : j \in 1 .. (i + 1) - 1
      OBVIOUS
    <2>2. \A j \in 0 .. i - 1 : \A k \in j + 1 .. (i + 1) - 1 : k \in j + 1 .. i - 1 \/ k = i
      OBVIOUS
    <2> QED BY <1>2, <2>1, <2>2 DEF DownAt
  <1>3. ASSUME DownAt(q, known, d, c, i + 1), ~Opens(c, q[i])
        PROVE  DownAt(q, known, d, c, i) /\ ~Ends(known, c, q[i])
    <2>1. \A j \in 1 .. (i + 1) - 1 : j \in 1 .. i - 1 \/ j = i
      OBVIOUS
    <2>2. \A j \in 0 .. i - 1 : i \in j + 1 .. (i + 1) - 1 /\ \A k \in j + 1 .. i - 1 : k \in j + 1 .. (i + 1) - 1
      OBVIOUS
    <2> QED BY <1>3, <2>1, <2>2 DEF DownAt
  <1> QED BY <1>1, <1>2, <1>3

LEMMA DownNow ==
    ASSUME NEW q, NEW known, NEW d, NEW c
    PROVE  DownAt(q, known, d, c, 1) <=> d = c
  BY DEF DownAt

\* An event at the end changes nothing for those before it.
LEMMA DownGrows ==
    ASSUME NEW q \in Seq(Events), NEW e \in Events, NEW known, NEW d, NEW c, NEW i \in 1 .. Len(q) + 1
    PROVE  DownAt(Append(q, e), known, d, c, i) <=> DownAt(q, known, d, c, i)
  <1>1. \A j \in 1 .. i - 1 : Append(q, e)[j] = q[j]
    OBVIOUS
  <1>2. \A j \in 0 .. i - 1 : \A k \in j + 1 .. i - 1 : k \in 1 .. i - 1
    OBVIOUS
  <1> QED BY <1>1, <1>2 DEF DownAt

\* Taking the first event moves the others up.
LEMMA DownShifts ==
    ASSUME NEW q \in Seq(Events), q # <<>>, NEW known, NEW d, NEW n, NEW c,
           n = c <=> DownAt(q, known, d, c, 2), NEW i \in 1 .. Len(q)
    PROVE  DownAt(Tail(q), known, n, c, i) <=> DownAt(q, known, d, c, i + 1)
  <1>1. \A j \in 1 .. i - 1 : Tail(q)[j] = q[j + 1]
    OBVIOUS
  <1>2. n = c <=> Opens(c, q[1]) \/ (d = c /\ ~Ends(known, c, q[1]))
    <2>1. DownAt(q, known, d, c, 1 + 1) <=> Opens(c, q[1]) \/ (DownAt(q, known, d, c, 1) /\ ~Ends(known, c, q[1]))
      BY DownNext
    <2> QED BY <2>1, DownNow
  <1>3. ASSUME DownAt(Tail(q), known, n, c, i) PROVE DownAt(q, known, d, c, i + 1)
    <2>1. CASE \E j \in 1 .. i - 1 : Opens(c, Tail(q)[j]) /\ \A k \in j + 1 .. i - 1 : ~Ends(known, c, Tail(q)[k])
      <3>1. PICK j \in 1 .. i - 1 : Opens(c, Tail(q)[j]) /\ \A k \in j + 1 .. i - 1 : ~Ends(known, c, Tail(q)[k])
        BY <2>1
      <3>2. j + 1 \in 1 .. (i + 1) - 1 /\ Opens(c, q[j + 1])
        BY <1>1, <3>1
      <3>3. ASSUME NEW k \in (j + 1) + 1 .. (i + 1) - 1 PROVE ~Ends(known, c, q[k])
        <4>1. k - 1 \in j + 1 .. i - 1 /\ k - 1 \in 1 .. i - 1 /\ (k - 1) + 1 = k
          OBVIOUS
        <4> QED BY <1>1, <3>1, <4>1
      <3> QED BY <3>2, <3>3 DEF DownAt
    <2>2. CASE n = c /\ \A k \in 1 .. i - 1 : ~Ends(known, c, Tail(q)[k])
      <3>1. ASSUME NEW k \in 2 .. (i + 1) - 1 PROVE ~Ends(known, c, q[k])
        <4>1. k - 1 \in 1 .. i - 1 /\ (k - 1) + 1 = k
          OBVIOUS
        <4> QED BY <1>1, <2>2, <4>1
      <3>2. CASE Opens(c, q[1])
        <4>1. 1 \in 1 .. (i + 1) - 1 /\ 1 + 1 = 2
          OBVIOUS
        <4> QED BY <3>1, <3>2, <4>1 DEF DownAt
      <3>3. CASE d = c /\ ~Ends(known, c, q[1])
        <4>1. \A k \in 1 .. (i + 1) - 1 : k = 1 \/ k \in 2 .. (i + 1) - 1
          OBVIOUS
        <4> QED BY <3>1, <3>3, <4>1 DEF DownAt
      <3> QED BY <1>2, <2>2, <3>2, <3>3
    <2> QED BY <1>3, <2>1, <2>2 DEF DownAt
  <1>4. ASSUME DownAt(q, known, d, c, i + 1) PROVE DownAt(Tail(q), known, n, c, i)
    <2>1. ASSUME NEW m \in 1 .. i, \A k \in m + 1 .. (i + 1) - 1 : ~Ends(known, c, q[k])
          PROVE  \A k \in m .. i - 1 : ~Ends(known, c, Tail(q)[k])
      <3> TAKE k \in m .. i - 1
      <3>1. k + 1 \in m + 1 .. (i + 1) - 1 /\ k \in 1 .. i - 1
        OBVIOUS
      <3> QED BY <1>1, <2>1, <3>1
    <2>2. CASE \E j \in 1 .. (i + 1) - 1 : Opens(c, q[j]) /\ \A k \in j + 1 .. (i + 1) - 1 : ~Ends(known, c, q[k])
      <3>1. PICK j \in 1 .. (i + 1) - 1 : Opens(c, q[j]) /\ \A k \in j + 1 .. (i + 1) - 1 : ~Ends(known, c, q[k])
        BY <2>2
      <3>2. \A k \in j .. i - 1 : ~Ends(known, c, Tail(q)[k])
        BY <2>1, <3>1
      <3>3. CASE j = 1
        BY <1>2, <3>1, <3>2, <3>3 DEF DownAt
      <3>4. CASE j # 1
        <4>1. j - 1 \in 1 .. i - 1 /\ (j - 1) + 1 = j
          BY <3>4
        <4>2. Opens(c, Tail(q)[j - 1]) /\ \A k \in (j - 1) + 1 .. i - 1 : ~Ends(known, c, Tail(q)[k])
          BY <1>1, <3>1, <3>2, <4>1
        <4> QED BY <4>1, <4>2 DEF DownAt
      <3> QED BY <3>3, <3>4
    <2>3. CASE d = c /\ \A k \in 1 .. (i + 1) - 1 : ~Ends(known, c, q[k])
      <3>1. ~Ends(known, c, q[1]) /\ \A k \in 1 + 1 .. (i + 1) - 1 : ~Ends(known, c, q[k])
        BY <2>3
      <3>2. n = c
        BY <1>2, <2>3, <3>1
      <3>3. \A k \in 1 .. i - 1 : ~Ends(known, c, Tail(q)[k])
        BY <2>1, <3>1
      <3> QED BY <3>2, <3>3 DEF DownAt
    <2> QED BY <1>4, <2>2, <2>3 DEF DownAt
  <1> QED BY <1>3, <1>4

LEMMA InitInOrder == Init => InOrder
  <1> SUFFICES ASSUME Init PROVE InOrder
    OBVIOUS
  <1>1. /\ events = <<>> /\ newest = None /\ down = None /\ host = "idle" /\ None \notin DOMAIN ids
    BY InitTypes, ActionsAssumption DEF Init, TypeOK
  <1>2. Len(events) = 0 /\ \A c \in DOMAIN ids : ~DownThen(c, 0 + 1)
    BY <1>1, DownNow DEF DownThen
  <1> QED BY <1>1, <1>2 DEF InOrder, Rebinding

\* The keyboard: one event more, in its place.
LEMMA UserInOrder ==
    Calm /\ TypeOK /\ Registered /\ Rebinds /\ Releases /\ InOrder /\ (Press \/ AutoRepeat \/ Release) => InOrder'
  <1> SUFFICES ASSUME Calm, TypeOK, Registered, Rebinds, Releases, InOrder, Press \/ AutoRepeat \/ Release, ~stop'
               PROVE  InOrder'
    BY DEF InOrder
  <1>1. /\ UNCHANGED <<ids, down, stop, host>> /\ host = "idle" /\ ~stop
    BY DEF Press, AutoRepeat, Release, Quick, UserOnly, table, hosting, Rebinds, Rebinding, HandsOff, TypeOK
  <1>2. DOMAIN ids \subseteq grabbed /\ DOMAIN ids \subseteq Combos /\ None \notin DOMAIN ids
    BY <1>1, ActionsAssumption DEF Registered, TypeOK
  <1>3. events \in Seq(Events) /\ Len(events) \in Nat
    BY DEF TypeOK, Events
  <1>4. \A c \in DOMAIN ids :
           /\ \A i \in 1 .. Len(events) : Opens(c, events[i]) => (events[i].kind = "again" <=> DownThen(c, i))
           /\ c \notin keys => ~DownThen(c, Len(events) + 1)
           /\ newest = c => DownThen(c, Len(events) + 1)
    BY <1>1 DEF InOrder
  <1>5. SUFFICES \A c \in DOMAIN ids :
                    /\ \A i \in 1 .. Len(events') :
                          Opens(c, events'[i]) => (events'[i].kind = "again" <=> DownAt(events', DOMAIN ids, down, c, i))
                    /\ c \notin keys' => ~DownAt(events', DOMAIN ids, down, c, Len(events') + 1)
                    /\ newest' = c => DownAt(events', DOMAIN ids, down, c, Len(events') + 1)
    BY <1>1 DEF InOrder, Rebinding, DownThen, Opens
  <1> DEFINE n == Len(events) + 1
             K == DOMAIN ids
  <1>6. ASSUME NEW e \in Events, events' = Append(events, e),
               \A c \in K :
                  /\ Opens(c, e) => (e.kind = "again" <=> DownThen(c, n))
                  /\ c \notin keys' => ~(Opens(c, e) \/ (DownThen(c, n) /\ ~Ends(K, c, e)))
                  /\ newest' = c => Opens(c, e) \/ (DownThen(c, n) /\ ~Ends(K, c, e))
        PROVE  \A c \in K :
                  /\ \A i \in 1 .. Len(events') :
                        Opens(c, events'[i]) => (events'[i].kind = "again" <=> DownAt(events', K, down, c, i))
                  /\ c \notin keys' => ~DownAt(events', K, down, c, Len(events') + 1)
                  /\ newest' = c => DownAt(events', K, down, c, Len(events') + 1)
    <2> TAKE c \in K
    <2>1. Len(events') = n /\ events'[n] = e /\ n \in Nat \ {0} /\ \A i \in 1 .. Len(events) : events'[i] = events[i]
      BY <1>3, <1>6
    <2>2. \A i \in 1 .. Len(events) + 1 : DownAt(events', K, down, c, i) <=> DownThen(c, i)
      BY <1>3, <1>6, DownGrows DEF DownThen
    <2>3. n \in 1 .. Len(events) + 1
      BY <1>3
    <2>4. DownAt(events', K, down, c, n + 1) <=> Opens(c, e) \/ (DownThen(c, n) /\ ~Ends(K, c, e))
      <3>1. DownAt(events', K, down, c, n + 1) <=> Opens(c, events'[n]) \/ (DownAt(events', K, down, c, n) /\ ~Ends(K, c, events'[n]))
        BY <2>1, DownNext
      <3> QED BY <2>1, <2>2, <2>3, <3>1
    <2>5. \A i \in 1 .. n : Opens(c, events'[i]) => (events'[i].kind = "again" <=> DownAt(events', K, down, c, i))
      <3> TAKE i \in 1 .. n
      <3>1. CASE i \in 1 .. Len(events)
        BY <1>3, <1>4, <2>1, <2>2, <3>1
      <3>2. CASE i = n
        BY <1>6, <2>1, <2>2, <2>3, <3>2
      <3> QED BY <1>3, <3>1, <3>2
    <2> HIDE DEF n, K
    <2> QED BY <1>6, <2>1, <2>4, <2>5
  <1>7. ASSUME UNCHANGED events,
               \A c \in K : (c \notin keys' => c \notin keys) /\ (newest' = c => newest = c)
        PROVE  \A c \in K :
                  /\ \A i \in 1 .. Len(events') :
                        Opens(c, events'[i]) => (events'[i].kind = "again" <=> DownAt(events', K, down, c, i))
                  /\ c \notin keys' => ~DownAt(events', K, down, c, Len(events') + 1)
                  /\ newest' = c => DownAt(events', K, down, c, Len(events') + 1)
    BY <1>4, <1>7 DEF DownThen
  <1>8. CASE Press
    <2>1. PICK c \in Combos \ keys : keys' = keys \cup {c} /\ newest' = c /\ Deliver(Event(c, "press"))
      BY <1>8 DEF Press
    <2> DEFINE e == Event(c, "press")
    <2>2. e \in Events /\ e.combo = c /\ IsPress(e) /\ e.kind = "press"
      BY DEF Event, Events, IsPress
    <2>3. CASE c \in grabbed
      <3>1. events' = Append(events, e)
        BY <2>1, <2>2, <2>3 DEF Deliver
      <3>2. ASSUME NEW b \in K
            PROVE  /\ Opens(b, e) => (e.kind = "again" <=> DownThen(b, n))
                   /\ b \notin keys' => ~(Opens(b, e) \/ (DownThen(b, n) /\ ~Ends(K, b, e)))
                   /\ newest' = b => Opens(b, e) \/ (DownThen(b, n) /\ ~Ends(K, b, e))
        <4>1. b \notin keys => ~DownThen(b, n)
          BY <1>4
        <4> HIDE DEF e, n, K
        <4> QED BY <2>1, <2>2, <4>1 DEF Opens
      <3> HIDE DEF e, n, K
      <3> QED BY <1>6, <2>2, <3>1, <3>2 DEF K
    <2>4. CASE c \notin grabbed
      <3>1. UNCHANGED events /\ c \notin K
        BY <1>2, <2>1, <2>2, <2>4 DEF Deliver
      <3> QED BY <1>7, <2>1, <3>1
    <2> QED BY <2>3, <2>4
  <1>9. CASE AutoRepeat
    <2>1. UNCHANGED <<keys, newest>> /\ newest # None /\ Deliver(Event(newest, "again"))
      BY <1>9 DEF AutoRepeat
    <2> DEFINE e == Event(newest, "again")
    <2>2. e \in Events /\ e.combo = newest /\ IsPress(e) /\ e.kind = "again" /\ newest \in keys
      BY <2>1 DEF Event, Events, IsPress, TypeOK
    <2>3. CASE newest \in grabbed
      <3>1. events' = Append(events, e)
        BY <2>1, <2>2, <2>3 DEF Deliver
      <3>2. ASSUME NEW b \in K
            PROVE  /\ Opens(b, e) => (e.kind = "again" <=> DownThen(b, n))
                   /\ b \notin keys' => ~(Opens(b, e) \/ (DownThen(b, n) /\ ~Ends(K, b, e)))
                   /\ newest' = b => Opens(b, e) \/ (DownThen(b, n) /\ ~Ends(K, b, e))
        <4>1. (b \notin keys => ~DownThen(b, n)) /\ (newest = b => DownThen(b, n))
          BY <1>4
        <4> HIDE DEF e, n, K
        <4> QED BY <2>1, <2>2, <4>1 DEF Opens
      <3> HIDE DEF e, n, K
      <3> QED BY <1>6, <2>2, <3>1, <3>2 DEF K
    <2>4. CASE newest \notin grabbed
      <3>1. UNCHANGED events
        BY <2>1, <2>2, <2>4 DEF Deliver
      <3> QED BY <1>7, <2>1, <3>1
    <2> QED BY <2>3, <2>4
  <1>10. CASE Release
    <2>1. PICK c \in keys : /\ keys' = keys \ {c} /\ newest' = IF newest = c THEN None ELSE newest
                            /\ events' = IF c \in heard THEN Append(events, Event(c, "release")) ELSE events
      BY <1>10 DEF Release
    <2> DEFINE e == Event(c, "release")
    <2>2. e \in Events /\ e.combo = c /\ ~IsPress(e)
      BY DEF Event, Events, IsPress, TypeOK
    <2>3. CASE c \in heard
      <3>1. events' = Append(events, e)
        BY <2>1, <2>3
      <3>2. ASSUME NEW b \in K
            PROVE  /\ Opens(b, e) => (e.kind = "again" <=> DownThen(b, n))
                   /\ b \notin keys' => ~(Opens(b, e) \/ (DownThen(b, n) /\ ~Ends(K, b, e)))
                   /\ newest' = b => Opens(b, e) \/ (DownThen(b, n) /\ ~Ends(K, b, e))
        <4>1. (b \notin keys => ~DownThen(b, n)) /\ (newest = b => DownThen(b, n)) /\ b # None
          BY <1>2, <1>4
        <4> HIDE DEF e, n, K
        <4> QED BY <2>1, <2>2, <4>1 DEF Opens, Ends
      <3> HIDE DEF e, n, K
      <3> QED BY <1>6, <2>2, <3>1, <3>2 DEF K
    <2>4. CASE c \notin heard
      <3>1. UNCHANGED events /\ c \notin K
        BY <1>1, <1>2, <2>1, <2>4 DEF Releases
      <3> QED BY <1>2, <1>7, <2>1, <3>1
    <2> QED BY <2>3, <2>4
  <1> QED BY <1>8, <1>9, <1>10

\* The listener takes the first event: what counts as down is what would then.
LEMMA TakeInOrder == TypeOK /\ Rebinds /\ InOrder /\ Take => InOrder'
  <1> SUFFICES ASSUME TypeOK, Rebinds, InOrder, Take PROVE InOrder'
    OBVIOUS
  <1> DEFINE K == DOMAIN ids
             e == Head(events)
  <1>1. /\ UNCHANGED <<ids, keys, newest, stop, host>> /\ ~stop /\ events # <<>> /\ events' = Tail(events)
    BY DEF Take, table, platform, hosting
  <1>2. /\ events \in Seq(Events) /\ Len(events) \in Nat \ {0} /\ Len(events') = Len(events) - 1
        /\ e = events[1] /\ e \in Events /\ \A i \in 1 .. Len(events') : events'[i] = events[i + 1]
    BY <1>1, TakenEvents DEF TypeOK, Events, Take, platform
  <1>3. ~Rebinding
    BY <1>1 DEF Rebinds, HandsOff
  <1>4. /\ down \in K \cup {None} /\ None \notin K
        /\ \A c \in K :
              /\ \A i \in 1 .. Len(events) : Opens(c, events[i]) => (events[i].kind = "again" <=> DownThen(c, i))
              /\ c \notin keys => ~DownThen(c, Len(events) + 1)
              /\ newest = c => DownThen(c, Len(events) + 1)
    BY <1>1, ActionsAssumption DEF InOrder, TypeOK
  <1>5. /\ e.combo \notin K => UNCHANGED down
        /\ e.combo \in K /\ IsPress(e) => down' = e.combo
        /\ e.combo \in K /\ ~IsPress(e) => down' = IF down = e.combo THEN None ELSE down
    BY DEF Take, OnPress, OnRelease
  <1>6. ASSUME NEW c \in K
        PROVE  down' = c <=> Opens(c, e) \/ (down = c /\ ~Ends(K, c, e))
    BY <1>4, <1>5 DEF Opens, Ends
  <1>7. ASSUME NEW c \in K, NEW i \in 1 .. Len(events)
        PROVE  DownAt(events', K, down', c, i) <=> DownThen(c, i + 1)
    <2>1. PICK m : m = down'
      OBVIOUS
    <2>2. DownAt(events, K, down, c, 1 + 1) <=> Opens(c, e) \/ (down = c /\ ~Ends(K, c, e))
      <3>1. DownAt(events, K, down, c, 1 + 1) <=> Opens(c, events[1]) \/ (DownAt(events, K, down, c, 1) /\ ~Ends(K, c, events[1]))
        BY DownNext
      <3> QED BY <1>2, <3>1, DownNow
    <2>3. m = c <=> DownAt(events, K, down, c, 2)
      BY <1>6, <2>1, <2>2
    <2>4. DownAt(Tail(events), K, m, c, i) <=> DownAt(events, K, down, c, i + 1)
      <3> HIDE DEF K
      <3> QED BY <1>1, <1>2, <2>3, DownShifts
    <2> QED BY <1>1, <2>1, <2>4 DEF DownThen
  <1>8. ASSUME NEW c \in K
        PROVE  /\ \A i \in 1 .. Len(events') :
                     Opens(c, events'[i]) => (events'[i].kind = "again" <=> DownAt(events', K, down', c, i))
               /\ c \notin keys' => ~DownAt(events', K, down', c, Len(events') + 1)
               /\ newest' = c => DownAt(events', K, down', c, Len(events') + 1)
    <2>1. \A i \in 1 .. Len(events') : i \in 1 .. Len(events) /\ i + 1 \in 1 .. Len(events)
      BY <1>2
    <2>2. \A i \in 1 .. Len(events') :
             Opens(c, events'[i]) => (events'[i].kind = "again" <=> DownAt(events', K, down', c, i))
      <3> TAKE i \in 1 .. Len(events')
      <3>1. events'[i] = events[i + 1] /\ i \in 1 .. Len(events) /\ i + 1 \in 1 .. Len(events)
        BY <1>2, <2>1
      <3>2. Opens(c, events[i + 1]) => (events[i + 1].kind = "again" <=> DownThen(c, i + 1))
        BY <1>4, <3>1
      <3>3. DownAt(events', K, down', c, i) <=> DownThen(c, i + 1)
        BY <1>7, <3>1
      <3> QED BY <3>1, <3>2, <3>3
    <2>3. DownAt(events', K, down', c, Len(events') + 1) <=> DownThen(c, Len(events) + 1)
      <3>1. Len(events') + 1 = Len(events) /\ Len(events) \in 1 .. Len(events)
        BY <1>2
      <3> QED BY <1>7, <3>1
    <2> QED BY <1>1, <1>4, <2>2, <2>3
  <1>9. down' \in K \cup {None}
    BY <1>4, <1>5
  <1> QED BY <1>1, <1>3, <1>8, <1>9 DEF InOrder, Rebinding, DownThen, Opens

LEMMA StepInOrder ==
    Calm /\ TypeOK /\ Collects /\ Registered /\ Rebinds /\ Releases /\ InOrder /\ [Next]_vars => InOrder'
  <1> SUFFICES ASSUME Calm, TypeOK, Collects, Registered, Rebinds, Releases, InOrder, [Next]_vars PROVE InOrder'
    OBVIOUS
  <1>1. ASSUME UNCHANGED <<events, keys, newest, ids, down, stop>>, Rebinding' => Rebinding PROVE InOrder'
    BY <1>1 DEF InOrder, DownThen
  <1>2. CASE ListenerStores \/ ListenerEnds \/ WorkerWakes \/ WorkerStep \/ UNCHANGED vars
    BY <1>1, <1>2 DEF ListenerStores, ListenerEnds, WorkerWakes, WorkerStep, WorkerTop, WorkerChecks, WorkerSleeps,
       WorkerArms, WorkerTimesOut, WorkerLooks, WorkerFetches, WorkerOnly, platform, hosting, table, vars, Rebinding
  <1>3. CASE HostStores \/ Stopped \/ Unregister \/ Unregistered \/ Register \/ Drain \/ Joined
    BY <1>1, <1>3 DEF HostStores, Stopped, Unregister, Unregistered, Register, Drain, Joined, HostOnly, hosting,
       table, Rebinding
  <1>4. CASE SetBindings
    <2>1. /\ keys = {} /\ events = <<>> /\ UNCHANGED <<events, keys, newest, ids, down, stop>>
      BY <1>4 DEF SetBindings, HandsOff, HostOnly, table
    <2>2. ~stop => down = None
      <3>1. Len(events) = 0
        BY <2>1
      <3>2. ~stop => \A c \in DOMAIN ids : ~DownThen(c, 0 + 1)
        BY <2>1, <3>1 DEF InOrder
      <3>3. \A c \in DOMAIN ids : DownThen(c, 1) <=> down = c
        BY DownNow DEF DownThen
      <3> QED BY <3>2, <3>3 DEF InOrder
    <2> QED BY <2>1, <2>2 DEF InOrder, DownThen
  <1>5. CASE Publish
    <2>1. /\ UNCHANGED <<events, keys, newest, down, stop>> /\ keys = {} /\ events = <<>> /\ ~Rebinding'
          /\ ~stop => down = None
      BY <1>5 DEF Publish, HostOnly, Rebinds, HandsOff, InOrder, Rebinding
    <2>2. newest = None
      BY <2>1 DEF TypeOK
    <2>3. None \notin DOMAIN ids'
      BY StepTypes, ActionsAssumption DEF TypeOK
    <2>4. Len(events') = 0
      BY <2>1
    <2>5. ~stop => \A c \in DOMAIN ids' : ~DownThen(c, 0 + 1)'
      <3>1. \A k, c : DownAt(events, k, down, c, 1) <=> down = c
        BY DownNow
      <3>2. \A c \in DOMAIN ids' : ~stop => ~DownAt(events, DOMAIN ids', down, c, 1)
        BY <2>1, <2>3, <3>1
      <3> QED BY <2>1, <3>2 DEF DownThen
    <2> QED BY <2>1, <2>2, <2>3, <2>4, <2>5 DEF InOrder
  <1>6. CASE Drop
    BY <1>6 DEF Drop, InOrder
  <1> QED
    BY <1>2, <1>3, <1>4, <1>5, <1>6, TakeInOrder, UserInOrder DEF Next, ListenerStep, HostStep

\* Only taking an event shortens the queue.
LEMMA OnlyTakeTakes ==
    ASSUME TypeOK, [Next]_vars, events # <<>>, events' = Tail(events)
    PROVE  Take
  <1>1. events \in Seq(Events) /\ Len(events') = Len(events) - 1 /\ Len(events) \in Nat
    BY DEF TypeOK, Events
  <1>2. CASE UNCHANGED events
    BY <1>1, <1>2
  <1>3. CASE Press \/ AutoRepeat \/ Release
    <2>1. Len(events') \in {Len(events), Len(events) + 1}
      BY <1>3, UserEvents
    <2>2. PICK n \in Nat, m \in {Len(events')} : n = Len(events) /\ m = Len(events')
      BY <1>1
    <2>3. m = n - 1 /\ m \in {n, n + 1}
      BY <1>1, <2>1, <2>2, Zenon
    <2> QED BY <2>3
  <1> QED
    BY <1>2, <1>3 DEF Next, ListenerStep, HostStep, ListenerStores, ListenerEnds, WorkerWakes, WorkerStep, WorkerTop,
       WorkerChecks, WorkerSleeps, WorkerArms, WorkerTimesOut, WorkerLooks, WorkerFetches, WorkerOnly, SetBindings,
       HostStores, Stopped, Unregister, Unregistered, Register, Publish, Drain, Drop, Joined, HostOnly, vars

\* on_event tells a press from the auto-repeats of the system: a press of a known
\* combination sends its action once and its auto-repeats send nothing, however many other
\* keys are pressed and released meanwhile and however late the listener takes the events.
\* For shortcuts that change only with hands off the keyboard.
THEOREM PressesActOnce == ASSUME Calm PROVE Spec => OnePressOneAction
  <1> DEFINE Inv == TypeOK /\ Collects /\ Registered /\ Rebinds /\ Releases /\ InOrder
  <1>1. Init => Inv
    BY InitTypes, InitRegistered, InitCalm, InitInOrder
  <1>2. Inv /\ [Next]_vars => Inv'
    BY StepTypes, StepRegistered, StepRebinds, StepReleases, StepInOrder
  <1>3. Inv /\ [Next]_vars =>
          [listener = <<>> /\ events # <<>> /\ events' = Tail(events)
             /\ Head(events).combo \in DOMAIN ids /\ IsPress(Head(events))
           => (listener' # <<>> <=> Head(events).kind = "press")]_vars
    <2> DEFINE e == Head(events)
    <2> SUFFICES ASSUME Inv, [Next]_vars, events # <<>>, events' = Tail(events), e.combo \in DOMAIN ids, IsPress(e)
                 PROVE  listener' # <<>> <=> e.kind = "press"
      OBVIOUS
    <2>1. Take
      BY OnlyTakeTakes
    <2>2. ~stop /\ e = events[1] /\ 1 \in 1 .. Len(events)
      BY <2>1 DEF Take, TypeOK
    <2>3. e.kind = "again" <=> down = e.combo
      <3>1. Opens(e.combo, events[1]) => (events[1].kind = "again" <=> DownThen(e.combo, 1))
        BY <2>2 DEF InOrder
      <3>2. DownThen(e.combo, 1) <=> down = e.combo
        BY DownNow DEF DownThen
      <3> QED BY <2>2, <3>1, <3>2 DEF Opens
    <2>4. listener' = IF down = e.combo THEN <<>>
                      ELSE (IF ids[e.combo] \in VolumeActions THEN Start(e.combo, ids[e.combo]) ELSE <<>>)
                             \o <<Send(ids[e.combo])>>
      BY <2>1 DEF Take, OnPress
    <2>5. \A c, a : Start(c, a) \o <<Send(a)>> # <<>> /\ <<>> \o <<Send(a)>> # <<>>
      BY DEF Start
    <2> QED BY <2>3, <2>4, <2>5 DEF IsPress
  <1> QED BY <1>1, <1>2, <1>3, PTL DEF Spec, OnePressOneAction
=============================================================================
