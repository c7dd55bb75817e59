--------------------------- MODULE EguiHost_proofs ---------------------------
(***************************************************************************)
(* Theorems about the frames of the egui host, for any number of inputs and *)
(* failing sound actions.                                                   *)
(***************************************************************************)
EXTENDS EguiHost, SequenceTheorems, TLAPS

Looks == [vis : SUBSET Surfaces, root : BOOLEAN, until : {"none", "armed", "due"},
          vol : Levels, over : BOOLEAN]
Events == [kind : {"volume", "overlay"}, arg : Levels] \cup [kind : {"open", "close"}, arg : Modals]
          \cup [kind : {"toggle"}, arg : {"mixer"}]

UiTyped == ui \in Looks
QueueTyped == queue \in Seq(Events)
SoundTyped == device \in Levels /\ cache \in Levels /\ lost \in BOOLEAN /\ faults \in 0..MaxFaults
FrameTyped ==
    /\ pc \in {"idle", "drain", "keys", "sync", "reload", "boot", "wheel", "launch", "tray", "root",
               "mixer", "children", "popup", "hud", "end"}
    /\ root \in [shown : BOOLEAN, seen : BOOLEAN, close : {"no", "sent", "now"}]
    /\ popup \in [open : BOOLEAN, seen : BOOLEAN]
    /\ exit \in [quitting : BOOLEAN, gone : BOOLEAN]
    /\ demo \in BOOLEAN /\ parkedClose \in BOOLEAN
WorldTyped ==
    /\ focus \in Modals \cup {"elsewhere", "popup"} /\ inputs \in 0..MaxInputs
    /\ keys \in Seq({"mixer", "volume", "menu"}) /\ clicks \in Seq({"left", "right"}) /\ wake \in BOOLEAN
Typed == UiTyped /\ QueueTyped /\ SoundTyped /\ FrameTyped /\ WorldTyped

-----------------------------------------------------------------------------
(* What an event does to the surfaces, and what the queue tells.             *)

\* Every event leads from surfaces to surfaces.
LEMMA HandleTypes == ASSUME NEW u \in Looks, NEW e \in Events PROVE Handle(u, e) \in Looks
<1>1. CASE e.kind \in {"volume", "overlay"}
  BY <1>1 DEF Handle, VolumeEvent, Hud, Looks, Events, Surfaces
<1>2. CASE e.kind = "open"
  BY <1>2 DEF Handle, Exclusive, Looks, Events, Surfaces, Modals
<1>3. CASE e.kind = "close"
  BY <1>3 DEF Handle, CloseSurface, Hide, Looks, Events, Surfaces
<1>4. CASE e.kind = "toggle"
  BY <1>4 DEF Handle, ToggleMixer, Looks, Events, Surfaces, Modals
<1> QED BY <1>1, <1>2, <1>3, <1>4 DEF Events

\* The mixer is listed with its root, and only a root whose parking is queued is there without it.
Follows(u, q) ==
    /\ "mixer" \in u.vis => u.root
    /\ u.root /\ "mixer" \notin u.vis => \E i \in 1..Len(q) : q[i] = Event("close", "mixer")
Alone(u) == u.over \/ \A a, b \in u.vis \cap Modals : a = b

\* The last event that tells the volume tells c, and without one v is c.
Tells(e) == e.kind \in {"volume", "overlay"}
Told(q, v, c) ==
    /\ \A i \in 1..Len(q) : Tells(q[i]) /\ (\A j \in (i + 1)..Len(q) : ~Tells(q[j])) => q[i].arg = c
    /\ (\A i \in 1..Len(q) : ~Tells(q[i])) => v = c

\* An event keeps the root with the mixer.
LEMMA HandleFollows ==
    ASSUME NEW u \in Looks, NEW q \in Seq(Events), q # <<>>, Follows(u, q)
    PROVE  Follows(Handle(u, Head(q)), Tail(q))
<1> DEFINE e == Head(q)
<1>0. e \in Events /\ e = q[1] /\ Len(q) \in Nat \ {0} /\ Len(Tail(q)) = Len(q) - 1
      /\ \A i \in 1..Len(Tail(q)) : Tail(q)[i] = q[i + 1]
  BY DEF Events
<1>1. CASE e.kind \in {"volume", "overlay"}
  <2>1. e # Event("close", "mixer")
    BY <1>1 DEF Event
  <2>2. u.root /\ "mixer" \notin u.vis => \E i \in 1..Len(Tail(q)) : Tail(q)[i] = Event("close", "mixer")
    <3> SUFFICES ASSUME u.root, "mixer" \notin u.vis
                 PROVE  \E i \in 1..Len(Tail(q)) : Tail(q)[i] = Event("close", "mixer")
      OBVIOUS
    <3>1. PICK i \in 1..Len(q) : q[i] = Event("close", "mixer")
      BY DEF Follows
    <3>2. i # 1 /\ i - 1 \in 1..Len(Tail(q)) /\ (i - 1) + 1 = i
      BY <1>0, <2>1, <3>1
    <3> QED BY <1>0, <3>1, <3>2
  <2>3. /\ "mixer" \in Handle(u, e).vis <=> "mixer" \in u.vis
        /\ Handle(u, e).root = u.root
    BY <1>1 DEF Handle, VolumeEvent, Hud, Looks
  <2> QED BY <2>2, <2>3 DEF Follows
<1>2. CASE e.kind = "open"
  BY <1>0, <1>2 DEF Handle, Exclusive, Looks, Events, Modals, Follows
<1>3. CASE e.kind = "close" /\ e.arg = "mixer"
  BY <1>3 DEF Handle, CloseSurface, Hide, Looks, Follows
<1>4. CASE e.kind = "close" /\ e.arg # "mixer"
  <2>1. e # Event("close", "mixer")
    BY <1>4 DEF Event
  <2>2. u.root /\ "mixer" \notin u.vis => \E i \in 1..Len(Tail(q)) : Tail(q)[i] = Event("close", "mixer")
    <3> SUFFICES ASSUME u.root, "mixer" \notin u.vis
                 PROVE  \E i \in 1..Len(Tail(q)) : Tail(q)[i] = Event("close", "mixer")
      OBVIOUS
    <3>1. PICK i \in 1..Len(q) : q[i] = Event("close", "mixer")
      BY DEF Follows
    <3>2. i # 1 /\ i - 1 \in 1..Len(Tail(q)) /\ (i - 1) + 1 = i
      BY <1>0, <2>1, <3>1
    <3> QED BY <1>0, <3>1, <3>2
  <2>3. /\ "mixer" \in Handle(u, e).vis <=> "mixer" \in u.vis
        /\ Handle(u, e).root = u.root
    BY <1>4 DEF Handle, CloseSurface, Hide, Looks
  <2> QED BY <2>2, <2>3 DEF Follows
<1>5. CASE e.kind = "toggle"
  BY <1>5 DEF Handle, ToggleMixer, Looks, Follows
<1> QED BY <1>0, <1>1, <1>2, <1>3, <1>4, <1>5 DEF Events

\* An event puts no second modal surface beside one, unless it says so.
LEMMA HandleAlone == ASSUME NEW u \in Looks, NEW e \in Events, Alone(u) PROVE Alone(Handle(u, e))
<1>1. CASE e.kind \in {"volume", "overlay"}
  BY <1>1 DEF Handle, VolumeEvent, Hud, Looks, Alone, Modals
<1>2. CASE e.kind = "open"
  BY <1>2 DEF Handle, Exclusive, Looks, Alone, Modals
<1>3. CASE e.kind = "close"
  <2>1. Handle(u, e) = CloseSurface(u, e)
    BY <1>3 DEF Handle
  <2>2. CloseSurface(u, e).vis \subseteq u.vis /\ CloseSurface(u, e).over = u.over
    BY DEF CloseSurface, Hide, Looks
  <2> QED BY <2>1, <2>2 DEF Alone
<1>4. CASE e.kind = "toggle"
  <2>1. Handle(u, e) = ToggleMixer(u)
    BY <1>4 DEF Handle
  <2>2. CASE "mixer" \in u.vis
    <3>1. ToggleMixer(u).vis \subseteq u.vis /\ ToggleMixer(u).over = u.over
      BY <2>2 DEF ToggleMixer, Looks
    <3> QED BY <2>1, <3>1 DEF Alone
  <2>3. CASE "mixer" \notin u.vis /\ u.vis \cap Modals = {}
    <3>1. ToggleMixer(u).vis = u.vis \cup {"mixer"}
      BY <2>3 DEF ToggleMixer, Looks
    <3>2. \A a \in ToggleMixer(u).vis \cap Modals : a = "mixer"
      BY <2>3, <3>1
    <3> QED BY <2>1, <3>2 DEF Alone
  <2>4. CASE "mixer" \notin u.vis /\ u.vis \cap Modals # {}
    <3>1. ToggleMixer(u).over
      BY <2>4 DEF ToggleMixer, Looks
    <3> QED BY <2>1, <3>1 DEF Alone
  <2> QED BY <2>2, <2>3, <2>4
<1> QED BY <1>1, <1>2, <1>3, <1>4 DEF Events

\* The volume shown comes from the events that tell it, and from nothing else in the queue.
LEMMA HandleVolume ==
    ASSUME NEW u \in Looks, NEW e \in Events
    PROVE  Handle(u, e).vol = IF Tells(e) THEN e.arg ELSE u.vol
<1>1. CASE e.kind \in {"volume", "overlay"}
  BY <1>1 DEF Handle, VolumeEvent, Hud, Looks, Tells
<1>2. CASE e.kind = "open"
  BY <1>2 DEF Handle, Exclusive, Looks, Tells
<1>3. CASE e.kind = "close"
  BY <1>3 DEF Handle, CloseSurface, Hide, Looks, Tells
<1>4. CASE e.kind = "toggle"
  BY <1>4 DEF Handle, ToggleMixer, Looks, Tells
<1> QED BY <1>1, <1>2, <1>3, <1>4 DEF Events

\* Taking the head of the queue over leaves the rest to tell the same.
LEMMA ToldLater ==
    ASSUME NEW q \in Seq(Events), q # <<>>, NEW v, NEW c, Told(q, v, c)
    PROVE  Told(Tail(q), IF Tells(Head(q)) THEN Head(q).arg ELSE v, c)
<1> DEFINE w == IF Tells(Head(q)) THEN Head(q).arg ELSE v
<1>0. Head(q) = q[1] /\ Len(q) \in Nat \ {0} /\ Len(Tail(q)) = Len(q) - 1
      /\ \A i \in 1..Len(Tail(q)) : Tail(q)[i] = q[i + 1]
  OBVIOUS
<1>1. ASSUME NEW i \in 1..Len(Tail(q)), Tells(Tail(q)[i]),
             \A j \in (i + 1)..Len(Tail(q)) : ~Tells(Tail(q)[j])
      PROVE  Tail(q)[i].arg = c
  <2>1. i + 1 \in 1..Len(q) /\ Tells(q[i + 1]) /\ q[i + 1] = Tail(q)[i]
    BY <1>0, <1>1
  <2>2. ASSUME NEW j \in (i + 2)..Len(q) PROVE ~Tells(q[j])
    <3>1. j - 1 \in (i + 1)..Len(Tail(q)) /\ j - 1 \in 1..Len(Tail(q)) /\ (j - 1) + 1 = j
      BY <1>0
    <3> QED BY <1>0, <1>1, <3>1
  <2>3. (i + 1) + 1 = i + 2
    OBVIOUS
  <2> QED BY <2>1, <2>2, <2>3 DEF Told
<1>2. ASSUME \A i \in 1..Len(Tail(q)) : ~Tells(Tail(q)[i]) PROVE w = c
  <2>1. ASSUME NEW j \in 2..Len(q) PROVE ~Tells(q[j])
    <3>1. j - 1 \in 1..Len(Tail(q)) /\ (j - 1) + 1 = j
      BY <1>0
    <3> QED BY <1>0, <1>2, <3>1
  <2>2. CASE Tells(Head(q))
    <3>1. 1 \in 1..Len(q) /\ (\A j \in (1 + 1)..Len(q) : ~Tells(q[j]))
      BY <1>0, <2>1
    <3> QED BY <1>0, <2>2, <3>1 DEF Told
  <2>3. CASE ~Tells(Head(q))
    <3>1. \A j \in 1..Len(q) : j = 1 \/ j \in 2..Len(q)
      BY <1>0
    <3> QED BY <1>0, <2>1, <2>3, <3>1 DEF Told
  <2> QED BY <2>2, <2>3
<1> QED BY <1>1, <1>2 DEF Told

\* An event that tells the volume settles what the queue tells.
LEMMA ToldAnew ==
    ASSUME NEW q \in Seq(Events), NEW e \in Events, Tells(e), NEW v
    PROVE  Told(Append(q, e), v, e.arg)
<1>0. Len(q) \in Nat /\ Len(Append(q, e)) = Len(q) + 1 /\ Append(q, e)[Len(q) + 1] = e
  OBVIOUS
<1>1. ASSUME NEW i \in 1..(Len(q) + 1), \A j \in (i + 1)..(Len(q) + 1) : ~Tells(Append(q, e)[j])
      PROVE  Append(q, e)[i].arg = e.arg
  <2>1. i = Len(q) + 1
    BY <1>0, <1>1
  <2> QED BY <1>0, <2>1
<1>2. Len(q) + 1 \in 1..(Len(q) + 1)
  BY <1>0
<1> QED BY <1>0, <1>1, <1>2 DEF Told

\* Any other event changes nothing of it.
LEMMA ToldStill ==
    ASSUME NEW q \in Seq(Events), NEW e \in Events, ~Tells(e), NEW v, NEW c, Told(q, v, c)
    PROVE  Told(Append(q, e), v, c)
<1>0. Len(q) \in Nat /\ Len(Append(q, e)) = Len(q) + 1 /\ Append(q, e)[Len(q) + 1] = e
      /\ \A i \in 1..Len(q) : Append(q, e)[i] = q[i]
  OBVIOUS
<1>1. ASSUME NEW i \in 1..(Len(q) + 1), Tells(Append(q, e)[i]),
             \A j \in (i + 1)..(Len(q) + 1) : ~Tells(Append(q, e)[j])
      PROVE  Append(q, e)[i].arg = c
  <2>1. i \in 1..Len(q)
    BY <1>0, <1>1
  <2>2. \A j \in (i + 1)..Len(q) : j \in (i + 1)..(Len(q) + 1) /\ j \in 1..Len(q)
    BY <1>0, <2>1
  <2> QED BY <1>0, <1>1, <2>1, <2>2 DEF Told
<1>2. ASSUME \A i \in 1..(Len(q) + 1) : ~Tells(Append(q, e)[i]) PROVE v = c
  <2>1. \A i \in 1..Len(q) : i \in 1..(Len(q) + 1)
    BY <1>0
  <2> QED BY <1>0, <1>2, <2>1 DEF Told
<1> QED BY <1>0, <1>1, <1>2 DEF Told

\* What the core and the surfaces queue.
LEMMA Queued ==
    ASSUME NEW q \in Seq(Events)
    PROVE  /\ \A v \in Levels : q \o Published(v) \in Seq(Events)
                               /\ q \o Published(v) = Append(Append(q, Event("volume", v)), Event("overlay", v))
           /\ \A s \in Modals : /\ q \o Opens(s) = Append(q, Event("open", s))
                              /\ q \o Closes(s) = Append(q, Event("close", s))
           /\ \A v \in Levels : Event("volume", v) \in Events /\ Event("overlay", v) \in Events
           /\ \A s \in Modals : Event("open", s) \in Events /\ Event("close", s) \in Events
           /\ Event("toggle", "mixer") \in Events
<1>1. /\ \A v \in Levels : Event("volume", v) \in Events /\ Event("overlay", v) \in Events
      /\ \A s \in Modals : Event("open", s) \in Events /\ Event("close", s) \in Events
      /\ Event("toggle", "mixer") \in Events
  BY DEF Event, Events
<1>2. ASSUME NEW e \in Events PROVE q \o <<e>> = Append(q, e)
  BY <1>2
<1>3. ASSUME NEW e \in Events, NEW f \in Events
      PROVE  q \o <<e, f>> \in Seq(Events) /\ q \o <<e, f>> = Append(Append(q, e), f)
  OBVIOUS
<1> QED BY <1>1, <1>2, <1>3 DEF Published, Opens, Closes

-----------------------------------------------------------------------------
(* The invariant.                                                            *)

\* A close request that nobody cancels reaches the end of a frame only while the program is quitting.
Stays ==
    \/ exit.quitting \/ parkedClose
    \/ ~exit.gone /\ (pc \in {"children", "popup", "hud", "end"} => root.close # "now")
Parked == exit.quitting \/ Follows(ui, queue)
Mirrored == lost \/ Told(queue, ui.vol, cache)
EguiInv == Typed /\ Parked /\ Alone(ui) /\ Mirrored /\ Stays

-----------------------------------------------------------------------------
(* What the core's answers leave in the queue.                               *)

More(q, r) == \A e \in Events : (\E i \in 1..Len(q) : q[i] = e) => \E i \in 1..Len(r) : r[i] = e
Speaks == SoundTyped' /\ QueueTyped' /\ More(queue, queue')
\* The volume is told, or nobody answered.
Settles == lost' \/ \A v : Told(queue', v, cache')
\* The volume is not spoken of.
Waits == lost' = lost /\ cache' = cache /\ \A v : Told(queue, v, cache) => Told(queue', v, cache)

LEMMA AppendKeeps == ASSUME NEW q \in Seq(Events), NEW e \in Events
                     PROVE  /\ Append(q, e) \in Seq(Events) /\ More(q, Append(q, e))
                            /\ \E i \in 1..Len(Append(q, e)) : Append(q, e)[i] = e
<1>1. Len(q) \in Nat /\ Len(Append(q, e)) = Len(q) + 1 /\ Append(q, e)[Len(q) + 1] = e
      /\ \A i \in 1..Len(q) : Append(q, e)[i] = q[i]
  OBVIOUS
<1>2. \A i \in 1..Len(q) : i \in 1..(Len(q) + 1)
  BY <1>1
<1>3. Len(q) + 1 \in 1..(Len(q) + 1)
  BY <1>1
<1>4. Append(q, e) \in Seq(Events)
  OBVIOUS
<1> QED BY <1>1, <1>2, <1>3, <1>4 DEF More

LEMMA PublishedKeeps ==
    ASSUME NEW q \in Seq(Events), NEW v \in Levels
    PROVE  /\ q \o Published(v) \in Seq(Events) /\ More(q, q \o Published(v))
           /\ \A w : Told(q \o Published(v), w, v)
<1> DEFINE e == Event("volume", v)
           f == Event("overlay", v)
<1>1. e \in Events /\ f \in Events /\ q \o Published(v) = Append(Append(q, e), f)
  BY Queued
<1>2. Append(q, e) \in Seq(Events) /\ Append(Append(q, e), f) \in Seq(Events)
      /\ More(q, Append(q, e)) /\ More(Append(q, e), Append(Append(q, e), f))
  BY <1>1, AppendKeeps
<1>3. Tells(f) /\ f.arg = v
  BY DEF Tells, Event
<1>4. \A w : Told(Append(Append(q, e), f), w, f.arg)
  BY <1>1, <1>2, <1>3, ToldAnew
<1>5. More(q, Append(Append(q, e), f))
  BY <1>2 DEF More
<1> QED BY <1>1, <1>2, <1>3, <1>4, <1>5

LEMMA SoundSpeaks == ASSUME Typed, NEW v \in Levels, Sound(v) PROVE Speaks /\ Settles
<1> USE DEF Typed, SoundTyped, QueueTyped, Speaks, Settles
<1>1. CASE Done(v)
  BY <1>1, PublishedKeeps DEF Done
<1>2. CASE Refused
  <2>1. faults' \in 0..MaxFaults
    BY <1>2, BoundsAssumption DEF Refused
  <2> QED BY <1>2, <2>1, PublishedKeeps DEF Refused
<1>3. CASE NoAnswer
  <2>1. faults' \in 0..MaxFaults
    BY <1>3, BoundsAssumption DEF NoAnswer
  <2> QED BY <1>3, <2>1 DEF NoAnswer, More
<1> QED BY <1>1, <1>2, <1>3 DEF Sound

LEMMA ReadingSpeaks ==
    ASSUME Typed, cache' = device, queue' = queue \o Published(device), UNCHANGED <<device, faults, lost>>
    PROVE  Speaks /\ Settles
  BY PublishedKeeps DEF Typed, SoundTyped, QueueTyped, Speaks, Settles

LEMMA SilentSpeaks == ASSUME Typed, Silent PROVE Speaks /\ Waits
  BY DEF Typed, SoundTyped, QueueTyped, Speaks, Waits, Silent, sound, More

LEMMA OpensSpeak ==
    ASSUME Typed, NEW s \in Modals, Publish(Opens(s)) \/ Publish(Closes(s))
    PROVE  /\ Speaks /\ Waits
           /\ Publish(Closes(s)) => \E i \in 1..Len(queue') : queue'[i] = Event("close", s)
<1> DEFINE o == Event("open", s)
           c == Event("close", s)
<1>1. queue \in Seq(Events) /\ o \in Events /\ c \in Events /\ ~Tells(o) /\ ~Tells(c)
  BY DEF Typed, QueueTyped, Tells, Event, Events
<1>2. queue' = Append(queue, o) \/ queue' = Append(queue, c)
  BY <1>1, Queued DEF Publish
<1>3. Publish(Closes(s)) => queue' = Append(queue, c)
  BY <1>1, Queued DEF Publish
<1>4. queue' \in Seq(Events) /\ More(queue, queue')
  BY <1>1, <1>2, AppendKeeps
<1>5. \A v, w : Told(queue, v, w) => Told(queue', v, w)
  BY <1>1, <1>2, ToldStill
<1>6. UNCHANGED sound
  BY DEF Publish
<1>7. SoundTyped' /\ lost' = lost /\ cache' = cache
  BY <1>6 DEF Typed, SoundTyped, sound
<1> QED BY <1>1, <1>3, <1>4, <1>5, <1>7, AppendKeeps DEF Speaks, Waits, QueueTyped

\* A queue that holds more still holds the event that parks the root.
LEMMA FollowsMore == ASSUME NEW u, NEW q, NEW r, More(q, r), Follows(u, q) PROVE Follows(u, r)
<1>1. Event("close", "mixer") \in Events
  BY Queued, EmptySeq DEF Event, Events, Modals
<1> QED BY <1>1 DEF More, Follows

-----------------------------------------------------------------------------
(* What a step makes of the parts.                                           *)

\* Surfaces that only switch, hide or show what they showed.
LEMMA SurfacesKeep ==
    ASSUME NEW u \in Looks, Alone(u)
    PROVE  /\ \A s \in Modals : /\ Exclusive(u, s) \in Looks /\ Alone(Exclusive(u, s))
                              /\ Exclusive(u, s).vol = u.vol /\ \A q : Follows(Exclusive(u, s), q)
           /\ \A s \in Surfaces : Hide(u, s) \in Looks /\ Alone(Hide(u, s)) /\ Hide(u, s).vol = u.vol
           /\ \A s \in Surfaces \ {"mixer"} : \A q : Follows(u, q) => Follows(Hide(u, s), q)
           /\ Expire(u) \in Looks /\ Alone(Expire(u)) /\ Expire(u).vol = u.vol
           /\ \A q : Follows(u, q) => Follows(Expire(u), q)
<1>1. \A s \in Modals : /\ Exclusive(u, s) \in Looks /\ Alone(Exclusive(u, s))
                        /\ Exclusive(u, s).vol = u.vol /\ \A q : Follows(Exclusive(u, s), q)
  BY DEF Exclusive, Looks, Alone, Follows, Modals, Surfaces
<1>2. \A s \in Surfaces : /\ Hide(u, s) \in Looks /\ Hide(u, s).vis = u.vis \ {s} /\ Hide(u, s).vol = u.vol
                          /\ Hide(u, s).root = u.root /\ Hide(u, s).over = u.over
  BY DEF Hide, Looks
<1>3. \A s \in Surfaces : Alone(Hide(u, s))
  BY <1>2 DEF Alone
<1>4. \A s \in Surfaces \ {"mixer"} : \A q : Follows(u, q) => Follows(Hide(u, s), q)
  BY <1>2 DEF Follows
<1>5. /\ Expire(u) \in Looks /\ Expire(u).vol = u.vol /\ Expire(u).root = u.root /\ Expire(u).over = u.over
      /\ Expire(u).vis \in {u.vis, u.vis \ {"overlay"}}
  BY DEF Expire, Hide, Looks, Surfaces
<1>6. Alone(Expire(u)) /\ \A q : Follows(u, q) => Follows(Expire(u), q)
  BY <1>5 DEF Alone, Follows
<1> QED BY <1>1, <1>2, <1>3, <1>4, <1>5, <1>6

\* A mixer that goes takes its root along, or leaves the event that parks it.
LEMMA MixerGoes ==
    ASSUME NEW u \in Looks, Alone(u)
    PROVE  /\ [Hide(u, "mixer") EXCEPT !.root = FALSE] \in Looks
           /\ Alone([Hide(u, "mixer") EXCEPT !.root = FALSE])
           /\ [Hide(u, "mixer") EXCEPT !.root = FALSE].vol = u.vol
           /\ \A q : Follows([Hide(u, "mixer") EXCEPT !.root = FALSE], q)
           /\ \A q : (\E i \in 1..Len(q) : q[i] = Event("close", "mixer")) => Follows(Hide(u, "mixer"), q)
<1>1. /\ Hide(u, "mixer") \in Looks /\ Hide(u, "mixer").vis = u.vis \ {"mixer"}
      /\ Hide(u, "mixer").vol = u.vol /\ Hide(u, "mixer").over = u.over
  BY DEF Hide, Looks
<1> DEFINE w == [Hide(u, "mixer") EXCEPT !.root = FALSE]
<1>2. w \in Looks /\ w.vis = u.vis \ {"mixer"} /\ w.vol = u.vol /\ w.over = u.over /\ w.root = FALSE
  BY <1>1 DEF Looks
<1> QED BY <1>1, <1>2 DEF Alone, Follows

\* The volume shown stays in step when it is told anew, or neither it nor the cache moves.
LEMMA MirrorLater ==
    ASSUME Mirrored, Settles \/ (Waits /\ ui'.vol = ui.vol)
    PROVE  Mirrored'
  BY DEF Mirrored, Settles, Waits

\* The root stays with the mixer when the surfaces keep it and the queue loses nothing.
LEMMA ParkedLater ==
    ASSUME Parked, Speaks, exit.quitting => exit'.quitting,
           exit'.quitting \/ Follows(ui', queue) \/ Follows(ui', queue')
    PROVE  Parked'
  BY FollowsMore DEF Parked, Speaks

\* What the steps of a frame leave in the surfaces, the queue and the sound.
Shown == /\ Speaks /\ ui' \in Looks /\ Alone(ui') /\ Mirrored'
Tidy == exit'.quitting \/ Follows(ui', queue) \/ Follows(ui', queue')

\* Nothing happens to the surfaces.
LEMMA NothingShown ==
    ASSUME EguiInv, Silent \/ (\E v \in Levels : Sound(v))
                    \/ (\E s \in Modals : Publish(Opens(s)) \/ Publish(Closes(s))),
           UNCHANGED ui
    PROVE  Shown
<1>1. Speaks /\ (Waits \/ Settles)
  BY SilentSpeaks, SoundSpeaks, OpensSpeak DEF EguiInv
<1>2. Mirrored'
  BY <1>1, MirrorLater DEF EguiInv
<1> QED BY <1>1, <1>2 DEF EguiInv, Typed, UiTyped, Shown

\* The volume is shown in advance of the answer.
LEMMA VolumeShown ==
    ASSUME EguiInv, ~exit.quitting \/ exit'.quitting, NEW v \in Levels, NEW w \in Levels,
           ui' = [ui EXCEPT !.vol = v], Sound(w)
    PROVE  Shown /\ (Follows(ui, queue) => Follows(ui', queue))
<1>1. Speaks /\ Settles
  BY SoundSpeaks DEF EguiInv
<1>2. Mirrored'
  BY <1>1, MirrorLater DEF EguiInv
<1>3. ui \in Looks /\ Alone(ui)
  BY DEF EguiInv, Typed, UiTyped
<1>4. ui' \in Looks /\ ui'.vis = ui.vis /\ ui'.root = ui.root /\ ui'.over = ui.over
  BY <1>3 DEF Looks
<1> QED BY <1>1, <1>2, <1>3, <1>4 DEF Shown, Alone, Follows

\* The same surfaces, or fewer or others by the switch, and no volume.
LEMMA SilentlyShown ==
    ASSUME EguiInv, Silent, ui' \in Looks, Alone(ui'), ui'.vol = ui.vol
    PROVE  Shown
  BY SilentSpeaks, MirrorLater DEF EguiInv, Shown

LEMMA LevelsFlip == \A v \in Levels : 1 - v \in Levels
  BY DEF Levels

\* The tray's actions: what they show, and that only Exit touches the root, and quits.
LEMMA TrayKeeps ==
    ASSUME EguiInv, NEW a \in {"mute", "reset", "mixer", "settings", "help", "exit"}, TrayAction(a, ui)
    PROVE  /\ Shown /\ Tidy
           /\ \/ UNCHANGED <<root, exit>>
              \/ exit' = [exit EXCEPT !.quitting = TRUE] /\ root' = [root EXCEPT !.close = "sent"]
<1>0. ui \in Looks /\ Alone(ui) /\ device \in Levels /\ ui.vol \in Levels /\ (exit.quitting \/ Follows(ui, queue))
      /\ exit \in [quitting : BOOLEAN, gone : BOOLEAN]
  BY DEF EguiInv, Typed, UiTyped, SoundTyped, FrameTyped, Parked, Looks
<1>1. CASE a = "mute"
  <2>1. ui' = [ui EXCEPT !.vol = 1 - ui.vol] /\ Sound(1 - device) /\ UNCHANGED <<root, exit>>
    BY <1>1 DEF TrayAction
  <2>2. 1 - ui.vol \in Levels /\ 1 - device \in Levels
    BY <1>0, LevelsFlip
  <2>3. Shown /\ (Follows(ui, queue) => Follows(ui', queue))
    BY <2>1, <2>2, VolumeShown
  <2> QED BY <1>0, <2>1, <2>3 DEF Tidy
<1>2. CASE a = "reset"
  <2>1. ui' = ui /\ Sound(1) /\ UNCHANGED <<root, exit>> /\ 1 \in Levels
    BY <1>2 DEF TrayAction, Levels
  <2>2. Shown
    BY <2>1, NothingShown
  <2> QED BY <1>0, <2>1, <2>2 DEF Tidy
<1>3. CASE a = "mixer"
  <2>1. ui' = Exclusive(ui, "mixer") /\ Silent /\ UNCHANGED <<root, exit>> /\ "mixer" \in Modals
    BY <1>3 DEF TrayAction, Modals
  <2>2. Shown
    BY <1>0, <2>1, SurfacesKeep, SilentlyShown
  <2>3. Tidy
    BY <1>0, <2>1, SurfacesKeep DEF Tidy
  <2> QED BY <2>1, <2>2, <2>3
<1>4. CASE a \in {"settings", "help"}
  <2>1. ui' = ui /\ Publish(Opens(a)) /\ UNCHANGED <<root, exit>> /\ a \in Modals
    BY <1>4 DEF TrayAction, Modals
  <2>2. Shown
    BY <2>1, NothingShown
  <2> QED BY <1>0, <2>1, <2>2 DEF Tidy
<1>5. CASE a = "exit"
  <2>1. ui' = [ui EXCEPT !.vis = @ \cap {"mixer"}] /\ Silent /\ Quit
    BY <1>5 DEF TrayAction
  <2>2. ui' \in Looks /\ Alone(ui') /\ ui'.vol = ui.vol
    BY <1>0, <2>1 DEF Looks, Alone, Surfaces, Modals
  <2>3. Shown
    BY <2>1, <2>2, SilentlyShown
  <2>4. exit'.quitting
    BY <1>0, <2>1 DEF Quit
  <2> QED BY <2>1, <2>3, <2>4 DEF Tidy, Quit
<1> QED BY <1>1, <1>2, <1>3, <1>4, <1>5

\* The mixer's gestures.
LEMMA GestureKeeps ==
    ASSUME EguiInv, NEW g \in Gestures \cup {"none"}, MixerGesture(g), exit' = exit
    PROVE  Shown /\ Tidy
<1>0. ui \in Looks /\ Alone(ui) /\ device \in Levels /\ ui.vol \in Levels /\ (exit.quitting \/ Follows(ui, queue))
      /\ queue \in Seq(Events)
  BY DEF EguiInv, Typed, UiTyped, QueueTyped, SoundTyped, Parked, Looks
<1>1. CASE g = "none"
  BY <1>0, <1>1, NothingShown DEF MixerGesture, Gestures, Tidy
<1>2. CASE g = "escape"
  <2>1. ui' = Hide(ui, "mixer") /\ Publish(Closes("mixer")) /\ "mixer" \in Modals
    BY <1>2 DEF MixerGesture, Gestures, Modals
  <2>2. Speaks /\ Waits /\ \E i \in 1..Len(queue') : queue'[i] = Event("close", "mixer")
    BY <2>1, OpensSpeak DEF EguiInv
  <2>3. ui' \in Looks /\ Alone(ui') /\ ui'.vol = ui.vol
    BY <1>0, <2>1, SurfacesKeep DEF Surfaces, Modals
  <2>4. Mirrored'
    BY <2>2, <2>3, MirrorLater DEF EguiInv
  <2>5. Follows(ui', queue')
    BY <1>0, <2>1, <2>2, MixerGoes
  <2> QED BY <2>2, <2>3, <2>4, <2>5 DEF Shown, Tidy
<1>3. CASE g = "hide"
  <2>1. ui' = [Hide(ui, "mixer") EXCEPT !.root = FALSE] /\ Publish(Closes("mixer")) /\ "mixer" \in Modals
    BY <1>3 DEF MixerGesture, Gestures, Modals
  <2>2. Speaks /\ Waits
    BY <2>1, OpensSpeak DEF EguiInv
  <2>3. ui' \in Looks /\ Alone(ui') /\ ui'.vol = ui.vol /\ Follows(ui', queue)
    BY <1>0, <2>1, MixerGoes
  <2>4. Mirrored'
    BY <2>2, <2>3, MirrorLater DEF EguiInv
  <2> QED BY <2>2, <2>3, <2>4 DEF Shown, Tidy
<1>4. CASE g \in {"settings", "help"}
  BY <1>0, <1>4, NothingShown DEF MixerGesture, Gestures, Tidy, Modals
<1>5. CASE g = "volume"
  <2>1. PICK v \in Levels : ui' = [ui EXCEPT !.vol = v] /\ Sound(v)
    BY <1>5 DEF MixerGesture, Gestures
  <2>2. Shown /\ (Follows(ui, queue) => Follows(ui', queue))
    BY <2>1, VolumeShown
  <2> QED BY <1>0, <2>2 DEF Tidy
<1>6. CASE g = "mute"
  <2>1. ui' = [ui EXCEPT !.vol = 1 - ui.vol] /\ Sound(1 - device)
    BY <1>6 DEF MixerGesture, Gestures
  <2>2. 1 - ui.vol \in Levels /\ 1 - device \in Levels
    BY <1>0, LevelsFlip
  <2>3. Shown /\ (Follows(ui, queue) => Follows(ui', queue))
    BY <2>1, <2>2, VolumeShown
  <2> QED BY <1>0, <2>3 DEF Tidy
<1> QED BY <1>1, <1>2, <1>3, <1>4, <1>5, <1>6 DEF Gestures

\* The gestures of settings and help.
LEMMA ChildKeeps ==
    ASSUME EguiInv, NEW s \in {"settings", "help"}, NEW g, ChildGesture(s, g), exit' = exit
    PROVE  Shown /\ Tidy
<1>0. ui \in Looks /\ Alone(ui) /\ (exit.quitting \/ Follows(ui, queue)) /\ s \in Modals /\ s \in Surfaces \ {"mixer"}
  BY DEF EguiInv, Typed, UiTyped, Parked, Modals, Surfaces
<1>1. CASE ui' = Hide(ui, s)
  <2>1. ui' \in Looks /\ Alone(ui') /\ ui'.vol = ui.vol /\ (Follows(ui, queue) => Follows(ui', queue))
    BY <1>0, <1>1, SurfacesKeep
  <2>2. Speaks /\ (Waits \/ Settles)
    <3>1. \/ Publish(Closes(s)) \/ Silent \/ Publish(Opens("settings"))
          \/ cache' = device /\ queue' = queue \o Published(device) /\ UNCHANGED <<device, faults, lost>>
      BY DEF ChildGesture
    <3> QED BY <1>0, <3>1, OpensSpeak, SilentSpeaks, ReadingSpeaks DEF EguiInv, Modals
  <2>3. Mirrored'
    BY <2>1, <2>2, MirrorLater DEF EguiInv
  <2> QED BY <1>0, <2>1, <2>2, <2>3 DEF Shown, Tidy
<1>2. CASE ui' = ui /\ Publish(Opens("settings"))
  BY <1>0, <1>2, NothingShown DEF Tidy, Modals
<1> QED BY <1>1, <1>2 DEF ChildGesture

-----------------------------------------------------------------------------
(* Every step keeps the invariant.                                           *)

LEMMA Assembled ==
    ASSUME EguiInv, Shown, Tidy, exit.quitting => exit'.quitting, FrameTyped', WorldTyped', Stays'
    PROVE  EguiInv'
<1>1. Parked'
  BY ParkedLater DEF EguiInv, Shown, Tidy
<1>2. Typed'
  BY DEF Shown, Speaks, Typed, UiTyped
<1>3. Alone(ui)' /\ Mirrored'
  BY DEF Shown
<1> QED BY <1>1, <1>2, <1>3 DEF EguiInv

LEMMA InitEgui == Init => EguiInv
<1> SUFFICES ASSUME Init PROVE EguiInv
  OBVIOUS
<1>1. PICK s \in Surfaces \cup {"none"} :
         /\ ui = [vis |-> {s} \ {"none"}, root |-> s = "mixer", until |-> "none", vol |-> 0, over |-> FALSE]
         /\ demo = (s = "overlay")
  BY DEF Init
<1>2. UiTyped /\ Alone(ui) /\ Follows(ui, queue) /\ ui.vol = 0
  <2>1. ui.vis = {s} \ {"none"} /\ ui.root = (s = "mixer") /\ ui.vol = 0 /\ ui.over = FALSE /\ UiTyped
    BY <1>1 DEF UiTyped, Looks, Surfaces, Modals, Levels
  <2> QED BY <2>1 DEF Alone, Follows
<1>3. QueueTyped /\ Told(queue, 0, 0)
  BY DEF Init, QueueTyped, Told
<1>4. SoundTyped /\ cache = 0 /\ WorldTyped
  <2>1. <<>> \in Seq({"mixer", "volume", "menu"}) /\ <<>> \in Seq({"left", "right"})
    OBVIOUS
  <2>2. 0 \in 0..MaxInputs /\ 0 \in 0..MaxFaults /\ 0 \in Levels
    BY BoundsAssumption DEF Levels
  <2>3. SoundTyped /\ cache = 0
    BY <2>2 DEF Init, SoundTyped
  <2>4. WorldTyped
    BY <2>1, <2>2 DEF Init, WorldTyped
  <2> QED BY <2>3, <2>4
<1>5. demo \in BOOLEAN
  BY <1>1, Zenon
<1>6. FrameTyped /\ Stays
  BY <1>5 DEF Init, FrameTyped, Stays
<1> QED BY <1>2, <1>3, <1>4, <1>6 DEF EguiInv, Typed, Parked, Mirrored

\* What happens around the frames.
LEMMA OutsideKeeps ==
    ASSUME EguiInv, Outside, inputs' \in 0..MaxInputs, device' \in Levels,
           root' = root \/ (root.close = "no" /\ root' = [root EXCEPT !.close = "sent"]),
           WorldTyped'
    PROVE  EguiInv'
<1>1. SoundTyped' /\ QueueTyped' /\ UiTyped' /\ FrameTyped'
  BY DEF EguiInv, Typed, SoundTyped, QueueTyped, UiTyped, FrameTyped, Outside, hist
<1>2. root'.close \in {root.close, "sent"} /\ exit' = exit /\ pc' = pc /\ parkedClose' = parkedClose
  BY DEF EguiInv, Typed, FrameTyped, Outside, hist
<1>3. Stays'
  BY <1>2 DEF EguiInv, Stays
<1>4. Parked' /\ Alone(ui)' /\ Mirrored'
  BY DEF EguiInv, Parked, Mirrored, Outside
<1> QED BY <1>1, <1>3, <1>4 DEF EguiInv, Typed

LEMMA AroundFrames ==
    ASSUME EguiInv,
           \/ \E k \in {"mixer", "volume", "menu"} : Key(k)
           \/ \E c \in {"left", "right"} : Click(c)
           \/ Wake \/ VolumeKey \/ CloseRoot \/ FocusMoves
    PROVE  EguiInv'
<1>0. WorldTyped /\ SoundTyped /\ FrameTyped
  BY DEF EguiInv, Typed
<1>1. ASSUME Input PROVE inputs' \in 0..MaxInputs
  BY <1>0, <1>1, BoundsAssumption DEF Input, WorldTyped
<1>2. CASE \E k \in {"mixer", "volume", "menu"} : Key(k)
  <2>1. Outside /\ inputs' \in 0..MaxInputs /\ device' \in Levels /\ root' = root /\ WorldTyped'
    BY <1>0, <1>1, <1>2 DEF Key, WorldTyped, SoundTyped
  <2> QED BY <2>1, OutsideKeeps
<1>3. CASE \E c \in {"left", "right"} : Click(c)
  <2>1. Outside /\ inputs' \in 0..MaxInputs /\ device' \in Levels /\ root' = root /\ WorldTyped'
    BY <1>0, <1>1, <1>3 DEF Click, WorldTyped, SoundTyped
  <2> QED BY <2>1, OutsideKeeps
<1>4. CASE Wake
  <2>1. Outside /\ inputs' \in 0..MaxInputs /\ device' \in Levels /\ root' = root /\ WorldTyped'
    BY <1>0, <1>1, <1>4 DEF Wake, WorldTyped, SoundTyped
  <2> QED BY <2>1, OutsideKeeps
<1>5. CASE VolumeKey
  <2>1. 1 - device \in Levels
    BY <1>0, LevelsFlip DEF SoundTyped
  <2>2. Outside /\ inputs' \in 0..MaxInputs /\ device' \in Levels /\ root' = root /\ WorldTyped'
    BY <1>0, <1>1, <1>5, <2>1 DEF VolumeKey, WorldTyped
  <2> QED BY <2>2, OutsideKeeps
<1>6. CASE CloseRoot
  <2>1. /\ Outside /\ inputs' \in 0..MaxInputs /\ device' \in Levels /\ WorldTyped'
        /\ root.close = "no" /\ root' = [root EXCEPT !.close = "sent"]
    BY <1>0, <1>1, <1>6 DEF CloseRoot, WorldTyped, SoundTyped
  <2> QED BY <2>1, OutsideKeeps
<1>7. CASE FocusMoves
  <2>1. Windows \subseteq Modals \cup {"elsewhere", "popup"}
    BY DEF EguiInv, Typed, UiTyped, Looks, Windows, Surfaces
  <2>2. Outside /\ inputs' \in 0..MaxInputs /\ device' \in Levels /\ root' = root /\ WorldTyped'
    BY <1>0, <1>7, <2>1 DEF FocusMoves, WorldTyped, SoundTyped
  <2> QED BY <2>2, OutsideKeeps
<1> QED BY <1>2, <1>3, <1>4, <1>5, <1>6, <1>7

LEMMA TimeUpKeeps == ASSUME EguiInv, TimeUp PROVE EguiInv'
<1>1. /\ UNCHANGED <<pc, queue, root, popup, exit, device, cache, faults, lost, focus, keys, clicks, wake, inputs, demo, parkedClose>>
      /\ ui' = [ui EXCEPT !.until = "due"] /\ ui \in Looks
  BY DEF TimeUp, sound, world, hist, EguiInv, Typed, UiTyped
<1>2. ui' \in Looks /\ ui'.vis = ui.vis /\ ui'.root = ui.root /\ ui'.over = ui.over /\ ui'.vol = ui.vol
  BY <1>1 DEF Looks
<1>3. SoundTyped' /\ QueueTyped' /\ FrameTyped' /\ WorldTyped' /\ Stays'
  BY <1>1 DEF EguiInv, Typed, SoundTyped, QueueTyped, FrameTyped, WorldTyped, Stays
<1>4. Parked' /\ Alone(ui)' /\ Mirrored'
  BY <1>1, <1>2 DEF EguiInv, Parked, Follows, Alone, Mirrored
<1> QED BY <1>2, <1>3, <1>4 DEF EguiInv, Typed, UiTyped

\* A phase that leaves the root and the way out alone.
LEMMA StaysPut ==
    ASSUME EguiInv, UNCHANGED <<root, exit, parkedClose>>,
           pc' \in {"children", "popup", "hud", "end"} => pc \in {"children", "popup", "hud", "end"}
    PROVE  Stays'
  BY DEF EguiInv, Stays

\* The phases before the surfaces are painted.
LEMMA DrainKeeps == ASSUME EguiInv, BeginFrame \/ DrainEvent \/ Drained PROVE EguiInv'
<1>0. Typed /\ ui \in Looks /\ queue \in Seq(Events) /\ Parked /\ Alone(ui) /\ Mirrored /\ Stays /\ FrameTyped /\ WorldTyped /\ SoundTyped
  BY DEF EguiInv, Typed, UiTyped, QueueTyped
<1>1. CASE BeginFrame
  <2>1. /\ UNCHANGED <<ui, queue, popup, exit, device, cache, faults, lost, focus, keys, clicks, wake, inputs, demo, parkedClose>>
        /\ pc' = "drain" /\ ~exit.gone
        /\ root' = [root EXCEPT !.close = IF root.close = "sent" THEN "now" ELSE root.close]
    BY <1>1 DEF BeginFrame, At, sound, world, hist
  <2>2. UiTyped' /\ QueueTyped' /\ SoundTyped' /\ FrameTyped' /\ WorldTyped'
    BY <1>0, <2>1 DEF UiTyped, QueueTyped, SoundTyped, FrameTyped, WorldTyped
  <2>3. Parked' /\ Alone(ui)' /\ Mirrored' /\ Stays'
    BY <1>0, <2>1 DEF Parked, Mirrored, Stays
  <2> QED BY <2>2, <2>3 DEF EguiInv, Typed
<1>2. CASE DrainEvent
  <2>1. /\ UNCHANGED <<pc, root, popup, exit, device, cache, faults, lost, focus, keys, clicks, wake, inputs, parkedClose>>
        /\ queue # <<>> /\ queue' = Tail(queue) /\ ui' = Handle(ui, Head(queue))
        /\ demo' = (demo /\ Head(queue).kind # "overlay")
    BY <1>2 DEF DrainEvent, sound, world, hist
  <2>2. Head(queue) \in Events /\ Tail(queue) \in Seq(Events)
    BY <1>0, <2>1
  <2>3. demo' \in BOOLEAN
    BY <2>1, Zenon
  <2>4. UiTyped' /\ QueueTyped' /\ SoundTyped' /\ FrameTyped' /\ WorldTyped'
    BY <1>0, <2>1, <2>2, <2>3, HandleTypes DEF UiTyped, QueueTyped, SoundTyped, FrameTyped, WorldTyped
  <2>5. Alone(ui)'
    BY <1>0, <2>1, <2>2, HandleAlone
  <2>6. Parked'
    BY <1>0, <2>1, HandleFollows DEF Parked
  <2>7. Mirrored'
    <3>1. ui'.vol = IF Tells(Head(queue)) THEN Head(queue).arg ELSE ui.vol
      BY <1>0, <2>1, <2>2, HandleVolume
    <3>2. Told(queue, ui.vol, cache) => Told(Tail(queue), ui'.vol, cache)
      BY <1>0, <2>1, <3>1, ToldLater
    <3> QED BY <1>0, <2>1, <3>2 DEF Mirrored
  <2>8. Stays'
    BY <2>1, StaysPut
  <2> QED BY <2>4, <2>5, <2>6, <2>7, <2>8 DEF EguiInv, Typed
<1>3. CASE Drained
  <2>1. UNCHANGED <<ui, queue, root, popup, exit, device, cache, faults, lost, focus, keys, clicks, wake, inputs, demo, parkedClose>>
        /\ pc' = "keys"
    BY <1>3 DEF Drained, At, sound, world, hist
  <2>2. UiTyped' /\ QueueTyped' /\ SoundTyped' /\ FrameTyped' /\ WorldTyped'
    BY <1>0, <2>1 DEF UiTyped, QueueTyped, SoundTyped, FrameTyped, WorldTyped
  <2>3. Parked' /\ Alone(ui)' /\ Mirrored' /\ Stays'
    BY <1>0, <2>1, StaysPut DEF Parked, Mirrored
  <2> QED BY <2>2, <2>3 DEF EguiInv, Typed
<1> QED BY <1>1, <1>2, <1>3

\* An event that does not speak of the volume.
LEMMA EventSpeaks == ASSUME Typed, NEW e \in Events, ~Tells(e), Publish(<<e>>) PROVE Speaks /\ Waits
<1>1. queue \in Seq(Events) /\ queue' = Append(queue, e) /\ UNCHANGED sound
  BY DEF Typed, QueueTyped, Publish
<1>2. queue' \in Seq(Events) /\ More(queue, queue')
  BY <1>1, AppendKeeps
<1>3. \A v, w : Told(queue, v, w) => Told(queue', v, w)
  BY <1>1, ToldStill
<1> QED BY <1>1, <1>2, <1>3 DEF Typed, SoundTyped, Speaks, Waits, QueueTyped, sound

\* A phase that moves nothing but the frame, the input channels and the sound.
LEMMA OnlySound ==
    ASSUME EguiInv, UNCHANGED <<ui, root, popup, exit, hist>>, Speaks, Mirrored',
           FrameTyped', WorldTyped',
           pc' \in {"children", "popup", "hud", "end"} => pc \in {"children", "popup", "hud", "end"}
    PROVE  EguiInv'
<1>1. Shown
  BY DEF EguiInv, Typed, UiTyped, Shown
<1>2. Tidy
  BY DEF EguiInv, Parked, Tidy
<1>3. Stays'
  BY StaysPut DEF hist
<1> QED BY <1>1, <1>2, <1>3, Assembled

LEMMA SoundPhases ==
    ASSUME EguiInv, PollKeys \/ KeysPolled \/ SyncVolume \/ Reload \/ Bootstrap \/ Wheel PROVE EguiInv'
<1>0. Typed /\ queue \in Seq(Events) /\ Mirrored /\ FrameTyped /\ WorldTyped /\ SoundTyped
  BY DEF EguiInv, Typed, QueueTyped
<1>1. ASSUME Input PROVE inputs' \in 0..MaxInputs
  BY <1>0, <1>1, BoundsAssumption DEF Input, WorldTyped
<1>2. CASE PollKeys
  <2>1. /\ UNCHANGED <<pc, ui, root, popup, exit, focus, clicks, wake, inputs, hist>>
        /\ keys # <<>> /\ keys' = Tail(keys)
    BY <1>2 DEF PollKeys
  <2>2. keys' \in Seq({"mixer", "volume", "menu"})
    BY <1>0, <2>1 DEF WorldTyped
  <2>3. FrameTyped' /\ WorldTyped'
    BY <1>0, <2>1, <2>2 DEF FrameTyped, WorldTyped, hist
  <2>4. Event("toggle", "mixer") \in Events /\ ~Tells(Event("toggle", "mixer"))
    BY DEF Event, Events, Tells
  <2>5. Speaks /\ (Waits \/ Settles)
    <3>1. Publish(<<Event("toggle", "mixer")>>) \/ (\E v \in Levels : Sound(v)) \/ Silent
      BY <1>2 DEF PollKeys
    <3> QED BY <1>0, <2>4, <3>1, EventSpeaks, SoundSpeaks, SilentSpeaks
  <2>6. Mirrored'
    BY <1>0, <2>1, <2>5, MirrorLater
  <2> QED BY <2>1, <2>3, <2>5, <2>6, OnlySound
<1>3. CASE KeysPolled
  <2>1. pc' \in {"sync", "wheel"} /\ UNCHANGED <<ui, queue, root, popup, exit, sound, world, hist>>
    BY <1>3 DEF KeysPolled
  <2>2. Silent /\ FrameTyped' /\ WorldTyped'
    BY <1>0, <2>1 DEF FrameTyped, WorldTyped, hist, world, Silent
  <2>3. Speaks /\ Mirrored'
    BY <1>0, <2>1, <2>2, SilentSpeaks, MirrorLater
  <2> QED BY <2>1, <2>2, <2>3, OnlySound
<1>4. CASE SyncVolume
  <2>1. pc' = "reload" /\ UNCHANGED <<ui, root, popup, exit, world, hist>>
    BY <1>4 DEF SyncVolume, At
  <2>2. FrameTyped' /\ WorldTyped'
    BY <1>0, <2>1 DEF FrameTyped, WorldTyped, hist, world
  <2>3. CASE Silent
    <3>1. Speaks /\ Mirrored'
      BY <1>0, <2>1, <2>3, SilentSpeaks, MirrorLater
    <3> QED BY <2>1, <2>2, <3>1, OnlySound
  <2>4. CASE cache' = device /\ queue' = Append(queue, Event("volume", device)) /\ UNCHANGED <<device, faults, lost>>
    <3> DEFINE e == Event("volume", device)
    <3>1. e \in Events /\ Tells(e) /\ e.arg = device
      BY <1>0 DEF Event, Events, Tells, SoundTyped
    <3>2. queue' \in Seq(Events) /\ More(queue, queue')
      BY <1>0, <2>4, <3>1, AppendKeeps
    <3>3. \A v : Told(queue', v, cache')
      BY <1>0, <2>4, <3>1, ToldAnew
    <3>4. Speaks
      BY <1>0, <2>4, <3>2 DEF Speaks, SoundTyped, QueueTyped
    <3>5. Mirrored'
      BY <3>3, MirrorLater DEF Settles, Mirrored
    <3> QED BY <2>1, <2>2, <3>4, <3>5, OnlySound
  <2> QED BY <1>4, <2>3, <2>4 DEF SyncVolume
<1>5. CASE Reload
  <2>1. pc' \in {"boot", "wheel"} /\ UNCHANGED <<ui, root, popup, exit, focus, keys, clicks, wake, hist>>
    BY <1>5 DEF Reload
  <2>2. inputs' \in 0..MaxInputs
    BY <1>0, <1>1, <1>5 DEF Reload, WorldTyped
  <2>3. FrameTyped' /\ WorldTyped'
    BY <1>0, <2>1, <2>2 DEF FrameTyped, WorldTyped, hist
  <2>4. Speaks /\ (Waits \/ Settles)
    <3>1. Silent \/ (cache' = device /\ queue' = queue \o Published(device) /\ UNCHANGED <<device, faults, lost>>)
      BY <1>5 DEF Reload
    <3> QED BY <1>0, <3>1, SilentSpeaks, ReadingSpeaks
  <2>5. Mirrored'
    BY <1>0, <2>1, <2>4, MirrorLater
  <2> QED BY <2>1, <2>3, <2>4, <2>5, OnlySound
<1>6. CASE Bootstrap
  <2>1. /\ pc' = "wheel" /\ UNCHANGED <<device, faults, queue, ui, root, popup, exit, world, hist>>
        /\ cache' = device /\ lost' = (lost \/ cache # device)
    BY <1>6 DEF Bootstrap, At
  <2>2. FrameTyped' /\ WorldTyped'
    BY <1>0, <2>1 DEF FrameTyped, WorldTyped, hist, world
  <2>3. lost' \in BOOLEAN
    BY <2>1, Zenon
  <2>4. Speaks
    BY <1>0, <2>1, <2>3 DEF Speaks, SoundTyped, QueueTyped, More
  <2>5. Mirrored'
    BY <1>0, <2>1 DEF Mirrored
  <2> QED BY <2>1, <2>2, <2>4, <2>5, OnlySound
<1>7. CASE Wheel
  <2>1. pc' = "launch" /\ UNCHANGED <<ui, root, popup, exit, focus, keys, clicks, wake, hist>>
    BY <1>7 DEF Wheel, At
  <2>2. inputs' \in 0..MaxInputs
    BY <1>0, <1>1, <1>7 DEF Wheel, WorldTyped
  <2>3. FrameTyped' /\ WorldTyped'
    BY <1>0, <2>1, <2>2 DEF FrameTyped, WorldTyped, hist
  <2>4. Speaks /\ (Waits \/ Settles)
    <3>1. Silent \/ \E v \in Levels : Sound(v)
      BY <1>7 DEF Wheel
    <3> QED BY <1>0, <3>1, SilentSpeaks, SoundSpeaks
  <2>5. Mirrored'
    BY <1>0, <2>1, <2>4, MirrorLater
  <2> QED BY <2>1, <2>3, <2>4, <2>5, OnlySound
<1> QED BY <1>2, <1>3, <1>4, <1>5, <1>6, <1>7

\* The tray and the root.
LEMMA TrayPhases == ASSUME EguiInv, PollLaunch \/ PollTray \/ TrayPolled \/ SyncRoot PROVE EguiInv'
<1>0. Typed /\ ui \in Looks /\ Alone(ui) /\ (exit.quitting \/ Follows(ui, queue)) /\ FrameTyped /\ WorldTyped
      /\ exit \in [quitting : BOOLEAN, gone : BOOLEAN]
  BY DEF EguiInv, Typed, UiTyped, Parked, FrameTyped
<1>1. CASE PollLaunch
  <2>1. /\ pc' = "tray" /\ wake' = FALSE /\ UNCHANGED <<queue, root, popup, exit, sound, focus, keys, clicks, inputs, hist>>
        /\ ui' = IF wake THEN Exclusive(ui, "mixer") ELSE ui
    BY <1>1 DEF PollLaunch, At
  <2>2. FrameTyped' /\ WorldTyped' /\ Silent
    <3>1. FrameTyped'
      BY <1>0, <2>1 DEF FrameTyped, hist
    <3>2. WorldTyped'
      BY <1>0, <2>1 DEF WorldTyped
    <3> QED BY <2>1, <3>1, <3>2 DEF Silent
  <2>3. ui' \in Looks /\ Alone(ui') /\ ui'.vol = ui.vol /\ (Follows(ui, queue) => Follows(ui', queue))
    BY <1>0, <2>1, SurfacesKeep DEF Modals
  <2>4. Shown /\ Tidy
    BY <1>0, <2>1, <2>2, <2>3, SilentlyShown DEF Tidy
  <2>5. Stays'
    BY <2>1, StaysPut DEF hist
  <2> QED BY <2>1, <2>2, <2>4, <2>5, Assembled
<1>2. CASE PollTray
  <2>1. /\ UNCHANGED <<pc, focus, keys, wake, inputs, hist>> /\ pc = "tray"
        /\ clicks # <<>> /\ clicks' = Tail(clicks)
    BY <1>2 DEF PollTray
  <2>2. clicks' \in Seq({"left", "right"})
    BY <1>0, <2>1 DEF WorldTyped
  <2>3. WorldTyped'
    BY <1>0, <2>1, <2>2 DEF WorldTyped
  <2>4. CASE TrayAction("mixer", ui) /\ UNCHANGED popup
    <3>1. UNCHANGED <<root, exit>>
      BY <2>4 DEF TrayAction
    <3>2. Shown /\ Tidy
      BY <2>4, TrayKeeps
    <3>3. FrameTyped'
      BY <1>0, <2>1, <2>4, <3>1 DEF FrameTyped, hist
    <3>4. Stays'
      BY <2>1, <3>1, StaysPut DEF hist
    <3> QED BY <2>3, <3>1, <3>2, <3>3, <3>4, Assembled
  <2>5. CASE /\ popup' = IF popup.open THEN popup ELSE [open |-> TRUE, seen |-> FALSE]
             /\ UNCHANGED <<ui, root, exit>> /\ Silent
    <3>1. Shown /\ Tidy
      BY <1>0, <2>5, NothingShown DEF Tidy
    <3>2. FrameTyped'
      BY <1>0, <2>1, <2>5 DEF FrameTyped, hist
    <3>3. Stays'
      BY <2>1, <2>5, StaysPut DEF hist
    <3> QED BY <2>3, <2>5, <3>1, <3>2, <3>3, Assembled
  <2> QED BY <1>2, <2>4, <2>5 DEF PollTray
<1>3. CASE TrayPolled
  <2>1. pc' = "root" /\ UNCHANGED <<ui, queue, root, popup, exit, sound, world, hist>>
    BY <1>3 DEF TrayPolled, At
  <2>2. FrameTyped' /\ WorldTyped' /\ Silent
    BY <1>0, <2>1 DEF FrameTyped, WorldTyped, hist, world, Silent
  <2>3. Shown /\ Tidy
    BY <1>0, <2>1, <2>2, NothingShown DEF Tidy
  <2>4. Stays'
    BY <2>1, StaysPut DEF hist
  <2> QED BY <2>1, <2>2, <2>3, <2>4, Assembled
<1>4. CASE SyncRoot
  <2>1. /\ pc' = "mixer" /\ root' = [root EXCEPT !.shown = ui.root] /\ ui' = Expire(ui)
        /\ focus' \in {focus, "mixer"}
        /\ UNCHANGED <<queue, popup, exit, sound, keys, clicks, wake, inputs, hist>>
    BY <1>4 DEF SyncRoot, At
  <2>2. ui.root \in BOOLEAN
    BY <1>0 DEF Looks
  <2>3. FrameTyped' /\ WorldTyped' /\ Silent
    BY <1>0, <2>1, <2>2 DEF FrameTyped, WorldTyped, hist, Silent, Modals
  <2>4. ui' \in Looks /\ Alone(ui') /\ ui'.vol = ui.vol /\ (Follows(ui, queue) => Follows(ui', queue))
    BY <1>0, <2>1, SurfacesKeep
  <2>5. Shown /\ Tidy
    BY <1>0, <2>1, <2>3, <2>4, SilentlyShown DEF Tidy
  <2>6. Stays'
    BY <2>1 DEF EguiInv, Stays, hist
  <2> QED BY <2>1, <2>3, <2>5, <2>6, Assembled
<1> QED BY <1>1, <1>2, <1>3, <1>4

\* The mixer, shown, closed, forsaken or parked.
LEMMA MixerPhases == ASSUME EguiInv, CloseMixer \/ ShowMixer \/ ForsakeMixer \/ ParkedRoot PROVE EguiInv'
<1>0. Typed /\ ui \in Looks /\ Alone(ui) /\ (exit.quitting \/ Follows(ui, queue)) /\ FrameTyped /\ WorldTyped
      /\ root \in [shown : BOOLEAN, seen : BOOLEAN, close : {"no", "sent", "now"}]
  BY DEF EguiInv, Typed, UiTyped, Parked, FrameTyped
<1>1. root.seen \in BOOLEAN /\ (root.seen \/ focus = "mixer") \in BOOLEAN
  BY <1>0, Zenon
<1>2. CASE CloseMixer
  <2>1. /\ pc = "mixer" /\ pc' = "children" /\ root.close = "now"
        /\ ui' = IF Cancels(root) THEN [Hide(ui, "mixer") EXCEPT !.root = FALSE] ELSE Hide(ui, "mixer")
        /\ root' = [root EXCEPT !.close = IF Cancels(root) THEN "no" ELSE root.close,
                                !.seen = root.seen \/ focus = "mixer"]
        /\ UNCHANGED <<queue, popup, exit, sound, world, hist>>
    BY <1>2 DEF CloseMixer, At
  <2>2. Cancels(root) <=> ~exit.quitting
    BY <2>1 DEF Cancels
  <2>3. FrameTyped' /\ WorldTyped' /\ Silent
    BY <1>0, <1>1, <2>1 DEF FrameTyped, WorldTyped, hist, world, Silent
  <2>4. CASE exit.quitting
    <3>1. ui' \in Looks /\ Alone(ui') /\ ui'.vol = ui.vol
      BY <1>0, <2>1, <2>2, <2>4, SurfacesKeep DEF Surfaces, Modals
    <3>2. Shown /\ Tidy
      BY <2>1, <2>3, <2>4, <3>1, SilentlyShown DEF Tidy
    <3>3. Stays'
      BY <2>1, <2>4 DEF Stays
    <3> QED BY <2>1, <2>3, <3>2, <3>3, Assembled
  <2>5. CASE ~exit.quitting
    <3>1. ui' \in Looks /\ Alone(ui') /\ ui'.vol = ui.vol /\ Follows(ui', queue)
      BY <1>0, <2>1, <2>2, <2>5, MixerGoes
    <3>2. Shown /\ Tidy
      BY <2>3, <3>1, SilentlyShown DEF Tidy
    <3>3. root'.close = "no"
      BY <1>0, <1>1, <2>1, <2>2, <2>5
    <3>4. Stays'
      BY <2>1, <3>3 DEF EguiInv, Stays, hist
    <3> QED BY <2>1, <2>3, <3>2, <3>4, Assembled
  <2> QED BY <2>4, <2>5
<1>3. CASE ShowMixer
  <2>1. /\ pc = "mixer" /\ pc' = "children" /\ root.close # "now"
        /\ root' = [root EXCEPT !.seen = root.seen \/ focus = "mixer"]
        /\ UNCHANGED <<popup, exit, focus, keys, clicks, wake, hist>>
    BY <1>3 DEF ShowMixer, At
  <2>2. PICK g \in Gestures \cup {"none"} : MixerGesture(g) /\ Gesture(g)
    BY <1>3 DEF ShowMixer
  <2>3. inputs' \in 0..MaxInputs
    BY <1>0, <2>2, BoundsAssumption DEF Gesture, Input, WorldTyped
  <2>4. FrameTyped' /\ WorldTyped' /\ root'.close = root.close
    BY <1>0, <1>1, <2>1, <2>3 DEF FrameTyped, WorldTyped, hist
  <2>5. Shown /\ Tidy
    BY <2>1, <2>2, GestureKeeps
  <2>6. Stays'
    BY <2>1, <2>4 DEF EguiInv, Stays, hist
  <2> QED BY <2>1, <2>4, <2>5, <2>6, Assembled
<1>4. CASE ForsakeMixer
  <2>1. /\ pc = "mixer" /\ pc' = "children" /\ root.close # "now"
        /\ ui' = [Hide(ui, "mixer") EXCEPT !.root = FALSE]
        /\ UNCHANGED <<queue, root, popup, exit, sound, world, hist>>
    BY <1>4 DEF ForsakeMixer, At
  <2>2. FrameTyped' /\ WorldTyped' /\ Silent
    BY <1>0, <2>1 DEF FrameTyped, WorldTyped, hist, world, Silent
  <2>3. ui' \in Looks /\ Alone(ui') /\ ui'.vol = ui.vol /\ Follows(ui', queue)
    BY <1>0, <2>1, MixerGoes
  <2>4. Shown /\ Tidy
    BY <2>2, <2>3, SilentlyShown DEF Tidy
  <2>5. Stays'
    BY <2>1 DEF EguiInv, Stays, hist
  <2> QED BY <2>1, <2>2, <2>4, <2>5, Assembled
<1>5. CASE ParkedRoot
  <2>1. /\ pc = "mixer" /\ pc' = "children" /\ root' = [root EXCEPT !.seen = FALSE]
        /\ parkedClose' = (parkedClose \/ (root.close = "now" /\ ~exit.quitting))
        /\ UNCHANGED <<ui, queue, popup, exit, sound, world, demo>>
    BY <1>5 DEF ParkedRoot, At
  <2>2. parkedClose' \in BOOLEAN
    BY <2>1, Zenon
  <2>3. FrameTyped' /\ WorldTyped' /\ Silent /\ root'.close = root.close
    BY <1>0, <2>1, <2>2 DEF FrameTyped, WorldTyped, world, Silent
  <2>4. Shown /\ Tidy
    BY <1>0, <2>1, <2>3, NothingShown DEF Tidy
  <2>5. Stays'
    BY <2>1, <2>3 DEF EguiInv, Stays
  <2> QED BY <2>1, <2>3, <2>4, <2>5, Assembled
<1> QED BY <1>2, <1>3, <1>4, <1>5

\* The other windows, and the end of the frame.
LEMMA WindowPhases == ASSUME EguiInv, ShowChildren \/ ShowPopup \/ ShowHud \/ EndFrame PROVE EguiInv'
<1>0. Typed /\ ui \in Looks /\ Alone(ui) /\ (exit.quitting \/ Follows(ui, queue)) /\ FrameTyped /\ WorldTyped
      /\ root \in [shown : BOOLEAN, seen : BOOLEAN, close : {"no", "sent", "now"}]
      /\ exit \in [quitting : BOOLEAN, gone : BOOLEAN]
  BY DEF EguiInv, Typed, UiTyped, Parked, FrameTyped
<1>1. ASSUME Input \/ UNCHANGED inputs PROVE inputs' \in 0..MaxInputs
  BY <1>0, <1>1, BoundsAssumption DEF Input, WorldTyped
<1>2. CASE ShowChildren
  <2>1. /\ pc = "children" /\ pc' = "popup"
        /\ UNCHANGED <<root, popup, exit, focus, keys, clicks, wake, hist>>
        /\ Input \/ UNCHANGED inputs
    BY <1>2 DEF ShowChildren, At
  <2>2. FrameTyped' /\ WorldTyped'
    BY <1>0, <1>1, <2>1 DEF FrameTyped, WorldTyped, hist
  <2>3. Shown /\ Tidy
    <3>1. CASE \E s \in ui.vis \cap {"settings", "help"}, g \in {"escape", "close", "cancel", "settings"} :
                  Input /\ ChildGesture(s, g)
      BY <2>1, <3>1, ChildKeeps
    <3>2. CASE UNCHANGED <<ui, inputs>> /\ Silent
      BY <1>0, <2>1, <3>2, NothingShown DEF Tidy
    <3> QED BY <1>2, <3>1, <3>2 DEF ShowChildren
  <2>4. Stays'
    BY <2>1, StaysPut DEF hist
  <2> QED BY <2>1, <2>2, <2>3, <2>4, Assembled
<1>3. CASE ShowPopup
  <2>1. /\ pc = "popup" /\ pc' = "hud" /\ UNCHANGED <<focus, keys, clicks, wake, hist>>
        /\ Input \/ UNCHANGED inputs
    BY <1>3 DEF ShowPopup, At
  <2>2. WorldTyped' /\ popup' \in [open : BOOLEAN, seen : BOOLEAN]
    <3>1. popup' \in {popup, PopupStays, PopupGone}
      BY <1>3 DEF ShowPopup
    <3>2. (popup.seen \/ focus = "popup") \in BOOLEAN
      BY <1>0, Zenon DEF FrameTyped
    <3>3. popup' \in [open : BOOLEAN, seen : BOOLEAN]
      <4>1. popup \in [open : BOOLEAN, seen : BOOLEAN]
        BY <1>0 DEF FrameTyped
      <4>2. \A b \in BOOLEAN : [popup EXCEPT !.seen = b] \in [open : BOOLEAN, seen : BOOLEAN]
        BY <4>1
      <4>3. PopupStays \in [open : BOOLEAN, seen : BOOLEAN]
        BY <3>2, <4>2 DEF PopupStays
      <4>4. PopupGone \in [open : BOOLEAN, seen : BOOLEAN]
        BY DEF PopupGone
      <4> QED BY <3>1, <4>1, <4>3, <4>4, Zenon
    <3> QED BY <1>0, <1>1, <2>1, <3>3 DEF WorldTyped
  <2>3. CASE UNCHANGED <<ui, root, exit>> /\ Silent
    <3>1. FrameTyped'
      BY <1>0, <2>1, <2>2, <2>3 DEF FrameTyped, hist
    <3>2. Shown /\ Tidy
      BY <1>0, <2>3, NothingShown DEF Tidy
    <3>3. Stays'
      BY <2>1, <2>3, StaysPut DEF hist
    <3> QED BY <2>2, <2>3, <3>1, <3>2, <3>3, Assembled
  <2>4. CASE \E a \in {"mute", "reset", "mixer", "settings", "help", "exit"} : TrayAction(a, ui)
    <3>1. /\ Shown /\ Tidy
          /\ \/ UNCHANGED <<root, exit>>
             \/ exit' = [exit EXCEPT !.quitting = TRUE] /\ root' = [root EXCEPT !.close = "sent"]
      BY <2>4, TrayKeeps
    <3>2. FrameTyped' /\ (exit.quitting => exit'.quitting)
      BY <1>0, <2>1, <2>2, <3>1 DEF FrameTyped, hist
    <3>3. Stays'
      <4>1. CASE UNCHANGED <<root, exit>>
        BY <2>1, <4>1, StaysPut DEF hist
      <4>2. CASE exit' = [exit EXCEPT !.quitting = TRUE]
        BY <1>0, <4>2 DEF Stays
      <4> QED BY <3>1, <4>1, <4>2
    <3> QED BY <2>2, <3>1, <3>2, <3>3, Assembled
  <2> QED BY <1>3, <2>3, <2>4 DEF ShowPopup
<1>4. CASE ShowHud
  <2>1. /\ pc = "hud" /\ pc' = "end" /\ UNCHANGED <<queue, root, popup, exit, sound, focus, keys, clicks, wake, hist>>
        /\ Input \/ UNCHANGED inputs
        /\ ui' \in {ui, Hide(ui, "overlay")}
    BY <1>4 DEF ShowHud, At
  <2>2. FrameTyped' /\ WorldTyped' /\ Silent
    BY <1>0, <1>1, <2>1 DEF FrameTyped, WorldTyped, hist, Silent
  <2>3. ui' \in Looks /\ Alone(ui') /\ ui'.vol = ui.vol /\ (Follows(ui, queue) => Follows(ui', queue))
    BY <1>0, <2>1, SurfacesKeep DEF Surfaces, Modals
  <2>4. Shown /\ Tidy
    BY <1>0, <2>1, <2>2, <2>3, SilentlyShown DEF Tidy
  <2>5. Stays'
    BY <2>1, StaysPut DEF hist
  <2> QED BY <2>1, <2>2, <2>4, <2>5, Assembled
<1>5. CASE EndFrame
  <2>1. /\ pc = "end" /\ pc' = "idle" /\ exit' = [exit EXCEPT !.gone = root.close = "now"]
        /\ UNCHANGED <<ui, queue, root, popup, sound, world, hist>>
    BY <1>5 DEF EndFrame, At
  <2>2. (root.close = "now") \in BOOLEAN /\ exit'.quitting = exit.quitting /\ exit'.gone = (root.close = "now")
    BY <1>0, <2>1
  <2>3. FrameTyped' /\ WorldTyped' /\ Silent
    <3>1. exit' \in [quitting : BOOLEAN, gone : BOOLEAN]
      BY <1>0, <2>1, <2>2
    <3>2. FrameTyped'
      BY <1>0, <2>1, <3>1 DEF FrameTyped, hist
    <3> QED BY <1>0, <2>1, <3>2 DEF WorldTyped, world, Silent
  <2>4. Shown /\ Tidy
    BY <1>0, <2>1, <2>2, <2>3, NothingShown DEF Tidy
  <2>5. Stays'
    BY <2>1, <2>2 DEF EguiInv, Stays, hist
  <2> QED BY <2>2, <2>3, <2>4, <2>5, Assembled
<1> QED BY <1>2, <1>3, <1>4, <1>5

LEMMA EguiStep == EguiInv /\ [Next]_vars => EguiInv'
<1> SUFFICES ASSUME EguiInv, [Next]_vars PROVE EguiInv'
  OBVIOUS
<1>1. CASE Next
  BY <1>1, AroundFrames, TimeUpKeeps, DrainKeeps, SoundPhases, TrayPhases, MixerPhases, WindowPhases
  DEF Next, FramePhase
<1>2. CASE UNCHANGED vars
  BY <1>2 DEF vars, sound, world, hist, EguiInv, Typed, UiTyped, QueueTyped, SoundTyped, FrameTyped, WorldTyped,
              Parked, Mirrored, Stays
<1> QED BY <1>1, <1>2

-----------------------------------------------------------------------------
(* What holds of every behaviour.                                            *)

LEMMA EguiAlways == Spec => []EguiInv
  BY InitEgui, EguiStep, PTL DEF Spec

\* Every variable keeps its type, whatever is asked and whatever fails.
THEOREM EguiTypeCorrect == Spec => []TypeOK
<1>1. EguiInv => TypeOK
  <2> SUFFICES ASSUME EguiInv PROVE TypeOK
    OBVIOUS
  <2>1. queue \in Seq(Events) /\ \A i \in 1..Len(queue) : queue[i] \in Events
    BY DEF EguiInv, Typed, QueueTyped
  <2>2. \A i \in 1..Len(queue) : queue[i].kind \in {"volume", "overlay", "open", "close", "toggle"}
    BY <2>1 DEF Events
  <2> QED BY <2>2 DEF EguiInv, Typed, UiTyped, SoundTyped, FrameTyped, WorldTyped, Looks, TypeOK
<1> QED BY <1>1, EguiAlways, PTL

\* Between frames the root is on screen with the mixer, or has the event that parks it in the queue, and two
\* modal surfaces are beside each other only after the mixer's shortcut (app.rs: sync_root_visibility,
\* show_surface_exclusive).
THEOREM SurfacesExclude == Spec => []SurfacesAgree
<1>1. EguiInv => SurfacesAgree
  BY DEF EguiInv, Parked, Follows, Alone, SurfacesAgree, RootFollowsMixer, StacksOnlyByToggle
<1> QED BY <1>1, EguiAlways, PTL

\* With no event pending the volume shown is the core's, whatever was shown in advance, unless an action got no
\* answer or the cache was refreshed silently (app.rs: drain_events, the optimistic copy).
THEOREM MirrorFollows == Spec => []MirrorFollowsCore
<1>1. EguiInv => MirrorFollowsCore
  <2> SUFFICES ASSUME EguiInv, queue = <<>>, ~lost PROVE ui.vol = cache
    BY DEF MirrorFollowsCore
  <2>1. Told(<<>>, ui.vol, cache)
    BY DEF EguiInv, Mirrored
  <2> QED BY <2>1 DEF Told
<1> QED BY <1>1, EguiAlways, PTL

\* Only Exit ends the program, but for a close request that reaches the parked root (app.rs: the cancelled close).
THEOREM StaysUntilExit == Spec => []OnlyExitEnds
<1>1. EguiInv => OnlyExitEnds
  BY DEF EguiInv, Stays, OnlyExitEnds
<1> QED BY <1>1, EguiAlways, PTL
=============================================================================
