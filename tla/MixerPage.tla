------------------------------ MODULE MixerPage ------------------------------
(***************************************************************************)
(* The mixer page (frontend/src/mixer) against AppCore's side of it: the     *)
(* commands of src-tauri/src/commands.rs, the cache of the system volume     *)
(* and the per-application streams of the PulseAudio server                  *)
(* (audio_sessions_linux.rs).  The page listens, then asks for a bootstrap,   *)
(* keeps its own copy of volume and rows, moves its controls before the       *)
(* host has answered and asks for the rows again every 1.5 s.                 *)
(*                                                                         *)
(* A command is one step of the host: it runs on the main thread under the   *)
(* core's lock.  A call to the sound server works while the server is up;    *)
(* VolumeCore has the single calls and their failures.  Every stream counts   *)
(* as active; the search field is left out.                                   *)
(***************************************************************************)
EXTENDS PageChannel, FiniteSets

CONSTANTS
    Top,        \* the volume 100 %
    Half,       \* the volume 50 %
    StreamIds,  \* indices the server gives to streams
    StreamTops  \* the volumes of streams

VARIABLES
    world,   \* the sound server: up, its default output, its streams
    appCore, \* AppCore: last_state, mute_restore_volume, backend_status
    link,    \* PulseSessions: the connection, and whether a failed one is recent
    page,    \* useSessions, the sliders and the pointer
    odd      \* history: moved, recovered, strayed, see below

mixer == <<world, appCore, link, page, odd>>

ASSUME StreamsAssumption == StreamIds \subseteq Nat \ {0}

Volumes == 0 .. Top
\* The slider of the system output, beside those of the streams.
System == 0

\* The absent value is no notice and no slider.
ASSUME NoticeAssumption == None \notin {"degraded", "failed"} /\ None # System

\* moved: another program moved the volume before the page had its bootstrap, and
\* nothing was published since; recovered: the same for a server that came back;
\* strayed: a slide was lost or came before the bootstrap, or a volume reached the
\* page during a drag, and the page's volume has not changed since.
Calm == [moved |-> FALSE, recovered |-> FALSE, strayed |-> FALSE]

IsOpen == page.phase # "closed"

NoRows == [i \in {} |-> 0]
Stream(v, m) == [vol |-> v, muted |-> m]
Streams == [vol : StreamTops, muted : BOOLEAN]

MixerInit(isOpen) ==
    /\ \E u \in IF isOpen THEN BOOLEAN ELSE {FALSE} :
         /\ world = [up |-> u, vol |-> Half, muted |-> FALSE,
                     live |-> IF u THEN [i \in StreamIds |-> Stream(Half, FALSE)] ELSE NoRows]
         /\ appCore = [vol |-> Half, muted |-> FALSE, restore |-> None,
                    status |-> IF u THEN "ready" ELSE "degraded"]
    /\ link = [state |-> "none", recent |-> FALSE]
    /\ page = [phase |-> IF isOpen THEN "loading" ELSE "closed",
               vol |-> 0, muted |-> FALSE, raced |-> FALSE,
               notice |-> None, thumb |-> 0, rows |-> NoRows, drag |-> None]
    /\ odd = Calm

-----------------------------------------------------------------------------
(* The core: what it holds and emits when the server is w. *)

Health(w) == IF w.up THEN "ready" ELSE "degraded"

\* note_backend_result
Noted(c, w) == [c EXCEPT !.status = Health(w)]
HealthEvents(c, w) ==
    IF c.status = Health(w) THEN <<>> ELSE <<[kind |-> "backend", status |-> Health(w)]>>

\* A get_state whose result is kept.
Looked(c, w) ==
    IF w.up THEN [Noted(c, w) EXCEPT !.vol = w.vol, !.muted = w.muted] ELSE Noted(c, w)
VolumeEvent(w) == [kind |-> "volume", vol |-> w.vol, muted |-> w.muted]
Changed(c, w) == w.up /\ <<w.vol, w.muted>> # <<c.vol, c.muted>>
PublishEvents(c, w) == HealthEvents(c, w) \o (IF w.up THEN <<VolumeEvent(w)>> ELSE <<>>)

\* An event that the listening, answered page will see makes up for what it missed.
Emits(es) ==
    /\ Told(es)
    /\ odd' = [odd EXCEPT
         !.moved = @ /\ ~(page.phase = "ready" /\ \E e \in Range(es) : e.kind = "volume"),
         !.recovered = @ /\ ~(page.phase = "ready" /\ \E e \in Range(es) : e.kind = "backend")]

-----------------------------------------------------------------------------
(* PulseSessions. *)

\* connection(): a connection that is gone is opened again, but not soon after a
\* failure.
Connected(l, w) ==
    IF l.state # "none" \/ l.recent THEN l
    ELSE IF w.up THEN [state |-> "ready", recent |-> FALSE]
    ELSE [state |-> "none", recent |-> TRUE]
\* An operation on a connection whose server has gone fails and tells so.
Used(l) == IF l.state = "stale" THEN [l EXCEPT !.state = "none"] ELSE l

List(l, w) == IF Connected(l, w).state = "ready" THEN w.live ELSE NoRows
Listed(l, w) == Used(Connected(l, w))

-----------------------------------------------------------------------------
(* The page. *)

\* The place of a row: the loudest first, equals in the server's order.
Place(rows, i) ==
    Cardinality({j \in DOMAIN rows : \/ rows[j].vol > rows[i].vol
                                     \/ rows[j].vol = rows[i].vol /\ j < i})

\* The key of a row contains its place: a row that moves is a new row.
SameRow(old, new, i) == i \in DOMAIN old /\ Place(old, i) = Place(new, i)

\* AppSlider: a new row starts at its volume; an old one follows a change of it,
\* unless it is being dragged.
ThumbOf(old, new, i, drag) ==
    IF SameRow(old, new, i) /\ (drag = i \/ old[i].vol = new[i].vol)
    THEN old[i].thumb ELSE new[i].vol

\* setSessions, and what the next render makes of it.
WithRows(p, new) ==
    [p EXCEPT !.rows = [i \in DOMAIN new |->
                          [vol |-> new[i].vol, muted |-> new[i].muted,
                           thumb |-> ThumbOf(p.rows, new, i, p.drag)]],
              !.drag = IF @ \in StreamIds /\ (@ \notin DOMAIN new \/ ~SameRow(p.rows, new, @))
                       THEN None ELSE @]

WithMute(p, i, m) ==
    IF i \in DOMAIN p.rows THEN [p EXCEPT !.rows[i].muted = m] ELSE p

\* setVolumePct, setMuted; SystemVolumeSlider follows a change unless dragged.
WithVolume(p, v, m) ==
    [p EXCEPT !.vol = v, !.muted = m,
              !.thumb = IF v # p.vol /\ p.drag # System THEN v ELSE @]

\* Only another program's interference, or a failure, leaves the thumb astray.
Astray(p, v) ==
    IF p.drag = System THEN odd.strayed \/ v # p.thumb ELSE odd.strayed /\ v = p.vol

-----------------------------------------------------------------------------
(* The user. *)

UnchangedHost == UNCHANGED <<world, appCore, link>>

\* A slide by pointer or key: the thumb moves at once, the command is not awaited.
SlideSystem(v) ==
    /\ Occasion /\ page.drag \in {None, System}
    /\ page' = [page EXCEPT !.thumb = v]
    /\ Invoke([op |-> "set", vol |-> v])
    /\ odd' = [odd EXCEPT !.strayed = @ \/ page.phase # "ready"]
    /\ UnchangedHost /\ UNCHANGED <<events, replies>>

SlideRow(i, v) ==
    /\ Occasion /\ i \in DOMAIN page.rows /\ page.phase = "ready" /\ page.drag \in {None, i}
    /\ page' = [page EXCEPT !.rows[i].thumb = v]
    /\ Invoke([op |-> "setStream", id |-> i, vol |-> v])
    /\ UnchangedHost /\ UNCHANGED <<odd, events, replies>>

PointerDown(s) ==
    /\ Occasion /\ page.drag = None
    /\ s = System \/ (page.phase = "ready" /\ s \in DOMAIN page.rows)
    /\ page' = [page EXCEPT !.drag = s]
    /\ UnchangedHost /\ UNCHANGED <<odd, channel>>

PointerUp ==
    /\ page.drag # None
    /\ page' = [page EXCEPT !.drag = None]
    /\ UnchangedHost /\ UNCHANGED <<odd, channel, occasions>>

\* The buttons of the system output.
Press(op) ==
    /\ Occasion /\ page.drag = None
    /\ Invoke([op |-> op])
    /\ UnchangedHost /\ UNCHANGED <<page, odd, events, replies>>

\* handleMute: the row changes before the host has answered.
MuteRow(i) ==
    /\ Occasion /\ i \in DOMAIN page.rows /\ page.phase = "ready" /\ page.drag = None
    /\ page' = WithMute(page, i, ~page.rows[i].muted)
    /\ Invoke([op |-> "muteStream", id |-> i, next |-> ~page.rows[i].muted])
    /\ UnchangedHost /\ UNCHANGED <<odd, events, replies>>

-----------------------------------------------------------------------------
(* Other programs and the server. *)

Meddle(v, m) ==
    /\ Occasion /\ world.up /\ <<v, m>> # <<world.vol, world.muted>>
    /\ world' = [world EXCEPT !.vol = v, !.muted = m]
    /\ odd' = [odd EXCEPT !.moved = @ \/ page.phase # "ready"]
    /\ UNCHANGED <<appCore, link, page, channel>>

\* The server ends, its streams with it; a connection finds out when it is used.
ServerEnds ==
    /\ Occasion /\ world.up
    /\ world' = [world EXCEPT !.up = FALSE, !.live = NoRows]
    /\ link' = [link EXCEPT !.state = IF @ = "ready" THEN "stale" ELSE @]
    /\ UNCHANGED <<appCore, page, odd, channel>>

ServerStarts ==
    /\ Occasion /\ ~world.up
    /\ world' = [world EXCEPT !.up = TRUE]
    /\ odd' = [odd EXCEPT !.recovered = @ \/ page.phase # "ready"]
    /\ UNCHANGED <<appCore, link, page, channel>>

StreamStarts(i, v) ==
    /\ Occasion /\ world.up /\ i \notin DOMAIN world.live
    /\ world' = [world EXCEPT !.live = @ @@ (i :> Stream(v, FALSE))]
    /\ UNCHANGED <<appCore, link, page, odd, channel>>

StreamEnds(i) ==
    /\ Occasion /\ i \in DOMAIN world.live
    /\ world' = [world EXCEPT !.live = Restrict(@, DOMAIN @ \ {i})]
    /\ UNCHANGED <<appCore, link, page, odd, channel>>

\* The short-lived memory of a failed connection ends.
BackoffEnds ==
    /\ link.recent /\ link' = [link EXCEPT !.recent = FALSE]
    /\ UNCHANGED <<world, appCore, page, odd, channel, occasions>>

-----------------------------------------------------------------------------
(* The host. *)

\* sync_external_state; a poll that sees nothing new changes nothing.
PollServer ==
    /\ appCore.status # Health(world) \/ Changed(appCore, world)
    /\ appCore' = Looked(appCore, world)
    /\ Emits(HealthEvents(appCore, world)
             \o (IF Changed(appCore, world) THEN <<VolumeEvent(world)>> ELSE <<>>))
    /\ UNCHANGED <<world, link, page, sent, replies, occasions>>

Run(op) == IsOpen /\ sent # <<>> /\ Head(sent).op = op /\ sent' = Tail(sent) /\ UNCHANGED occasions

\* get_bootstrap: the look refreshes the cache and tells nobody of the volume.
GetBootstrap ==
    /\ Run("bootstrap")
    /\ appCore' = Looked(appCore, world)
    /\ link' = Listed(link, world)
    /\ Emits(HealthEvents(appCore, world))
    /\ Returned(<<[op |-> "bootstrap", vol |-> appCore'.vol, muted |-> appCore'.muted,
                   status |-> appCore'.status, rows |-> List(link, world)]>>)
    /\ UNCHANGED <<world, page>>

\* What a handler of the system volume leaves of the device, then publishes.
Handles(w, c) ==
    /\ world' = w /\ appCore' = Looked(c, w)
    /\ Emits(PublishEvents(c, w))
    /\ UNCHANGED <<link, page, replies>>

\* set_volume: a positive volume resumes the sound; a failure is not reported.
SetVolume ==
    /\ Run("set")
    /\ LET v == Head(sent).vol
       IN  IF world.up
           THEN Handles([world EXCEPT !.vol = v, !.muted = @ /\ v = 0],
                        IF v > 0 THEN [appCore EXCEPT !.restore = None] ELSE appCore)
           ELSE /\ appCore' = Looked(appCore, world)
                /\ Told(HealthEvents(appCore, world))
                /\ odd' = [odd EXCEPT !.strayed = TRUE]
                /\ UNCHANGED <<world, link, page, replies>>

ResetVolume ==
    /\ Run("reset")
    /\ IF world.up
       THEN Handles([world EXCEPT !.vol = Half, !.muted = FALSE], [appCore EXCEPT !.restore = None])
       ELSE Handles(world, appCore)

\* toggle_mute: the fallback to a volume of zero; a failure is answered.
ToggleMute ==
    /\ Run("mute")
    /\ IF ~world.up
       THEN /\ Returned(<<[op |-> "failed"]>>)
            /\ UNCHANGED <<world, appCore, link, page, odd, events>>
       ELSE IF world.muted
       THEN Handles([world EXCEPT !.muted = FALSE,
                                  !.vol = IF appCore.restore = None THEN @ ELSE appCore.restore],
                    [appCore EXCEPT !.restore = None])
       ELSE Handles([world EXCEPT !.muted = TRUE, !.vol = 0], [appCore EXCEPT !.restore = world.vol])

\* set_session_volume, mute_session: a failure is answered, after the fresh list.
OnStream(change, failure) ==
    LET i == Head(sent).id
        l == Connected(link, world)
    IN  IF l.state = "ready" /\ i \in DOMAIN world.live
        THEN /\ world' = [world EXCEPT !.live[i] = change[@]]
             /\ link' = l
             /\ UNCHANGED <<appCore, page, odd, events, replies>>
        ELSE /\ Emits(<<[kind |-> "sessions", rows |-> List(Used(l), world)]>>)
             /\ link' = Listed(Used(l), world)
             /\ Returned(<<failure>>)
             /\ UNCHANGED <<world, appCore, page>>

SetSessionVolume ==
    /\ Run("setStream")
    /\ OnStream([s \in Streams |-> [s EXCEPT !.vol = Head(sent).vol]],
                [op |-> "gone", id |-> Head(sent).id])

MuteSession ==
    /\ Run("muteStream")
    /\ OnStream([s \in Streams |-> [s EXCEPT !.muted = ~@]],
                [op |-> "notMuted", id |-> Head(sent).id, next |-> Head(sent).next])

GetAudioSessions ==
    /\ Run("list")
    /\ link' = Listed(link, world)
    /\ Returned(<<[op |-> "list", rows |-> List(link, world)]>>)
    /\ UNCHANGED <<world, appCore, page, odd, events>>

-----------------------------------------------------------------------------
(* The page's own steps. *)

\* The listeners are registered, then the bootstrap is asked for.
StartListening ==
    /\ page.phase = "loading" /\ page' = [page EXCEPT !.phase = "listening"]
    /\ UnchangedHost /\ UNCHANGED <<odd, channel, occasions>>

Ask ==
    /\ page.phase = "listening" /\ page' = [page EXCEPT !.phase = "asked"]
    /\ Invoke([op |-> "bootstrap"])
    /\ UnchangedHost /\ UNCHANGED <<odd, events, replies, occasions>>

\* Mutant: the timer stops with the last row.
RefreshRows ==
    /\ page.phase = "ready" /\ page.rows # NoRows
    /\ [op |-> "list"] \notin Range(sent) /\ \A r \in Range(replies) : r.op # "list"
    /\ Invoke([op |-> "list"])
    /\ UnchangedHost /\ UNCHANGED <<page, odd, events, replies, occasions>>

\* The timer of refreshSessions; one request at a time is enough to see its races.
Refresh ==
    /\ page.phase = "ready" /\ [op |-> "list"] \notin Range(sent)
    /\ \A r \in Range(replies) : r.op # "list"
    /\ Invoke([op |-> "list"])
    /\ UnchangedHost /\ UNCHANGED <<page, odd, events, replies, occasions>>

Event(k) == IsOpen /\ events # <<>> /\ Head(events).kind = k /\ events' = Tail(events)
Hears == page.phase # "loading"
TakesEvent(k, p) ==
    /\ Event(k) /\ page' = IF Hears THEN p ELSE page
    /\ UnchangedHost /\ UNCHANGED <<sent, replies, occasions>>

OnVolume ==
    LET e == Head(events)
    IN  /\ TakesEvent("volume", [WithVolume(page, e.vol, e.muted) EXCEPT !.raced = page.phase # "ready"])
        /\ odd' = [odd EXCEPT !.strayed = IF Hears THEN Astray(page, e.vol) ELSE @]

OnBackend ==
    /\ TakesEvent("backend", [page EXCEPT !.notice =
                                IF Head(events).status = "degraded" THEN "degraded" ELSE None])
    /\ UNCHANGED odd

OnSessions ==
    /\ TakesEvent("sessions", WithRows(page, Head(events).rows))
    /\ UNCHANGED odd

TakesReply(op, p) ==
    /\ IsOpen /\ Reply(op) /\ page' = p
    /\ UnchangedHost /\ UNCHANGED <<sent, events, occasions>>

\* A volume event seen before the bootstrap wins over it.
OnBootstrap ==
    LET r == Head(replies)
        p == [WithRows(page, r.rows) EXCEPT
                !.phase = "ready", !.raced = FALSE,
                !.notice = IF r.status = "degraded" THEN "degraded" ELSE @]
    IN  /\ TakesReply("bootstrap", IF page.raced THEN p ELSE WithVolume(p, r.vol, r.muted))
        /\ odd' = [odd EXCEPT !.strayed = IF page.raced THEN @ ELSE Astray(page, r.vol)]

OnList ==
    /\ TakesReply("list", WithRows(page, Head(replies).rows))
    /\ UNCHANGED odd

OnFailed ==
    /\ TakesReply("failed", [page EXCEPT !.notice = "failed"])
    /\ UNCHANGED odd

\* handleVolumeError: the row goes, whatever the fresh list said.
OnGone ==
    /\ TakesReply("gone", [WithRows(page, Restrict(page.rows, DOMAIN page.rows \ {Head(replies).id}))
                             EXCEPT !.notice = "failed"])
    /\ UNCHANGED odd

OnNotMuted ==
    LET r == Head(replies)
    IN  TakesReply("notMuted", [WithMute(page, r.id, ~r.next) EXCEPT !.notice = "failed"])
        /\ UNCHANGED odd

-----------------------------------------------------------------------------
MixerUser ==
    \/ \E v \in Volumes : SlideSystem(v)
    \/ \E i \in StreamIds, v \in StreamTops : SlideRow(i, v)
    \/ \E s \in StreamIds \cup {System} : PointerDown(s)
    \/ PointerUp
    \/ \E op \in {"mute", "reset"} : Press(op)
    \/ \E i \in StreamIds : MuteRow(i)

MixerWorld ==
    \/ \E v \in Volumes, m \in BOOLEAN : Meddle(v, m)
    \/ ServerEnds \/ ServerStarts
    \/ \E i \in StreamIds, v \in StreamTops : StreamStarts(i, v)
    \/ \E i \in StreamIds : StreamEnds(i)

MixerHost ==
    \/ GetBootstrap \/ SetVolume \/ ResetVolume \/ ToggleMute
    \/ SetSessionVolume \/ MuteSession \/ GetAudioSessions

MixerDelivery ==
    \/ OnVolume \/ OnBackend \/ OnSessions
MixerAnswers ==
    \/ OnBootstrap \/ OnList \/ OnFailed \/ OnGone \/ OnNotMuted

MixerNext ==
    \/ MixerUser \/ MixerWorld
    \/ BackoffEnds \/ PollServer \/ MixerHost
    \/ StartListening \/ Ask \/ Refresh
    \/ MixerDelivery \/ MixerAnswers

\* The main thread, the poll, both roads to the page and the timers keep going.
MixerFairness ==
    /\ WF_<<mixer, channel, occasions>>(MixerHost) /\ WF_<<mixer, channel, occasions>>(PollServer)
    /\ WF_<<mixer, channel, occasions>>(MixerDelivery) /\ WF_<<mixer, channel, occasions>>(MixerAnswers)
    /\ WF_<<mixer, channel, occasions>>(BackoffEnds) /\ WF_<<mixer, channel, occasions>>(Refresh)
    /\ WF_<<mixer, channel, occasions>>(StartListening) /\ WF_<<mixer, channel, occasions>>(Ask)

-----------------------------------------------------------------------------
(* Properties. *)

MixerTypeOK ==
    /\ world.up \in BOOLEAN /\ world.vol \in Volumes /\ world.muted \in BOOLEAN
    /\ DOMAIN world.live \subseteq StreamIds
    /\ \A i \in DOMAIN world.live : world.live[i] \in Streams
    /\ appCore \in [vol : Volumes, muted : BOOLEAN, restore : Volumes \cup {None},
                 status : {"ready", "degraded"}]
    /\ link \in [state : {"none", "ready", "stale"}, recent : BOOLEAN]
    /\ page.phase \in {"closed", "loading", "listening", "asked", "ready"}
    /\ page.vol \in Volumes /\ page.muted \in BOOLEAN /\ page.raced \in BOOLEAN
    /\ page.notice \in {None, "degraded", "failed"} /\ page.thumb \in Volumes
    /\ page.drag \in StreamIds \cup {None, System}
    /\ DOMAIN page.rows \subseteq StreamIds
    /\ odd \in [moved : BOOLEAN, recovered : BOOLEAN, strayed : BOOLEAN]

\* Nothing is under way between page and host, and the next poll has nothing to say.
AtRest ==
    /\ NothingUnderWay /\ page.phase = "ready" /\ page.drag = None
    /\ appCore.status = Health(world) /\ ~Changed(appCore, world)

\* At rest the mixer shows the core's volume and mute flag, a degraded backend is
\* announced and a healthy one is not called degraded, and the system thumb stands
\* at the volume: the revision counter, the bootstrap and the echo guard of
\* sessionStore.ts and SystemOutputRow.tsx work together.  What is excepted are
\* changes around the bootstrap, a lost slide and a volume that came during a drag.
MixerAgrees ==
    AtRest =>
      /\ odd.moved \/ <<page.vol, page.muted>> = <<appCore.vol, appCore.muted>>
      /\ appCore.status = "degraded" => page.notice # None
      /\ page.notice = "degraded" => odd.recovered \/ appCore.status = "degraded"
      /\ odd.strayed \/ page.thumb = page.vol

RowsOf(rows) == [i \in DOMAIN rows |-> Stream(rows[i].vol, rows[i].muted)]

\* Once the server stays up, and after whatever stale lists, failed writes and
\* reverted mutes, the rows are the live streams with their volumes and mute flags.
RowsCatchUp == <>[](world.up /\ IsOpen => RowsOf(page.rows) = world.live)
=============================================================================
