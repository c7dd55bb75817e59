----------------------------- MODULE VolumeCore -----------------------------
(***************************************************************************)
(* The volume half of AppCore (crates/volumectl/src/host_core.rs): the     *)
(* handlers that read and write the default output endpoint, the cache     *)
(* last_state, the mute fallback's mute_restore_volume and the backend     *)
(* health, with what the EventSink was last told.                          *)
(*                                                                         *)
(* A handler runs under the AppCore mutex, so only one is in progress; but *)
(* the endpoint belongs to the operating system, and any other program can *)
(* move it between two audio calls of a handler.  Each audio call is one   *)
(* step: (pc, op, arg) name the call the handler makes next.  Any call may *)
(* fail.  A get_state is two calls on every platform, the volume and then  *)
(* the mute flag: a probe can be torn.                                     *)
(***************************************************************************)
EXTENDS Integers, Absent

CONSTANTS
    Full,        \* volume 1.0, in endpoint units (volume 0.0 is 0)
    PerPercent,  \* endpoint units in one percent
    Steps,       \* the signed steps of AdjustVolume, in percent
    Wasapi,      \* TRUE: the Windows endpoint, FALSE: PulseAudio or CoreAudio
    Webviews,    \* TRUE when a webview may mount and ask for the bootstrap
    Errors,      \* the texts a failed audio call can carry
    Ready,       \* the status without an error
    MaxFaults,   \* bound: failed audio calls in a behaviour
    MaxMeddles   \* bound: changes other programs make to the endpoint

ASSUME ScaleAssumption ==
    /\ PerPercent \in Nat \ {0}
    /\ Full \in Nat \ {0}
    /\ Full % (2 * PerPercent) = 0
ASSUME StepsAssumption == Steps \subseteq Int
ASSUME ModeAssumption == Wasapi \in BOOLEAN /\ Webviews \in BOOLEAN
ASSUME ErrorsAssumption == Ready \notin Errors
ASSUME NoneAssumption == None \notin Nat
ASSUME BoundsAssumption == MaxFaults \in Nat /\ MaxMeddles \in Nat

VARIABLES
    ep,        \* the endpoint: volume and mute flag, owned by the system
    last,      \* AppCore.last_state
    restore,   \* AppCore.mute_restore_volume
    backend,   \* AppCore.backend_status: Ready, or the error of Degraded
    tray,      \* what EventSink::volume was last told
    banner,    \* what EventSink::backend was last told, and a bit that flips
               \* with every such call
    pc, op, arg,  \* the audio call the running handler makes next
    probe,     \* the volume its get_state has read, before the mute flag
    faults, meddles,  \* what is left of the two bounds
    silenced,  \* history: the volume the mute fallback took away, while the
               \* zero it wrote is still the last write to the volume
    torn,      \* history: the endpoint was moved since probe was read
    doubt,     \* history: a call failed, or the endpoint was moved, since
               \* the last probe that was adopted began
    touched    \* history: the endpoint was moved since this handler began

core  == <<last, restore, backend>>
shell == <<tray, banner>>
call  == <<pc, op, arg, probe>>
vars  == <<ep, core, shell, call, faults, meddles,
          silenced, torn, doubt, touched>>

Volumes  == 0 .. Full
States   == [volume : Volumes, muted : BOOLEAN]
Statuses == Errors \cup {Ready}

\* VolumeState::percent: rounded half up.
Percent(v) == (2 * v + PerPercent) \div (2 * PerPercent)
Percents   == {Percent(v) : v \in Volumes}
Render(s)  == [pct |-> Percent(s.volume), muted |-> s.muted]

Clamp(v) == IF v < 0 THEN 0 ELSE IF v > Full THEN Full ELSE v
StepVolume(v, pct) == Clamp(v + pct * PerPercent)

Calls == {"idle", "write", "resume", "confirm", "read", "silence", "zero",
          "rollback", "unmute", "restore", "reread",
          "rawRead", "rawFlip", "rawMute", "rawCheck", "sync", "mount"}
Probing == {"confirm", "read", "reread", "sync", "mount"}
Ops   == {"action", "cli", "toggle", "mute", "unmute", "config", "poll", "mount"}

-----------------------------------------------------------------------------
Init ==
    /\ ep \in States
    /\ \/ last = ep /\ backend = Ready
       \/ /\ MaxFaults > 0
          /\ last = [volume |-> Full \div 2, muted |-> FALSE]
          /\ backend \in Errors
    /\ restore = None
    /\ tray = Render(last)
    /\ banner = [status |-> backend, flip |-> FALSE]
    /\ pc = "idle" /\ op = "config" /\ arg = 0 /\ probe = None
    /\ faults = IF backend = Ready THEN MaxFaults ELSE MaxFaults - 1
    /\ meddles = MaxMeddles
    /\ silenced = None
    /\ doubt = (backend # Ready)
    /\ torn = FALSE /\ touched = FALSE

-----------------------------------------------------------------------------
(* Pieces of a step. *)

Goto(c) == pc' = c /\ probe' = None /\ UNCHANGED <<op, arg>>

\* A failed audio call changes nothing at the endpoint.
Fault ==
    /\ faults > 0
    /\ faults' = faults - 1
    /\ doubt' = TRUE
    /\ UNCHANGED <<ep, meddles, silenced, torn, touched>>

Fine == UNCHANGED <<faults, meddles, torn, touched>>

\* What get_state returns, once it has read the volume.
Probe == [volume |-> probe, muted |-> ep.muted]

\* Mutant of Publish: the volume just asked for is published in place of the one
\* read back.
PublishTarget ==
    /\ probe # None /\ last' = [Probe EXCEPT !.volume = arg]
    /\ tray' = Render(last') /\ doubt' = torn
    /\ UNCHANGED <<ep, silenced, restore>> /\ Fine

\* publish_state, right after a successful get_state.
Publish ==
    /\ probe # None
    /\ last' = Probe
    /\ tray' = Render(Probe)
    /\ doubt' = torn
    /\ UNCHANGED <<ep, silenced, restore>>
    /\ Fine

\* note_backend_result, for a probe that ended in status s.
Note(s) ==
    /\ backend' = s
    /\ banner' = IF s = backend THEN banner
                 ELSE [status |-> s, flip |-> ~banner.flip]

\* A get_state that fails in note_backend_result's care.
NotedFault ==
    /\ Fault
    /\ \E e \in Errors : Note(e)
    /\ UNCHANGED <<last, restore, tray>>

\* A fallible call whose error ends the handler before anything is published.
FaultEnds ==
    /\ Fault /\ Goto("idle")
    /\ UNCHANGED <<core, shell>>

\* AudioBackend::set_volume: on Windows a positive volume also unmutes, and
\* an error of that second call is dropped.
Written(v) ==
    {[volume |-> v, muted |-> m] :
        m \in IF Wasapi /\ v > 0 THEN {ep.muted, FALSE} ELSE {ep.muted}}

-----------------------------------------------------------------------------
(* The operations: each takes the AppCore mutex. *)

Begin(c, o, v) ==
    /\ pc = "idle"
    /\ pc' = c /\ op' = o /\ arg' = v /\ probe' = None
    /\ touched' = FALSE
    /\ UNCHANGED <<ep, core, shell, faults, meddles, silenced, torn, doubt>>

SetVolumePercent(o) == \E p \in Percents : Begin("write", o, Clamp(p * PerPercent))
AdjustVolume == \E d \in Steps : Begin("write", "action", StepVolume(last.volume, d))
ResetVolume  == Begin("write", "action", Full \div 2)
ToggleMute   == Begin("read", "toggle", 0)
SetMute      == \E o \in {"mute", "unmute"} : Begin("read", o, 0)
CliSetMuted  == \E o \in {"mute", "unmute"} : Begin("rawMute", o, 0)
CliToggleMuted == Begin("rawRead", "toggle", 0)
\* Every path that adopts a config ends in publish_confirmed_state.
AdoptConfig  == Begin("confirm", "config", 0)
\* The 150 ms poll, and a webview that mounts.
SyncExternalState == Begin("sync", "poll", 0)
Bootstrap    == Webviews /\ Begin("mount", "mount", 0)

-----------------------------------------------------------------------------
(* The audio calls of the handlers. *)

\* The first half of a get_state.  It can fail like the second half, whose
\* actions below tell what the handler does then.
LookCall ==
    /\ pc \in Probing /\ probe = None
    /\ probe' = ep.volume /\ torn' = FALSE
    /\ UNCHANGED <<ep, core, shell, pc, op, arg, faults, meddles, silenced, doubt, touched>>

\* set_volume(target) of SetVolumePercent, AdjustVolume and ResetVolume; the
\* command line's handler returns on an error, the others go on to publish.
WriteCall ==
    /\ pc = "write"
    /\ \/ /\ ep' \in Written(arg)
          /\ silenced' = None
          /\ Goto(IF arg > 0 THEN "resume" ELSE "confirm")
          /\ Fine /\ UNCHANGED doubt
       \/ /\ Fault
          /\ Goto(IF op = "cli" THEN "idle" ELSE "confirm")
    /\ UNCHANGED <<core, shell>>

\* set_mute(false) after a positive write.
ResumeCall ==
    /\ pc = "resume"
    /\ \/ /\ ep' = [ep EXCEPT !.muted = FALSE]
          /\ restore' = None
          /\ Goto("confirm")
          /\ Fine /\ UNCHANGED <<silenced, doubt>>
       \/ /\ Fault
          /\ restore' = IF op = "cli" THEN restore ELSE None
          /\ Goto(IF op = "cli" THEN "idle" ELSE "confirm")
    /\ UNCHANGED <<last, backend, shell>>

\* publish_confirmed_state.
ConfirmCall ==
    /\ pc = "confirm"
    /\ (Publish /\ Note(Ready)) \/ NotedFault
    /\ Goto("idle")

\* The get_state that opens toggle_mute and set_mute.
Silencing == op = "mute" \/ (op = "toggle" /\ ~ep.muted)
AlreadyThere ==
    \/ op = "mute" /\ ep.muted /\ probe = 0
    \/ op = "unmute" /\ ~ep.muted

ReadNothingToDo ==
    /\ pc = "read" /\ AlreadyThere
    /\ Publish /\ Goto("idle")
    /\ UNCHANGED <<backend, banner>>

\* Mutant of ReadToSilence: the volume is not remembered.
SilenceForgets ==
    /\ pc = "read" /\ probe # None /\ ~AlreadyThere /\ Silencing
    /\ pc' = "silence" /\ arg' = probe /\ probe' = None
    /\ Fine /\ UNCHANGED <<ep, core, shell, op, silenced, doubt>>

ReadToSilence ==
    /\ pc = "read" /\ probe # None /\ ~AlreadyThere /\ Silencing
    /\ restore' = probe
    /\ pc' = "silence" /\ arg' = probe /\ probe' = None
    /\ Fine /\ UNCHANGED <<ep, last, backend, shell, op, silenced, doubt>>

\* mute_restore_volume.take().unwrap_or(current.volume)
VolumeToRestore(volume) == IF restore = None THEN volume ELSE restore

ReadToUnmute ==
    /\ pc = "read" /\ probe # None /\ ~AlreadyThere /\ ~Silencing
    /\ restore' = None
    /\ pc' = "unmute" /\ arg' = VolumeToRestore(probe) /\ probe' = None
    /\ Fine /\ UNCHANGED <<ep, last, backend, shell, op, silenced, doubt>>

ReadFails == pc = "read" /\ FaultEnds

\* A set_mute(m) in the middle of a handler, followed by the call named next.
MuteFlagCall(here, m, next) ==
    /\ pc = here
    /\ \/ /\ ep' = [ep EXCEPT !.muted = m]
          /\ Goto(next)
          /\ Fine /\ UNCHANGED <<core, shell, silenced, doubt>>
       \/ FaultEnds

SilenceCall  == MuteFlagCall("silence", TRUE, "zero")
UnmuteCall   == MuteFlagCall("unmute", FALSE, "restore")
\* toggle_mute puts the mute flag back when the volume could not be zeroed,
\* and drops an error of that call; set_mute does not.
RollbackCall == MuteFlagCall("rollback", FALSE, "idle")

ZeroCall ==
    /\ pc = "zero"
    /\ \/ /\ ep' = [ep EXCEPT !.volume = 0]
          /\ silenced' = arg
          /\ Goto("reread")
          /\ Fine /\ UNCHANGED doubt
       \/ /\ Fault
          /\ Goto(IF op = "toggle" THEN "rollback" ELSE "idle")
    /\ UNCHANGED <<core, shell>>

RestoreCall ==
    /\ pc = "restore"
    /\ \/ /\ ep' \in Written(arg)
          /\ silenced' = None
          /\ Goto("reread")
          /\ Fine /\ UNCHANGED <<core, shell, doubt>>
       \/ FaultEnds

\* Mutant of RereadCall: the handler ends without reading back.
RereadSkipped ==
    pc = "reread" /\ Goto("idle")
    /\ Fine /\ UNCHANGED <<ep, core, shell, silenced, doubt>>

\* The closing get_state of toggle_mute and set_mute does not pass through
\* note_backend_result.
RereadCall ==
    /\ pc = "reread"
    /\ \/ Publish /\ Goto("idle") /\ UNCHANGED <<backend, banner>>
       \/ FaultEnds

\* AudioBackend::toggle_mute: a read, then a write of the opposite; PulseAudio
\* and CoreAudio read the state once more.
RawReadCall ==
    /\ pc = "rawRead"
    /\ \/ /\ pc' = "rawFlip" /\ op' = IF ep.muted THEN "unmute" ELSE "mute"
          /\ Fine /\ UNCHANGED <<ep, core, shell, arg, probe, silenced, doubt>>
       \/ FaultEnds
RawFlipCall  == MuteFlagCall("rawFlip", op = "mute",
                             IF Wasapi THEN "confirm" ELSE "rawCheck")
RawMuteCall  == MuteFlagCall("rawMute", op = "mute", "confirm")
RawCheckCall ==
    /\ pc = "rawCheck"
    /\ \/ /\ Goto("confirm")
          /\ Fine /\ UNCHANGED <<ep, core, shell, silenced, doubt>>
       \/ FaultEnds

-----------------------------------------------------------------------------
(* The end of the poll's probe and of the webview's. *)

\* Mutant of SyncCall: only the health is refreshed.
SyncHealthOnly ==
    /\ pc = "sync" /\ probe # None /\ Goto("idle") /\ Note(Ready)
    /\ Fine /\ UNCHANGED <<ep, last, restore, tray, silenced, doubt>>

\* sync_external_state
SyncCall ==
    /\ pc = "sync" /\ Goto("idle")
    /\ \/ /\ probe # None /\ Note(Ready)
          /\ IF last = Probe THEN UNCHANGED tray ELSE tray' = Render(Probe)
          /\ last' = Probe /\ doubt' = torn
          /\ Fine /\ UNCHANGED <<ep, silenced, restore>>
       \/ NotedFault

\* bootstrap refreshes the cache and answers the webview, without telling the
\* sink the volume.
MountCall ==
    /\ pc = "mount" /\ Goto("idle")
    /\ \/ /\ probe # None /\ Note(Ready)
          /\ last' = Probe /\ doubt' = torn
          /\ Fine /\ UNCHANGED <<ep, tray, silenced, restore>>
       \/ NotedFault

\* The media keys, another program, or a switch of the default device.
Meddle ==
    /\ meddles > 0
    /\ ep' \in States \ {ep}
    /\ meddles' = meddles - 1
    /\ silenced' = IF ep'.volume = ep.volume THEN silenced ELSE None
    /\ doubt' = TRUE /\ touched' = TRUE /\ torn' = (probe # None)
    /\ UNCHANGED <<core, shell, call, faults>>

Operation ==
    \/ SetVolumePercent("action") \/ SetVolumePercent("cli")
    \/ AdjustVolume \/ ResetVolume
    \/ ToggleMute \/ SetMute \/ CliSetMuted \/ CliToggleMuted \/ AdoptConfig
    \/ SyncExternalState \/ Bootstrap

Handler ==
    \/ LookCall \/ SyncCall \/ MountCall
    \/ WriteCall \/ ResumeCall \/ ConfirmCall
    \/ ReadNothingToDo \/ ReadToSilence \/ ReadToUnmute \/ ReadFails
    \/ SilenceCall \/ ZeroCall \/ RollbackCall
    \/ UnmuteCall \/ RestoreCall \/ RereadCall
    \/ RawReadCall \/ RawFlipCall \/ RawMuteCall \/ RawCheckCall

Next == Operation \/ Handler \/ Meddle

\* A handler that holds the mutex runs to its end, and the poll thread wakes
\* every 150 ms for as long as the program runs.
Fairness == WF_vars(Handler) /\ WF_vars(SyncExternalState)

Spec == Init /\ [][Next]_vars
FairSpec == Spec /\ Fairness

-----------------------------------------------------------------------------
(* Properties. *)

\* Every variable keeps its type.
TypeOK ==
    /\ ep \in States /\ last \in States
    /\ restore \in Volumes \cup {None}
    /\ silenced \in Volumes \cup {None}
    /\ backend \in Statuses
    /\ tray \in [pct : Percents, muted : BOOLEAN]
    /\ banner \in [status : Statuses, flip : BOOLEAN]
    /\ pc \in Calls /\ op \in Ops /\ arg \in Volumes
    /\ probe \in Volumes \cup {None}
    /\ faults \in 0 .. MaxFaults /\ meddles \in 0 .. MaxMeddles
    /\ torn \in BOOLEAN /\ doubt \in BOOLEAN /\ touched \in BOOLEAN

\* Whenever the mutex is free, the cache is the endpoint's true state, unless
\* a call failed or somebody else moved the endpoint since the last adopted
\* probe began: no handler of AppCore leaves its own write unconfirmed.
CacheExact == pc = "idle" /\ ~doubt => last = ep

\* The tray shows the cached state at every moment (EventSink::volume is
\* called for each new last_state).
TrayShowsCache == tray = Render(last)

\* While no audio call has failed and the zero written by the mute fallback is
\* still the last write to the volume, the next unmute brings back the volume the
\* fallback took away.  (Both unmutes take mute_restore_volume before calls that
\* can fail: after such a failure the volume is forgotten.)
SilencedRemembers ==
    faults = MaxFaults /\ pc = "idle" /\ silenced # None
        => VolumeToRestore(ep.volume) = silenced

\* The command line's set_volume_percent does not reach its publishing Ok with
\* a positive volume on an endpoint that stayed muted, unless another program
\* interfered.
CliPositiveIsAudible ==
    pc = "confirm" /\ op = "cli" /\ arg > 0 /\ ~touched => ~ep.muted

\* EventSink::backend is called exactly once per change of backend_status, and
\* with the new status.
BackendAnnouncedOnce ==
    [][/\ (banner'.flip # banner.flip) <=> (backend' # backend)
       /\ banner'.status = backend']_vars

\* The cache mirrors the endpoint: it only ever becomes what one look at the
\* endpoint has seen, so no target, no guess and no older reading enters it.
Mirror == INSTANCE VolumeMirror
              WITH EndpointStates <- States,
                   Fallback <- [volume |-> Full \div 2, muted |-> FALSE],
                   endpoint <- ep, copy <- last, glimpse <- probe
MirrorSpec == Mirror!Spec

\* Once the user leaves the program alone, a state the endpoint settles in
\* reaches the cache.
Quiet == <>[](op = "poll")
CacheCatchesUp ==
    Quiet => \A s \in States : (ep = s) ~> (last = s \/ ep # s)
=============================================================================
