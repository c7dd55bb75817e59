------------------------- MODULE VolumeCore_proofs --------------------------
(***************************************************************************)
(* Theorems about the volume half of AppCore, for every scale, step set,   *)
(* endpoint kind and bound; and, in the second half, about the GTK and  *)
(* the AppKit host, which speak to the device without AppCore: the types,  *)
(* and ReadyIsConfirmed.  The two machines share no state.                 *)
(***************************************************************************)
EXTENDS VolumeCore, UnixHost, FiniteSetTheorems, TLAPS

\* Clamping lands in the endpoint's range (clamp_volume, VolumeState::percent).
LEMMA ClampInRange ==
    ASSUME NEW v \in Int PROVE Clamp(v) \in Volumes
  BY ScaleAssumption DEF Clamp, Volumes

\* The rendering of an endpoint state is something the tray can show.
LEMMA RenderInRange ==
    ASSUME NEW s \in States PROVE Render(s) \in [pct : Percents, muted : BOOLEAN]
  BY DEF Render, Percents, States

LEMMA PercentsAreIntegers == Percents \subseteq Int
  <1> SUFFICES ASSUME NEW v \in Volumes PROVE Percent(v) \in Int
    BY DEF Percents
  <1>1. 2 * v + PerPercent \in Int /\ 2 * PerPercent \in Nat \ {0}
    BY ScaleAssumption DEF Volumes
  <1> QED BY <1>1, SMT DEF Percent

LEMMA HalfInRange == Full \div 2 \in Volumes /\ 0 \in Volumes
  BY ScaleAssumption DEF Volumes

-----------------------------------------------------------------------------
\* Every variable of AppCore, of the shell and of the endpoint keeps its type.
THEOREM TypeCorrect == Spec => []TypeOK
  <1>1. Init => TypeOK
    <2> SUFFICES ASSUME Init PROVE TypeOK
      OBVIOUS
    <2>1. last \in States
      <3>1. [volume |-> Full \div 2, muted |-> FALSE] \in States
        BY HalfInRange DEF States
      <3> QED BY <3>1 DEF Init
    <2>2. tray \in [pct : Percents, muted : BOOLEAN]
      BY <2>1, RenderInRange DEF Init
    <2>3. torn \in BOOLEAN /\ doubt \in BOOLEAN /\ touched \in BOOLEAN
      BY Zenon DEF Init
    <2>4. backend \in Statuses /\ banner \in [status : Statuses, flip : BOOLEAN]
      BY DEF Init, Statuses
    <2>5. faults \in 0 .. MaxFaults /\ meddles \in 0 .. MaxMeddles
      BY BoundsAssumption, ErrorsAssumption DEF Init
    <2>6. ep \in States /\ pc \in Calls /\ op \in Ops /\ arg \in Volumes
      BY HalfInRange DEF Init, Calls, Ops
    <2> QED
      BY <2>1, <2>2, <2>3, <2>4, <2>5, <2>6, Zenon DEF Init, TypeOK
  <1>2. TypeOK /\ [Next]_vars => TypeOK'
    <2> SUFFICES ASSUME TypeOK, [Next]_vars PROVE TypeOK'
      OBVIOUS
    <2>1. ASSUME Operation PROVE TypeOK'
      <3>1. ASSUME NEW c \in Calls, NEW o \in Ops, NEW v \in Volumes, Begin(c, o, v)
            PROVE  TypeOK'
        BY <3>1 DEF Begin, TypeOK, core, shell
      <3>2. \A o \in {"action", "cli"} : SetVolumePercent(o) => TypeOK'
        <4> SUFFICES ASSUME NEW o \in {"action", "cli"}, NEW p \in Percents,
                            Begin("write", o, Clamp(p * PerPercent))
                     PROVE  TypeOK'
          BY DEF SetVolumePercent
        <4>1. Clamp(p * PerPercent) \in Volumes
          BY ClampInRange, PercentsAreIntegers, ScaleAssumption
        <4> QED BY <3>1, <4>1 DEF Calls, Ops
      <3>3. AdjustVolume => TypeOK'
        <4> SUFFICES ASSUME NEW d \in Steps,
                            Begin("write", "action", StepVolume(last.volume, d))
                     PROVE  TypeOK'
          BY DEF AdjustVolume
        <4>1. StepVolume(last.volume, d) \in Volumes
          <5>1. last.volume + d * PerPercent \in Int
            BY StepsAssumption, ScaleAssumption DEF TypeOK, States, Volumes
          <5> QED BY <5>1, ClampInRange DEF StepVolume
        <4> QED BY <3>1, <4>1 DEF Calls, Ops
      <3>4. ResetVolume => TypeOK'
        BY <3>1, HalfInRange DEF ResetVolume, Calls, Ops
      <3>5. ToggleMute \/ SetMute \/ CliSetMuted \/ CliToggleMuted => TypeOK'
        BY <3>1, HalfInRange
        DEF ToggleMute, SetMute, CliSetMuted, CliToggleMuted, Calls, Ops
      <3>6. AdoptConfig \/ SyncExternalState \/ Bootstrap => TypeOK'
        BY <3>1, HalfInRange DEF AdoptConfig, SyncExternalState, Bootstrap, Calls, Ops
      <3> QED BY <2>1, <3>2, <3>3, <3>4, <3>5, <3>6 DEF Operation
    <2>2. Fault => /\ faults' \in 0 .. MaxFaults /\ doubt' \in BOOLEAN
                   /\ UNCHANGED <<ep, meddles, silenced, torn, touched>>
      BY BoundsAssumption DEF Fault, TypeOK
    <2> DEFINE Shows == [pct : Percents, muted : BOOLEAN]
    <2>0. probe # None => Probe \in States /\ Render(Probe) \in Shows
      BY RenderInRange DEF Probe, TypeOK, States
    <2>3. Publish =>
            /\ last' \in States /\ doubt' \in BOOLEAN /\ tray' \in Shows
            /\ UNCHANGED <<ep, silenced, restore, faults, meddles, torn, touched>>
      BY <2>0 DEF Publish, Fine, TypeOK
    <2>4. \A s \in Statuses : Note(s) => /\ backend' \in Statuses
                           /\ banner' \in [status : Statuses, flip : BOOLEAN]
      BY DEF Note, TypeOK
    <2>5. NotedFault => /\ faults' \in 0 .. MaxFaults /\ doubt' \in BOOLEAN
                        /\ backend' \in Statuses
                        /\ banner' \in [status : Statuses, flip : BOOLEAN]
                        /\ UNCHANGED <<ep, meddles, silenced, torn, touched, last, restore, tray>>
      BY <2>2, <2>4 DEF NotedFault, Statuses
    <2>6. FaultEnds => TypeOK'
      BY <2>2 DEF FaultEnds, Goto, core, shell, TypeOK, Calls
    <2>7. \A v \in Volumes : Written(v) \subseteq States
      <3> SUFFICES ASSUME NEW v \in Volumes, NEW m \in {ep.muted, FALSE}
                   PROVE  [volume |-> v, muted |-> m] \in States
        BY DEF Written
      <3> QED BY DEF TypeOK, States
    <2>8. ASSUME NEW here, NEW m \in BOOLEAN, NEW next \in Calls,
                 MuteFlagCall(here, m, next)
          PROVE  TypeOK'
      BY <2>6, <2>8 DEF MuteFlagCall, Goto, Fine, core, shell, TypeOK, States
    <2>9. ASSUME Handler PROVE TypeOK'
      <3>1. CASE WriteCall
        BY <3>1, <2>2, <2>7 DEF WriteCall, Goto, Fine, core, shell, TypeOK, Calls
      <3>2. CASE ResumeCall
        BY <3>2, <2>2 DEF ResumeCall, Goto, Fine, shell, TypeOK, Calls, States
      <3>3. CASE ConfirmCall
        BY <3>3, <2>3, <2>4, <2>5 DEF ConfirmCall, Goto, TypeOK, Calls, Statuses
      <3>4. CASE ReadNothingToDo
        BY <3>4, <2>3 DEF ReadNothingToDo, Goto, TypeOK, Calls
      <3>5. CASE ReadToSilence
        BY <3>5 DEF ReadToSilence, Fine, shell, TypeOK, Calls, States
      <3>6. CASE ReadToUnmute
        BY <3>6 DEF ReadToUnmute, VolumeToRestore, Fine, shell, TypeOK, Calls, States
      <3>7. CASE ReadFails
        BY <3>7, <2>6 DEF ReadFails
      <3>8. CASE SilenceCall \/ RollbackCall \/ UnmuteCall
        BY <3>8, <2>8 DEF SilenceCall, RollbackCall, UnmuteCall, Calls
      <3>9. CASE ZeroCall
        BY <3>9, <2>2, HalfInRange DEF ZeroCall, Goto, Fine, core, shell, TypeOK, Calls, States
      <3>10. CASE RestoreCall
        BY <3>10, <2>6, <2>7 DEF RestoreCall, Goto, Fine, core, shell, TypeOK, Calls
      <3>11. CASE RereadCall
        BY <3>11, <2>3, <2>6 DEF RereadCall, Goto, TypeOK, Calls
      <3>12. CASE RawReadCall
        BY <3>12, <2>6 DEF RawReadCall, Fine, core, shell, TypeOK, Calls, Ops
      <3>13. CASE RawFlipCall
        BY <3>13, <2>8 DEF RawFlipCall, Calls
      <3>14. CASE RawMuteCall
        BY <3>14, <2>8 DEF RawMuteCall, Calls
      <3>15. CASE RawCheckCall
        BY <3>15, <2>6 DEF RawCheckCall, Goto, Fine, core, shell, TypeOK, Calls
      <3>16. CASE LookCall
        BY <3>16 DEF LookCall, core, shell, TypeOK, States
      <3>17. CASE SyncCall
        <4>1. tray' \in Shows
          BY <3>17, <2>0, <2>5 DEF SyncCall, TypeOK
        <4> QED BY <3>17, <4>1, <2>0, <2>4, <2>5
                DEF SyncCall, Goto, Fine, TypeOK, Statuses, Calls
      <3>18. CASE MountCall
        BY <3>18, <2>0, <2>4, <2>5 DEF MountCall, Goto, Fine, TypeOK, Statuses, Calls
      <3> QED BY <2>9, <3>1, <3>2, <3>3, <3>4, <3>5, <3>6, <3>7, <3>8, <3>9,
                 <3>10, <3>11, <3>12, <3>13, <3>14, <3>15, <3>16, <3>17, <3>18
              DEF Handler
    <2>12. ASSUME Meddle PROVE TypeOK'
      BY <2>12, BoundsAssumption DEF Meddle, core, shell, call, TypeOK
    <2>13. ASSUME UNCHANGED vars PROVE TypeOK'
      BY <2>13 DEF vars, core, shell, call, TypeOK
    <2> QED BY <2>1, <2>9, <2>12, <2>13 DEF Next
  <1> QED BY <1>1, <1>2, PTL DEF Spec
-----------------------------------------------------------------------------
\* The only steps that touch the cache or the tray's volume are adopted probes:
\* the cache becomes what the probe saw, and the tray is told, unless the probe
\* was a webview's bootstrap.
Adopted == /\ probe # None /\ probe' = None
           /\ last' = Probe /\ ep' = ep

LEMMA OnlyProbesMoveTheCache ==
    ASSUME [Next]_vars
    PROVE  \/ UNCHANGED <<last, tray>>
           \/ Adopted /\ tray' = Render(last')
           \/ Adopted /\ last' = last /\ tray' = tray
           \/ Adopted /\ pc = "mount"
  <1> DEFINE Conclusion == \/ UNCHANGED <<last, tray>>
                           \/ Adopted /\ tray' = Render(last')
                           \/ Adopted /\ last' = last /\ tray' = tray
                           \/ Adopted /\ pc = "mount"
  <1>1. CASE Operation
    BY <1>1 DEF Operation, SetVolumePercent, AdjustVolume, ResetVolume, ToggleMute,
       SetMute, CliSetMuted, CliToggleMuted, AdoptConfig, SyncExternalState, Bootstrap,
       Begin, core, shell
  <1>2. ASSUME NEW c, Publish, Goto(c) PROVE Conclusion
    BY <1>2 DEF Publish, Goto, Adopted
  <1>3. FaultEnds \/ NotedFault => Conclusion
    BY DEF FaultEnds, NotedFault, core, shell
  <1>4. \A here, m, next : MuteFlagCall(here, m, next) => Conclusion
    BY <1>3 DEF MuteFlagCall, core, shell
  <1>5. CASE Handler
    <2>1. CASE LookCall \/ WriteCall \/ ResumeCall \/ ZeroCall
      BY <2>1 DEF LookCall, WriteCall, ResumeCall, ZeroCall, core, shell
    <2>2. CASE ConfirmCall \/ ReadNothingToDo \/ ReadFails \/ RereadCall
      BY <2>2, <1>2, <1>3 DEF ConfirmCall, ReadNothingToDo, ReadFails, RereadCall
    <2>3. CASE ReadToSilence \/ ReadToUnmute \/ RestoreCall \/ RawReadCall \/ RawCheckCall
      BY <2>3, <1>3
      DEF ReadToSilence, ReadToUnmute, RestoreCall, RawReadCall, RawCheckCall, core, shell
    <2>4. CASE SilenceCall \/ RollbackCall \/ UnmuteCall \/ RawFlipCall \/ RawMuteCall
      BY <2>4, <1>4
      DEF SilenceCall, RollbackCall, UnmuteCall, RawFlipCall, RawMuteCall
    <2>5. CASE SyncCall
      BY <2>5, <1>3 DEF SyncCall, Goto, Adopted
    <2>6. CASE MountCall
      BY <2>6, <1>3 DEF MountCall, Goto, Adopted
    <2> QED BY <1>5, <2>1, <2>2, <2>3, <2>4, <2>5, <2>6 DEF Handler
  <1>8. CASE Meddle
    BY <1>8 DEF Meddle, core, shell
  <1>9. CASE UNCHANGED vars
    BY <1>9 DEF vars, core, shell
  <1> QED BY <1>1, <1>5, <1>8, <1>9 DEF Next

\* While no webview mounts, the tray shows the cached state at every moment.
THEOREM TrayIsTheCache ==
    ASSUME ~Webviews
    PROVE  Spec => []TrayShowsCache
  <1> DEFINE Inv == TrayShowsCache /\ pc # "mount"
  <1>1. Init => Inv
    BY DEF Init, TrayShowsCache
  <1>2. Inv /\ [Next]_vars => Inv'
    <2> SUFFICES ASSUME Inv, [Next]_vars PROVE Inv'
      OBVIOUS
    <2>1. TrayShowsCache'
      BY OnlyProbesMoveTheCache DEF TrayShowsCache, Render
    <2>2. pc' # "mount"
      <3>1. CASE Operation
        BY <3>1 DEF Operation, SetVolumePercent, AdjustVolume, ResetVolume, ToggleMute,
           SetMute, CliSetMuted, CliToggleMuted, AdoptConfig, SyncExternalState,
           Bootstrap, Begin
      <3>2. CASE Handler
        BY <3>2 DEF Handler, LookCall, SyncCall, MountCall, WriteCall, ResumeCall,
           ConfirmCall, ReadNothingToDo, ReadToSilence, ReadToUnmute, ReadFails,
           SilenceCall, ZeroCall, RollbackCall, UnmuteCall, RestoreCall, RereadCall,
           RawReadCall, RawFlipCall, RawMuteCall, RawCheckCall, MuteFlagCall,
           FaultEnds, Goto
      <3>3. CASE Meddle \/ UNCHANGED vars
        BY <3>3 DEF Meddle, vars, call
      <3> QED BY <3>1, <3>2, <3>3 DEF Next
    <2> QED BY <2>1, <2>2
  <1> QED BY <1>1, <1>2, PTL DEF Spec

\* Between two steps the half-done probe is kept, begun or given up.
LEMMA ProbeSteps ==
    ASSUME [Next]_vars
    PROVE  \/ probe' \in {probe, None}
           \/ probe' = ep.volume /\ UNCHANGED <<ep, last>>
  <1>1. CASE Operation
    BY <1>1 DEF Operation, SetVolumePercent, AdjustVolume, ResetVolume, ToggleMute,
       SetMute, CliSetMuted, CliToggleMuted, AdoptConfig, SyncExternalState, Bootstrap,
       Begin
  <1>2. CASE Handler
    <2>1. CASE LookCall
      BY <2>1 DEF LookCall, core
    <2>2. CASE ~LookCall
      BY <1>2, <2>2 DEF Handler, SyncCall, MountCall, WriteCall, ResumeCall,
         ConfirmCall, ReadNothingToDo, ReadToSilence, ReadToUnmute, ReadFails,
         SilenceCall, ZeroCall, RollbackCall, UnmuteCall, RestoreCall, RereadCall,
         RawReadCall, RawFlipCall, RawMuteCall, RawCheckCall, MuteFlagCall,
         FaultEnds, Goto
    <2> QED BY <2>1, <2>2
  <1>3. CASE Meddle \/ UNCHANGED vars
    BY <1>3 DEF Meddle, vars, call
  <1> QED BY <1>1, <1>2, <1>3 DEF Next

\* AppCore's cache implements the mirror: it changes only into what one look has
\* seen, whatever other programs do between a handler's calls and whichever of
\* its calls fail.
THEOREM ImplementsMirror == Spec => MirrorSpec
  <1>1. Init => Mirror!Init
    BY DEF Init, Mirror!Init
  <1>2. TypeOK' /\ [Next]_vars => [Mirror!Next]_(Mirror!vars)
    <2> SUFFICES ASSUME TypeOK', [Next]_vars
                 PROVE  Mirror!Next
      OBVIOUS
    <2>1. ep' \in States
      BY DEF TypeOK
    <2>2. CASE Adopted
      BY <2>2 DEF Adopted, Probe, Mirror!Next, Mirror!Adopt
    <2>3. CASE UNCHANGED last
      BY <2>1, <2>3, ProbeSteps DEF Mirror!Next, Mirror!Move, Mirror!Look
    <2> QED BY <2>2, <2>3, OnlyProbesMoveTheCache
  <1> QED BY <1>1, <1>2, TypeCorrect, PTL DEF Spec, MirrorSpec, Mirror!Spec

-----------------------------------------------------------------------------
\* CacheExact is not inductive: a probe is whole only because nobody moved the
\* endpoint since its first half, and the rollback of a failed mute ends its
\* handler without a probe, which is sound because a call has failed before it.
CacheInv ==
    /\ CacheExact
    /\ pc = "rollback" => doubt
    /\ probe # None /\ ~torn => probe = ep.volume

\* Whenever the mutex is free, the cache is the endpoint's true state, unless a
\* call failed or another program moved the endpoint since the last adopted
\* probe began.
THEOREM CacheIsExact == Spec => []CacheExact
  <1>1. Init => CacheInv
    BY ErrorsAssumption DEF Init, CacheInv, CacheExact
  <1>2. TypeOK /\ CacheInv /\ [Next]_vars => CacheInv'
    <2> SUFFICES ASSUME TypeOK, CacheInv, [Next]_vars PROVE CacheInv'
      OBVIOUS
    <2> USE DEF CacheInv, CacheExact
    <2>1. CASE Operation
      BY <2>1 DEF Operation, SetVolumePercent, AdjustVolume, ResetVolume, ToggleMute,
         SetMute, CliSetMuted, CliToggleMuted, AdoptConfig, SyncExternalState,
         Bootstrap, Begin
    <2>2. Fault => doubt'
      BY DEF Fault
    <2>3. probe' = None /\ doubt' /\ pc' # "rollback" => CacheInv'
      OBVIOUS
    <2>4. FaultEnds => CacheInv'
      BY <2>2, <2>3 DEF FaultEnds, Goto
    <2>5. NotedFault /\ Goto("idle") => CacheInv'
      BY <2>2, <2>3 DEF NotedFault, Goto
    <2>6. probe # None /\ ~torn => Probe = ep
      BY DEF Probe, TypeOK, States
    <2>7. Publish /\ Goto("idle") => CacheInv'
      BY <2>6 DEF Publish, Goto
    <2>8. \A here, m, next : MuteFlagCall(here, m, next) /\ next \notin {"idle", "rollback"}
            => CacheInv'
      BY <2>4 DEF MuteFlagCall, Goto
    <2>9. CASE Handler
      <3>1. CASE WriteCall
        BY <3>1, <2>2 DEF WriteCall, Goto
      <3>2. CASE ResumeCall
        BY <3>2, <2>2 DEF ResumeCall, Goto
      <3>3. CASE ConfirmCall
        BY <3>3, <2>5, <2>7 DEF ConfirmCall
      <3>4. CASE ReadNothingToDo \/ ReadFails \/ RereadCall
        BY <3>4, <2>4, <2>7 DEF ReadNothingToDo, ReadFails, RereadCall
      <3>5. CASE ReadToSilence \/ ReadToUnmute
        BY <3>5 DEF ReadToSilence, ReadToUnmute
      <3>6. CASE SilenceCall \/ UnmuteCall
        BY <3>6, <2>8 DEF SilenceCall, UnmuteCall
      <3>7. CASE RollbackCall
        BY <3>7, <2>4 DEF RollbackCall, MuteFlagCall, Goto
      <3>8. CASE ZeroCall
        BY <3>8, <2>2 DEF ZeroCall, Goto
      <3>9. CASE RestoreCall
        BY <3>9, <2>4 DEF RestoreCall, Goto
      <3>10. CASE RawReadCall \/ RawCheckCall
        BY <3>10, <2>4 DEF RawReadCall, RawCheckCall, Fine, Goto
      <3>11. CASE RawFlipCall \/ RawMuteCall
        BY <3>11, <2>4 DEF RawFlipCall, RawMuteCall, MuteFlagCall, Goto
      <3>12. CASE LookCall
        BY <3>12 DEF LookCall, Probing
      <3>13. CASE SyncCall \/ MountCall
        BY <3>13, <2>5, <2>6 DEF SyncCall, MountCall, Goto
      <3> QED BY <2>9, <3>1, <3>2, <3>3, <3>4, <3>5, <3>6, <3>7, <3>8, <3>9,
                 <3>10, <3>11, <3>12, <3>13 DEF Handler
    <2>10. CASE Meddle
      BY <2>10 DEF Meddle, call
    <2>11. CASE UNCHANGED vars
      BY <2>11 DEF vars, core, call
    <2> QED BY <2>1, <2>9, <2>10, <2>11 DEF Next
  <1>3. CacheInv => CacheExact
    BY DEF CacheInv
  <1> QED BY <1>1, <1>2, <1>3, TypeCorrect, PTL DEF Spec
-----------------------------------------------------------------------------
\* What the mute fallback has recorded at each point of a handler: the volume it
\* is about to take away while it silences, nothing at risk while it unmutes or
\* after a positive write, and the volume it took away everywhere else.
MuteMemory ==
    /\ pc # "rollback"
    /\ pc \in {"silence", "zero"} => restore = arg
    /\ pc = "resume" => silenced = None
    /\ pc \notin {"silence", "zero", "unmute", "restore"} /\ silenced # None
         => restore = silenced
MuteInv == faults = MaxFaults => MuteMemory

\* A step spends one failure or none.
LEMMA FaultsOnlyFall == [Next]_vars => faults' \in {faults, faults - 1}
  <1> SUFFICES ASSUME [Next]_vars PROVE faults' \in {faults, faults - 1}
    OBVIOUS
  <1>1. Fine \/ Fault => faults' \in {faults, faults - 1}
    BY DEF Fine, Fault
  <1>2. CASE Operation
    BY <1>2 DEF Operation, SetVolumePercent, AdjustVolume, ResetVolume, ToggleMute,
       SetMute, CliSetMuted, CliToggleMuted, AdoptConfig, SyncExternalState, Bootstrap, Begin
  <1>3. CASE Handler
    <2>1. FaultEnds \/ NotedFault \/ Publish => Fine \/ Fault
      BY DEF FaultEnds, NotedFault, Publish
    <2>2. CASE LookCall \/ SyncCall \/ MountCall \/ WriteCall \/ ResumeCall \/ ConfirmCall
      BY <2>2, <2>1, <1>1 DEF LookCall, SyncCall, MountCall, WriteCall, ResumeCall, ConfirmCall
    <2>3. CASE ReadNothingToDo \/ ReadToSilence \/ ReadToUnmute \/ ReadFails \/ RereadCall
      BY <2>3, <2>1, <1>1 DEF ReadNothingToDo, ReadToSilence, ReadToUnmute, ReadFails, RereadCall
    <2>4. CASE SilenceCall \/ UnmuteCall \/ RollbackCall \/ ZeroCall \/ RestoreCall
      BY <2>4, <2>1, <1>1
      DEF SilenceCall, UnmuteCall, RollbackCall, ZeroCall, RestoreCall, MuteFlagCall
    <2>5. CASE RawReadCall \/ RawFlipCall \/ RawMuteCall \/ RawCheckCall
      BY <2>5, <2>1, <1>1 DEF RawReadCall, RawFlipCall, RawMuteCall, RawCheckCall, MuteFlagCall
    <2> QED BY <1>3, <2>2, <2>3, <2>4, <2>5 DEF Handler
  <1>4. CASE Meddle
    BY <1>4 DEF Meddle
  <1>5. CASE UNCHANGED vars
    BY <1>5 DEF vars
  <1> QED BY <1>2, <1>3, <1>4, <1>5 DEF Next

\* While no audio call has failed, the next unmute brings back the volume the mute
\* fallback took away for as long as its zero stands, whatever mute flags and
\* volumes other programs set in between.
THEOREM MuteRemembers == Spec => []SilencedRemembers
  <1>1. Init => MuteInv
    BY BoundsAssumption DEF Init, MuteInv, MuteMemory
  <1>2. TypeOK /\ MuteInv /\ [Next]_vars => MuteInv'
    <2> SUFFICES ASSUME TypeOK, MuteInv, [Next]_vars, faults' = MaxFaults
                 PROVE  MuteMemory'
      BY DEF MuteInv
    <2>0. faults = MaxFaults
      BY FaultsOnlyFall, BoundsAssumption DEF TypeOK
    <2>1. ~Fault
      BY <2>0, BoundsAssumption DEF Fault
    <2> USE <2>0 DEF MuteInv, MuteMemory
    <2>2. ~FaultEnds /\ ~NotedFault
      BY <2>1 DEF FaultEnds, NotedFault
    <2>3. CASE Operation
      BY <2>3 DEF Operation, SetVolumePercent, AdjustVolume, ResetVolume, ToggleMute,
         SetMute, CliSetMuted, CliToggleMuted, AdoptConfig, SyncExternalState,
         Bootstrap, Begin, core
    <2>4. CASE Handler
      <3>1. CASE WriteCall \/ ResumeCall
        BY <3>1, <2>1 DEF WriteCall, ResumeCall, Goto, Fine, core
      <3>2. CASE ConfirmCall \/ ReadNothingToDo \/ ReadFails \/ RereadCall
        BY <3>2, <2>2
        DEF ConfirmCall, ReadNothingToDo, ReadFails, RereadCall, Publish, Goto, Fine
      <3>3. CASE ReadToSilence \/ ReadToUnmute
        BY <3>3 DEF ReadToSilence, ReadToUnmute, Fine
      <3>4. CASE SilenceCall \/ UnmuteCall \/ RollbackCall
        BY <3>4, <2>2
        DEF SilenceCall, UnmuteCall, RollbackCall, MuteFlagCall, Goto, Fine, core
      <3>5. CASE ZeroCall
        BY <3>5, <2>1 DEF ZeroCall, Goto, Fine, core
      <3>6. CASE RestoreCall
        BY <3>6, <2>2 DEF RestoreCall, Goto, Fine, core
      <3>7. CASE RawReadCall \/ RawCheckCall
        BY <3>7, <2>2 DEF RawReadCall, RawCheckCall, Goto, Fine, core
      <3>8. CASE RawFlipCall \/ RawMuteCall
        BY <3>8, <2>2 DEF RawFlipCall, RawMuteCall, MuteFlagCall, Goto, Fine, core
      <3>9. CASE LookCall
        BY <3>9 DEF LookCall, Probing, core
      <3>10. CASE SyncCall \/ MountCall
        BY <3>10, <2>2 DEF SyncCall, MountCall, Goto, Fine
      <3> QED BY <2>4, <3>1, <3>2, <3>3, <3>4, <3>5, <3>6, <3>7, <3>8, <3>9, <3>10
              DEF Handler
    <2>5. CASE Meddle
      BY <2>5 DEF Meddle, core, call
    <2>6. CASE UNCHANGED vars
      BY <2>6 DEF vars, core, call
    <2> QED BY <2>3, <2>4, <2>5, <2>6 DEF Next
  <1>3. TypeOK /\ MuteInv => SilencedRemembers
    BY DEF MuteInv, MuteMemory, SilencedRemembers, VolumeToRestore
  <1> QED BY <1>1, <1>2, <1>3, TypeCorrect, PTL DEF Spec

-----------------------------------------------------------------------------
\* The handlers of the raw mute calls are never the one of set_volume_percent.
CliInv ==
    /\ CliPositiveIsAudible
    /\ pc \in {"rawRead", "rawFlip", "rawMute", "rawCheck"} => op # "cli"

\* The command line's set_volume_percent publishes and answers Ok for a positive
\* volume only after its own unmute took effect.
THEOREM CliIsHonest == Spec => []CliPositiveIsAudible
  <1>1. Init => CliInv
    BY DEF Init, CliInv, CliPositiveIsAudible
  <1>2. TypeOK /\ CliInv /\ [Next]_vars => CliInv'
    <2> SUFFICES ASSUME TypeOK, CliInv, [Next]_vars PROVE CliInv'
      OBVIOUS
    <2> USE DEF CliInv, CliPositiveIsAudible
    <2>1. CASE Operation
      BY <2>1 DEF Operation, SetVolumePercent, AdjustVolume, ResetVolume, ToggleMute,
         SetMute, CliSetMuted, CliToggleMuted, AdoptConfig, SyncExternalState,
         Bootstrap, Begin
    <2>2. ASSUME pc' = "idle" PROVE CliInv'
      BY <2>2
    <2>3. FaultEnds => CliInv'
      BY <2>2 DEF FaultEnds, Goto
    <2>4. CASE Handler
      <3>1. CASE WriteCall
        BY <3>1 DEF WriteCall, Goto, TypeOK, Volumes
      <3>2. CASE ResumeCall
        BY <3>2 DEF ResumeCall, Goto, TypeOK, States
      <3>3. CASE ConfirmCall \/ ReadNothingToDo \/ ReadFails \/ RereadCall
        BY <3>3, <2>2, <2>3
        DEF ConfirmCall, ReadNothingToDo, ReadFails, RereadCall, Goto
      <3>4. CASE ReadToSilence \/ ReadToUnmute
        BY <3>4 DEF ReadToSilence, ReadToUnmute
      <3>5. CASE SilenceCall \/ UnmuteCall \/ RollbackCall
        BY <3>5, <2>3 DEF SilenceCall, UnmuteCall, RollbackCall, MuteFlagCall, Goto
      <3>6. CASE ZeroCall \/ RestoreCall
        BY <3>6, <2>3 DEF ZeroCall, RestoreCall, Goto
      <3>7. CASE RawReadCall \/ RawCheckCall
        BY <3>7, <2>3 DEF RawReadCall, RawCheckCall, Goto
      <3>8. CASE RawFlipCall \/ RawMuteCall
        BY <3>8, <2>3 DEF RawFlipCall, RawMuteCall, MuteFlagCall, Goto
      <3>9. CASE LookCall
        BY <3>9 DEF LookCall
      <3>10. CASE SyncCall \/ MountCall
        BY <3>10, <2>2 DEF SyncCall, MountCall, Goto
      <3> QED BY <2>4, <3>1, <3>2, <3>3, <3>4, <3>5, <3>6, <3>7, <3>8, <3>9, <3>10
              DEF Handler
    <2>6. CASE Meddle
      BY <2>6 DEF Meddle, call
    <2>7. CASE UNCHANGED vars
      BY <2>7 DEF vars, call
    <2> QED BY <2>1, <2>4, <2>6, <2>7 DEF Next
  <1>3. CliInv => CliPositiveIsAudible
    BY DEF CliInv
  <1> QED BY <1>1, <1>2, <1>3, TypeCorrect, PTL DEF Spec

-----------------------------------------------------------------------------
(***************************************************************************)
(* The hosts of Linux and macOS.  The inductive invariant says where the    *)
(* state may lag behind the device: on macOS only inside a round, on Linux  *)
(* never while it is called ready; and that a lost device is never ready.   *)
(***************************************************************************)

Devices == [level : 0..Top, muted : BOOLEAN]
AppStates == [level : 0..Top, muted : BOOLEAN, status : {"Ready", "Syncing", "Error"}, look : Looks]
Failures == {"audio", "start", "keys"}
Places == {"wait", "keys", "acts", "reload", "retry", "refresh"}

SoundTyped ==
    /\ dev \in Devices /\ state \in AppStates /\ audio \in BOOLEAN /\ degraded \subseteq Failures
ShownTyped == published \in AppStates /\ visible \subseteq Surfaces /\ retries \in 0..MaxRetries
ConfTyped ==
    /\ config \in Configs /\ bound \in Modifiers \cup {None} /\ file \in Files
    /\ dated \in BOOLEAN /\ asked \in BOOLEAN
WorkTyped == keys \in Seq(Keys) /\ acts \in Seq(Acts) /\ target \in 0..Top \cup {None}
RestTyped ==
    /\ system \in Systems /\ up \in BOOLEAN /\ stage \in Places /\ alive \in BOOLEAN /\ quit \in BOOLEAN
    /\ ended \in BOOLEAN /\ inputs \in 0..MaxInputs /\ unseen \in BOOLEAN
Typed == SoundTyped /\ ShownTyped /\ ConfTyped /\ WorkTyped /\ RestTyped

\* A state called ready is the device's.
ReadyMeans ==
    state.status = "Ready" =>
        /\ ~unseen => state.level = dev.level /\ state.muted = dev.muted
        /\ "audio" \notin degraded
InStep == Linux \/ stage = "wait" => ReadyMeans
LostIsNotReady == Linux /\ ~audio => state.status # "Ready"
StepsInRounds == target # None => stage \in {"keys", "acts"}
OneMenu == Linux => \A s, t \in visible \cap Menus : s = t
BoundIsRunning == bound # None => bound = config.modifier

UnixInv == Typed /\ InStep /\ LostIsNotReady /\ StepsInRounds /\ OneMenu /\ BoundIsRunning

LEMMA TypedIsTypeOK == Typed <=> UnixTypeOK
BY DEF Typed, UnixTypeOK, SoundTyped, ShownTyped, ConfTyped, WorkTyped, RestTyped, Devices, AppStates, Failures, Places

LEMMA UnixStarts == ASSUME UnixInit PROVE UnixInv
<1> USE UnixAssumption DEF UnixInit
<1>1. SoundTyped
  <2>1. dev \in Devices /\ audio \in BOOLEAN
    BY DEF Devices
  <2>2. state \in AppStates
    BY DEF AppStates, Confirmed, Configs
  <2> QED BY <2>1, <2>2 DEF SoundTyped, Failures
<1>2. ShownTyped
  BY <1>1 DEF SoundTyped, ShownTyped
<1>3. ConfTyped
  BY DEF ConfTyped, Configs, Files
<1>4. WorkTyped
  BY DEF WorkTyped
<1>5. RestTyped
  <2>1. alive \in BOOLEAN /\ up \in BOOLEAN
    BY Zenon
  <2>2. quit \in BOOLEAN /\ ended \in BOOLEAN /\ unseen \in BOOLEAN
    BY Zenon
  <2>3. stage \in Places /\ system \in Systems
    BY DEF Places
  <2>4. inputs \in 0..MaxInputs
    OBVIOUS
  <2> QED BY <2>1, <2>2, <2>3, <2>4 DEF RestTyped
<1>6. InStep
  BY DEF InStep, ReadyMeans, Confirmed
<1>7. LostIsNotReady /\ StepsInRounds /\ OneMenu /\ BoundIsRunning
  BY DEF LostIsNotReady, StepsInRounds, OneMenu, BoundIsRunning, Confirmed
<1> QED BY <1>1, <1>2, <1>3, <1>4, <1>5, <1>6, <1>7 DEF UnixInv, Typed

-----------------------------------------------------------------------------
(* Calls to the device. *)

\* What a call leaves: on Linux a state still called ready has seen no change.
Called ==
    /\ SoundTyped'
    /\ Linux /\ state'.status = "Ready" => UNCHANGED <<dev, state, degraded, audio>>

LEMMA FailedTyped ==
    ASSUME SoundTyped, Failed
    PROVE  /\ state' \in AppStates /\ audio' \in BOOLEAN /\ degraded' \subseteq Failures
           /\ Linux => state'.status = "Error"
<1>1. CASE Linux
  <2>1. state' = [state EXCEPT !.status = "Error"]
    BY <1>1 DEF Failed
  <2>2. state' \in AppStates /\ state'.status = "Error"
    BY <2>1 DEF SoundTyped, AppStates
  <2> QED BY <1>1, <2>2 DEF Failed, SoundTyped, Failures
<1>2. CASE ~Linux
  BY <1>2 DEF Failed, SoundTyped
<1> QED BY <1>1, <1>2

LEMMA FailedCalls ==
    ASSUME SoundTyped, Failed, UNCHANGED dev
    PROVE  Called
BY FailedTyped DEF Called, SoundTyped

LEMMA RestCalls ==
    ASSUME SoundTyped, UNCHANGED <<audio, state, degraded, dev>>
    PROVE  Called
BY DEF Called, SoundTyped

LEMMA MutateCalls ==
    ASSUME SoundTyped, NEW d \in Devices, Mutate(d)
    PROVE  Called
<1>1. CASE Answers /\ dev' = d
           /\ state' = (IF Linux THEN [state EXCEPT !.status = "Syncing"] ELSE state)
           /\ UNCHANGED <<audio, degraded>>
  <2>1. state' \in AppStates /\ (Linux => state'.status = "Syncing")
    BY <1>1 DEF SoundTyped, AppStates
  <2> QED BY <1>1, <2>1 DEF Called, SoundTyped
<1>2. CASE Failed /\ UNCHANGED dev
  BY <1>2, FailedCalls
<1> QED BY <1>1, <1>2 DEF Mutate

LEMMA ClampedFits == \A l \in Int : Clamped(l) \in 0..Top
BY UnixAssumption DEF Clamped

LEMMA ReadToStepCalls ==
    ASSUME SoundTyped, NEW d \in {-Step, Step}, ReadToStep(d)
    PROVE  Called /\ target' \in 0..Top \cup {None}
<1>1. dev.level + d \in Int /\ state.level + d \in Int
  BY UnixAssumption DEF SoundTyped, Devices, AppStates
<1>2. target' \in 0..Top \cup {None}
  BY <1>1, ClampedFits DEF ReadToStep
<1>3. CASE UNCHANGED <<audio, state, degraded, dev>>
  BY <1>2, <1>3, RestCalls
<1>4. CASE Failed /\ UNCHANGED dev
  BY <1>2, <1>4, FailedCalls
<1> QED BY <1>2, <1>3, <1>4 DEF ReadToStep

-----------------------------------------------------------------------------
(* The configuration. *)

\* What adopting or drafting a configuration leaves: only the look of the state changes.
Configured ==
    /\ ConfTyped' /\ BoundIsRunning' /\ state' \in AppStates
    /\ state'.status = state.status /\ state'.level = state.level /\ state'.muted = state.muted

LEMMA Looks1 ==
    ASSUME SoundTyped, NEW l \in Looks, state' = [state EXCEPT !.look = l]
    PROVE  /\ state' \in AppStates /\ state'.status = state.status
           /\ state'.level = state.level /\ state'.muted = state.muted
BY DEF SoundTyped, AppStates

LEMMA LookedUp ==
    ASSUME ConfTyped, NEW l \in Looks
    PROVE  /\ [config EXCEPT !.look = l] \in Configs
           /\ [config EXCEPT !.look = l].modifier = config.modifier
           /\ [config EXCEPT !.look = l].look = l
BY DEF ConfTyped, Configs

LEMMA AdoptConfigures ==
    ASSUME SoundTyped, ConfTyped, BoundIsRunning, NEW c \in Configs, Adopt(c)
    PROVE  /\ config' \in Configs /\ bound' \in Modifiers \cup {None} /\ BoundIsRunning' /\ state' \in AppStates
           /\ state'.status = state.status /\ state'.level = state.level /\ state'.muted = state.muted
<1>1. c.look \in Looks /\ c.modifier \in Modifiers
  BY DEF Configs
<1>2. config' = c /\ state' = [state EXCEPT !.look = c.look]
      /\ bound' = IF bound # None /\ c.modifier # config.modifier THEN c.modifier ELSE bound
  BY DEF Adopt
<1>3. bound' \in Modifiers \cup {None} /\ (bound' # None => bound' = c.modifier)
  BY <1>1, <1>2 DEF ConfTyped, BoundIsRunning
<1> QED BY <1>1, <1>2, <1>3, Looks1 DEF BoundIsRunning

LEMMA ReadableIsConfig == ASSUME ConfTyped, Readable PROVE file.config \in Configs
BY DEF ConfTyped, Readable, Files

LEMMA ReloadIfChangedConfigures ==
    ASSUME SoundTyped, ConfTyped, BoundIsRunning, ReloadIfChanged
    PROVE  Configured
<1>1. CASE Adopt(file.config) /\ Readable /\ dated' = TRUE
  BY <1>1, ReadableIsConfig, AdoptConfigures DEF Configured, ConfTyped, ReloadIfChanged
<1>2. CASE UNCHANGED <<config, bound, dated, state>>
  BY <1>2 DEF Configured, ConfTyped, ReloadIfChanged, BoundIsRunning, SoundTyped
<1> QED BY <1>1, <1>2 DEF ReloadIfChanged

LEMMA ReloadConfigures ==
    ASSUME SoundTyped, ConfTyped, BoundIsRunning, Reload
    PROVE  Configured
<1>1. file' = file /\ asked' \in BOOLEAN /\ dated' \in BOOLEAN
  BY DEF Reload, ConfTyped
<1>2. CASE Adopt(file.config) /\ Readable
  BY <1>1, <1>2, ReadableIsConfig, AdoptConfigures DEF Configured, ConfTyped
<1>3. CASE UNCHANGED <<config, bound, state>>
  BY <1>1, <1>3 DEF Configured, ConfTyped, BoundIsRunning, SoundTyped
<1> QED BY <1>2, <1>3 DEF Reload

LEMMA DraftConfigures ==
    ASSUME SoundTyped, ConfTyped, BoundIsRunning, NEW l \in Looks, Draft(l)
    PROVE  Configured
<1> DEFINE c == [config EXCEPT !.look = l]
<1>1. c \in Configs /\ c.modifier = config.modifier
  BY LookedUp
<1>2. CASE UNCHANGED <<conf, state>>
  BY <1>2 DEF Configured, ConfTyped, BoundIsRunning, SoundTyped, conf
<1>3. CASE Adopt(c) /\ file' = [kind |-> "ini", config |-> c] /\ dated' = TRUE /\ UNCHANGED asked
  <2> HIDE DEF c
  <2>1. file' \in Files
    BY <1>1, <1>3 DEF Files
  <2> QED BY <1>1, <1>3, <2>1, AdoptConfigures DEF Configured, ConfTyped
<1>4. CASE config' = c /\ UNCHANGED <<bound, file, dated, asked, state>>
  <2> HIDE DEF c
  <2> QED BY <1>1, <1>4 DEF Configured, ConfTyped, BoundIsRunning, SoundTyped
<1> QED BY <1>2, <1>3, <1>4 DEF Draft

LEMMA LookConfigures ==
    ASSUME SoundTyped, ConfTyped, BoundIsRunning, NEW l \in Looks, Look(l),
           UNCHANGED <<bound, file, dated, asked>>
    PROVE  Configured
BY Looks1, LookedUp DEF Look, Configured, ConfTyped, BoundIsRunning

-----------------------------------------------------------------------------
(* The steps. *)

\* What a call, or a silent action, in the drains leaves of the invariant.
LEMMA CalledKeeps ==
    ASSUME UnixInv, Called, ConfTyped', BoundIsRunning', ShownTyped', WorkTyped', RestTyped', OneMenu',
           UNCHANGED <<system, unseen, stage>>, stage \in {"keys", "acts"}
    PROVE  UnixInv'
<1> USE DEF UnixInv, Typed
<1>1. Linux' <=> Linux
  BY DEF Linux
<1>2. InStep'
  <2>1. CASE Linux /\ state'.status = "Ready"
    <3>1. UNCHANGED <<dev, state, degraded>>
      BY <2>1 DEF Called
    <3> QED BY <1>1, <2>1, <3>1 DEF InStep, ReadyMeans
  <2>2. CASE state'.status # "Ready"
    BY <2>2 DEF InStep, ReadyMeans
  <2>3. CASE ~Linux
    BY <1>1, <2>3 DEF InStep
  <2> QED BY <2>1, <2>2, <2>3
<1>3. LostIsNotReady'
  <2>1. SUFFICES ASSUME Linux, ~audio', state'.status = "Ready" PROVE FALSE
    BY <1>1 DEF LostIsNotReady
  <2>2. UNCHANGED <<dev, state, degraded, audio>>
    BY <2>1 DEF Called
  <2> QED BY <2>1, <2>2 DEF LostIsNotReady
<1>4. StepsInRounds'
  BY DEF StepsInRounds
<1> QED BY <1>2, <1>3, <1>4 DEF Called

LEMMA ConfiguredKeeps ==
    ASSUME UnixInv, Configured, UNCHANGED <<system, unseen, dev, audio, degraded>>, ShownTyped', WorkTyped', RestTyped',
           OneMenu', StepsInRounds', stage' = "wait" => stage = "wait"
    PROVE  UnixInv'
<1> USE DEF UnixInv, Typed
<1>1. Linux' <=> Linux
  BY DEF Linux
<1>2. SoundTyped' /\ ConfTyped' /\ BoundIsRunning'
  BY DEF SoundTyped, Configured
<1>3. InStep' /\ LostIsNotReady'
  BY <1>1 DEF InStep, ReadyMeans, LostIsNotReady, Configured
<1> QED BY <1>2, <1>3

SoundActs == [k : {"set"}, v : 0..Top] \cup [k : {"setMute"}, v : BOOLEAN]
             \cup [k : {"adjust"}, v : {-Step, Step}] \cup [k : {"mute", "reset"}, v : {None}]

LEMMA SoundCalls ==
    ASSUME SoundTyped, WorkTyped, NEW a \in SoundActs, Sound(a)
    PROVE  Called /\ target' \in 0..Top \cup {None}
<1>0. target \in 0..Top \cup {None}
  BY DEF WorkTyped
<1>1. CASE a.k = "adjust"
  <2>1. a.v \in {-Step, Step}
    BY <1>1 DEF SoundActs
  <2>2. ReadToStep(a.v)
    BY <1>1 DEF Sound
  <2> QED BY <2>1, <2>2, ReadToStepCalls
<1>2. CASE a.k # "adjust"
  <2>1. PICK d \in Devices : Mutate(d) /\ UNCHANGED target
    <3>1. CASE a.k = "set"
      <4>1. a.v \in 0..Top
        BY <3>1 DEF SoundActs
      <4>2. [dev EXCEPT !.level = a.v] \in Devices
        BY <4>1 DEF SoundTyped, Devices
      <4> QED BY <3>1, <4>2 DEF Sound
    <3>2. CASE a.k = "reset"
      <4>1. [dev EXCEPT !.level = Half] \in Devices
        BY UnixAssumption DEF SoundTyped, Devices
      <4> QED BY <3>2, <4>1 DEF Sound
    <3>3. CASE a.k = "mute"
      <4>1. [dev EXCEPT !.muted = ~@] \in Devices
        BY DEF SoundTyped, Devices
      <4> QED BY <3>3, <4>1 DEF Sound
    <3>4. CASE a.k = "setMute"
      <4>1. a.v \in BOOLEAN
        BY <3>4 DEF SoundActs
      <4>2. [dev EXCEPT !.muted = a.v] \in Devices
        BY <4>1 DEF SoundTyped, Devices
      <4> QED BY <3>4, <4>2 DEF Sound
    <3> QED BY <1>2, <3>1, <3>2, <3>3, <3>4 DEF SoundActs
  <2> QED BY <1>0, <2>1, MutateCalls
<1> QED BY <1>1, <1>2

\* At most one menu surface stays, whichever is shown, hidden or toggled.
LEMMA SurfaceKeeps ==
    ASSUME OneMenu, visible \subseteq Surfaces, NEW k, NEW s \in Surfaces, Surface(k, s), UNCHANGED system
    PROVE  OneMenu' /\ visible' \subseteq Surfaces
<1>1. CASE visible' = visible \ {s}
  BY <1>1 DEF OneMenu, Linux
<1>2. CASE visible' = Shown(s)
  <2>1. CASE Linux /\ s \in Menus
    <3>1. visible' \cap Menus = {s}
      BY <1>2, <2>1 DEF Shown
    <3> QED BY <1>2, <3>1 DEF OneMenu, Shown
  <2>2. CASE ~(Linux /\ s \in Menus)
    <3>1. visible' \cap Menus = visible \cap Menus \/ ~Linux
      BY <1>2, <2>2 DEF Shown
    <3> QED BY <1>2, <2>2, <3>1 DEF OneMenu, Shown, Linux
  <2> QED BY <2>1, <2>2
<1> QED BY <1>1, <1>2 DEF Surface

LEMMA ApplyActionKeeps ==
    ASSUME UnixInv, NEW a \in Acts \cup [k : {"toggle"}, v : {"Mixer"}], ApplyAction(a), target = None,
           stage \in {"keys", "acts"}, UNCHANGED <<system, up, alive, inputs, stage, ended, unseen>>,
           keys' \in Seq(Keys), acts' \in Seq(Acts)
    PROVE  UnixInv'
<1> USE DEF UnixInv, Typed
<1>1. UNCHANGED <<retries, published>>
  BY DEF ApplyAction
<1>2. CASE a.k \in {"set", "reset", "mute", "setMute", "adjust"}
  <2>1. Sound(a)
    BY <1>2 DEF ApplyAction
  <2>2. a \in SoundActs
    BY <1>2 DEF SoundActs, Acts
  <2>3. Called /\ target' \in 0..Top \cup {None}
    BY <2>1, <2>2, SoundCalls
  <2>4. UNCHANGED <<config, bound, file, dated, asked, visible, quit>>
    BY <2>1 DEF Sound, conf
  <2>5. ConfTyped' /\ BoundIsRunning' /\ ShownTyped' /\ WorkTyped'
    BY <1>1, <2>3, <2>4 DEF ConfTyped, BoundIsRunning, ShownTyped, WorkTyped
  <2>6. RestTyped' /\ OneMenu'
    BY <2>4 DEF RestTyped, OneMenu, Linux
  <2> QED BY <2>3, <2>5, <2>6, CalledKeeps
<1>3. CASE a.k \notin {"set", "reset", "mute", "setMute", "adjust"}
  <2>1. Silent(a)
    BY <1>3 DEF ApplyAction
  <2>2. UNCHANGED <<dev, audio, degraded, target>>
    BY <2>1 DEF Silent
  <2>3. quit' \in BOOLEAN
    BY <2>1, Zenon DEF Silent, RestTyped
  <2>4. RestTyped'
    BY <2>3 DEF RestTyped
  <2>5. WorkTyped' /\ StepsInRounds'
    BY <2>2 DEF WorkTyped, StepsInRounds
  <2>6. OneMenu' /\ visible' \subseteq Surfaces
    <3>1. CASE a.k \in {"show", "hide", "toggle"}
      <4>1. a.v \in Surfaces
        BY <3>1 DEF Acts, Surfaces, Menus
      <4>2. Surface(a.k, a.v)
        BY <2>1, <3>1 DEF Silent
      <4> QED BY <4>1, <4>2, SurfaceKeeps DEF ShownTyped
    <3>2. CASE UNCHANGED visible
      BY <3>2 DEF OneMenu, ShownTyped, Linux
    <3> QED BY <2>1, <3>1, <3>2 DEF Silent
  <2>7. ShownTyped'
    BY <1>1, <2>6 DEF ShownTyped
  <2>8. Configured
    <3>1. CASE a.k = "look"
      <4>1. a.v \in Looks
        BY <3>1 DEF Acts
      <4>2. Look(a.v) /\ UNCHANGED <<bound, file, dated, asked>>
        BY <2>1, <3>1 DEF Silent
      <4> QED BY <4>1, <4>2, LookConfigures
    <3>2. CASE a.k = "draft"
      <4>1. a.v \in Looks
        BY <3>2 DEF Acts
      <4>2. Draft(a.v)
        BY <2>1, <3>2 DEF Silent
      <4> QED BY <4>1, <4>2, DraftConfigures
    <3>3. CASE a.k = "reload"
      <4>1. Reload
        BY <2>1, <3>3 DEF Silent
      <4> QED BY <4>1, ReloadConfigures
    <3>4. CASE UNCHANGED <<config, bound, file, dated, asked, state>>
      BY <3>4 DEF Configured, ConfTyped, BoundIsRunning, SoundTyped
    <3> QED BY <2>1, <3>1, <3>2, <3>3, <3>4 DEF Silent, conf
  <2> QED BY <2>2, <2>4, <2>5, <2>6, <2>7, <2>8, ConfiguredKeeps
<1> QED BY <1>2, <1>3

LEMMA KeyActionFits ==
    \A key \in Keys : KeyAction(key) \in Acts \cup [k : {"toggle"}, v : {"Mixer"}]
BY UnixAssumption DEF Keys, KeyAction, Act, Acts

LEMMA TailFits == \A S : \A s \in Seq(S) : s # <<>> => Head(s) \in S /\ Tail(s) \in Seq(S)
OBVIOUS

LEMMA DrainKeyKeeps == ASSUME UnixInv, DrainKey PROVE UnixInv'
<1>1. keys \in Seq(Keys) /\ keys # <<>> /\ keys' = Tail(keys) /\ acts \in Seq(Acts)
  BY DEF DrainKey, UnixInv, Typed, WorkTyped
<1>2. Head(keys) \in Keys /\ keys' \in Seq(Keys)
  BY <1>1, TailFits
<1> DEFINE a == KeyAction(Head(keys))
<1>3. a \in Acts \cup [k : {"toggle"}, v : {"Mixer"}] /\ ApplyAction(a)
  BY <1>2, KeyActionFits DEF DrainKey
<1> HIDE DEF a
<1>4. target = None /\ stage \in {"keys", "acts"} /\ UNCHANGED <<system, up, alive, inputs, stage, ended, unseen>>
      /\ acts' = acts
  BY DEF DrainKey, Outside
<1> QED BY <1>1, <1>2, <1>3, <1>4, ApplyActionKeeps

LEMMA DrainActKeeps == ASSUME UnixInv, DrainAct PROVE UnixInv'
<1>1. acts \in Seq(Acts) /\ acts # <<>> /\ acts' = Tail(acts) /\ keys \in Seq(Keys)
  BY DEF DrainAct, UnixInv, Typed, WorkTyped
<1>2. Head(acts) \in Acts /\ acts' \in Seq(Acts)
  BY <1>1, TailFits
<1> DEFINE a == Head(acts)
<1>3. ApplyAction(a)
  BY DEF DrainAct
<1> HIDE DEF a
<1>4. target = None /\ stage \in {"keys", "acts"} /\ UNCHANGED <<system, up, alive, inputs, stage, ended, unseen>>
      /\ keys' = keys
  BY DEF DrainAct, Outside
<1>5. a \in Acts \cup [k : {"toggle"}, v : {"Mixer"}]
  BY <1>2 DEF a
<1> QED BY <1>1, <1>2, <1>3, <1>4, <1>5, ApplyActionKeeps

LEMMA WriteStepKeeps == ASSUME UnixInv, WriteStep PROVE UnixInv'
<1> USE DEF UnixInv, Typed
<1>1. /\ target \in 0..Top /\ target' = None /\ stage \in {"keys", "acts"}
      /\ UNCHANGED <<system, up, alive, inputs, retries, visible, published, config, bound, file, dated, asked>>
      /\ UNCHANGED <<keys, acts, stage, quit, ended, unseen>>
  BY DEF WriteStep, WorkTyped, StepsInRounds, Outside, conf
<1>2. [dev EXCEPT !.level = target] \in Devices
  BY <1>1 DEF SoundTyped, Devices
<1>3. Called
  BY <1>2, MutateCalls DEF WriteStep
<1>4. ConfTyped' /\ BoundIsRunning' /\ ShownTyped' /\ WorkTyped'
  BY <1>1 DEF ConfTyped, BoundIsRunning, ShownTyped, WorkTyped
<1>5. RestTyped' /\ OneMenu'
  BY <1>1 DEF RestTyped, OneMenu, Linux
<1> QED BY <1>1, <1>3, <1>4, <1>5, CalledKeeps

\* A step that touches neither the device, its state nor the configuration.
LEMMA TurnsKeep ==
    ASSUME UnixInv, UNCHANGED <<system, dev, audio, state, unseen, config, bound, retries, published, visible>>,
           degraded' \subseteq Failures, "audio" \in degraded' => "audio" \in degraded,
           file' \in Files, dated' \in BOOLEAN, asked' \in BOOLEAN, WorkTyped', RestTyped', StepsInRounds',
           ~Linux /\ stage' = "wait" => stage = "wait"
    PROVE  UnixInv'
<1> USE DEF UnixInv, Typed
<1>1. Linux' <=> Linux
  BY DEF Linux
<1>2. SoundTyped' /\ ShownTyped' /\ ConfTyped'
  BY DEF SoundTyped, ShownTyped, ConfTyped
<1>3. InStep' /\ LostIsNotReady'
  BY <1>1 DEF InStep, ReadyMeans, LostIsNotReady
<1>4. OneMenu' /\ BoundIsRunning'
  BY <1>1 DEF OneMenu, BoundIsRunning
<1> QED BY <1>2, <1>3, <1>4

LEMMA TurnsAreKept ==
    ASSUME UnixInv, StartDrain \/ KeysDrained \/ ActsDrained \/ StartSlow
    PROVE  UnixInv'
<1> USE DEF UnixInv, Typed
<1>1. /\ UNCHANGED <<system, dev, audio, state, unseen, config, bound, retries, published, visible>>
      /\ UNCHANGED <<file, dated, asked, keys, acts, target, up, alive, inputs>>
  BY DEF StartDrain, KeysDrained, ActsDrained, StartSlow, host, conf, work, Outside
<1>2. degraded' \subseteq Failures /\ ("audio" \in degraded' => "audio" \in degraded)
  BY DEF StartDrain, KeysDrained, ActsDrained, StartSlow, host, SoundTyped, Failures
<1>3. stage' \in Places /\ (~Linux /\ stage' = "wait" => stage = "wait")
  BY DEF StartDrain, KeysDrained, ActsDrained, StartSlow, Places
<1>4. quit' \in BOOLEAN /\ ended' \in BOOLEAN
  BY Zenon DEF StartDrain, KeysDrained, ActsDrained, StartSlow, RestTyped
<1>5. RestTyped' /\ WorkTyped'
  BY <1>1, <1>3, <1>4 DEF RestTyped, WorkTyped
<1>6. StepsInRounds'
  BY <1>1 DEF StepsInRounds, StartDrain, KeysDrained, ActsDrained, StartSlow, Idle
<1>7. file' \in Files /\ dated' \in BOOLEAN /\ asked' \in BOOLEAN
  BY <1>1 DEF ConfTyped
<1> QED BY <1>1, <1>2, <1>3, <1>5, <1>6, <1>7, TurnsKeep

LEMMA ReloadConfigKeeps == ASSUME UnixInv, ReloadConfig PROVE UnixInv'
<1> USE DEF UnixInv, Typed
<1>1. /\ UNCHANGED <<system, unseen, dev, audio, degraded, retries, visible, published>>
      /\ UNCHANGED <<keys, acts, target, up, alive, inputs, quit, ended>>
      /\ stage' \in {"retry", "refresh"} /\ stage = "reload"
  BY DEF ReloadConfig, work, Outside
<1>2. Configured
  BY ReloadIfChangedConfigures DEF ReloadConfig
<1>3. ShownTyped' /\ WorkTyped' /\ RestTyped'
  BY <1>1 DEF ShownTyped, WorkTyped, RestTyped, Places
<1>4. OneMenu' /\ StepsInRounds'
  BY <1>1 DEF OneMenu, StepsInRounds, Linux
<1> QED BY <1>1, <1>2, <1>3, <1>4, ConfiguredKeeps

LEMMA ReadyIsState == ASSUME SoundTyped, ConfTyped PROVE Confirmed \in AppStates
BY DEF SoundTyped, ConfTyped, Confirmed, AppStates, Devices, Configs

LEMMA RetryAudioKeeps == ASSUME UnixInv, RetryAudio PROVE UnixInv'
<1> USE DEF UnixInv, Typed
<1>1. /\ UNCHANGED <<system, dev, visible, published, config, bound, file, dated, asked>>
      /\ UNCHANGED <<keys, acts, target, up, alive, inputs, quit, ended>>
      /\ stage' = "refresh" /\ stage = "retry"
  BY DEF RetryAudio, work, conf, Outside
<1>2. /\ state' \in AppStates /\ audio' \in BOOLEAN /\ degraded' \subseteq Failures /\ retries' \in 0..MaxRetries
      /\ unseen' \in BOOLEAN
  <2>1. state' \in AppStates
    BY ReadyIsState DEF RetryAudio, SoundTyped
  <2>2. retries' \in 0..MaxRetries
    <3>1. retries \in 0..MaxRetries /\ MaxRetries \in Nat
      BY UnixAssumption DEF ShownTyped
    <3>2. retries' = retries \/ retries' = 0 \/ (retries # MaxRetries /\ retries' = retries + 1)
      BY DEF RetryAudio
    <3> QED BY <3>1, <3>2
  <2>3. degraded' \subseteq Failures
    BY DEF RetryAudio, SoundTyped, Failures
  <2>4. audio' \in BOOLEAN /\ unseen' \in BOOLEAN
    BY Zenon DEF RetryAudio, SoundTyped, RestTyped
  <2> QED BY <2>1, <2>2, <2>3, <2>4
<1>3. SoundTyped' /\ ShownTyped' /\ ConfTyped' /\ WorkTyped'
  BY <1>1, <1>2 DEF SoundTyped, ShownTyped, ConfTyped, WorkTyped
<1>4. RestTyped'
  BY <1>1, <1>2 DEF RestTyped, Places
<1>5. OneMenu' /\ StepsInRounds' /\ BoundIsRunning'
  BY <1>1 DEF OneMenu, StepsInRounds, Linux, BoundIsRunning
<1>6. InStep' /\ LostIsNotReady'
  <2>1. CASE UNCHANGED <<audio, state, degraded, unseen>>
    BY <1>1, <2>1 DEF InStep, ReadyMeans, LostIsNotReady, Linux
  <2>2. CASE audio' = TRUE /\ state' = Confirmed /\ degraded' = degraded \ {"audio"}
    BY <1>1, <2>2 DEF InStep, ReadyMeans, LostIsNotReady, Linux, Confirmed
  <2>3. CASE ~audio /\ UNCHANGED <<audio, state, unseen>>
    BY <1>1, <2>3 DEF InStep, ReadyMeans, LostIsNotReady, Linux
  <2> QED BY <2>1, <2>2, <2>3 DEF RetryAudio
<1> QED BY <1>3, <1>4, <1>5, <1>6

LEMMA RefreshKeeps == ASSUME UnixInv, Refresh PROVE UnixInv'
<1> USE DEF UnixInv, Typed
<1>1. /\ UNCHANGED <<system, dev, visible, retries, config, bound, file, dated, asked>>
      /\ UNCHANGED <<keys, acts, target, up, alive, inputs, quit>>
      /\ stage' = "wait" /\ stage = "refresh" /\ published' = state' /\ ended' = quit
  BY DEF Refresh, work, conf, Outside
<1>2. CASE state' = Confirmed /\ degraded' = degraded \ {"audio"} /\ unseen' = FALSE /\ audio' = audio /\ Answers
  <2>1. SoundTyped' /\ ShownTyped'
    BY <1>1, <1>2, ReadyIsState DEF SoundTyped, ShownTyped
  <2>2. InStep' /\ LostIsNotReady'
    BY <1>1, <1>2 DEF InStep, ReadyMeans, LostIsNotReady, Linux, Confirmed, Answers
  <2>3. unseen' \in BOOLEAN
    BY <1>2
  <2> QED BY <1>1, <2>1, <2>2, <2>3 DEF ConfTyped, WorkTyped, RestTyped, Places, OneMenu, StepsInRounds, BoundIsRunning, Linux
<1>3. CASE /\ unseen' = unseen /\ state' = [state EXCEPT !.status = "Error", !.look = config.look]
           /\ \/ audio' \in {audio, FALSE} /\ degraded' = degraded \cup {"audio"}
              \/ UNCHANGED <<audio, degraded>>
  <2>1. state' \in AppStates /\ state'.status = "Error"
    BY <1>3 DEF SoundTyped, ConfTyped, AppStates, Configs
  <2>2. SoundTyped' /\ ShownTyped'
    BY <1>1, <1>3, <2>1 DEF SoundTyped, ShownTyped, Failures
  <2>3. InStep' /\ LostIsNotReady'
    BY <2>1 DEF InStep, ReadyMeans, LostIsNotReady
  <2> QED BY <1>1, <1>3, <2>2, <2>3 DEF ConfTyped, WorkTyped, RestTyped, Places, OneMenu, StepsInRounds, BoundIsRunning, Linux
<1> QED BY <1>2, <1>3 DEF Refresh, Refreshed

-----------------------------------------------------------------------------
(* The outside. *)

LEMMA AppendFits == \A S : \A s \in Seq(S), e \in S : Append(s, e) \in Seq(S)
OBVIOUS

LEMMA OutsideKeeps ==
    ASSUME UnixInv, Press \/ Gesture \/ ListenerStops \/ ServerTurns \/ EditFile
    PROVE  UnixInv'
<1> USE DEF UnixInv, Typed
<1>1. /\ UNCHANGED <<system, dev, audio, state, unseen, config, bound, retries, published, visible>>
      /\ UNCHANGED <<degraded, target, stage, quit, ended, asked>>
  BY DEF Press, Gesture, ListenerStops, ServerTurns, EditFile, host, conf, work
<1>2. keys' \in Seq(Keys) /\ acts' \in Seq(Acts)
  <2>1. keys \in Seq(Keys) /\ acts \in Seq(Acts)
    BY DEF WorkTyped
  <2>2. CASE UNCHANGED <<keys, acts>>
    BY <2>1, <2>2
  <2>3. CASE Press
    BY <2>1, <2>3, AppendFits DEF Press
  <2>4. CASE Gesture
    BY <2>1, <2>4, AppendFits DEF Gesture
  <2> QED BY <2>2, <2>3, <2>4 DEF ListenerStops, ServerTurns, EditFile, work
<1>3. inputs' \in 0..MaxInputs
  <2>1. inputs \in 0..MaxInputs /\ inputs < MaxInputs /\ inputs' = inputs + 1 /\ MaxInputs \in Nat
    BY UnixAssumption DEF RestTyped, Press, Gesture, ListenerStops, ServerTurns, EditFile, CanAct
  <2> QED BY <2>1
<1>4. up' \in BOOLEAN /\ alive' \in BOOLEAN /\ dated' \in BOOLEAN
  BY Zenon DEF Press, Gesture, ListenerStops, ServerTurns, EditFile, RestTyped, ConfTyped, conf
<1>5. file' \in Files
  BY DEF Press, Gesture, ListenerStops, ServerTurns, EditFile, ConfTyped, conf
<1>6. WorkTyped' /\ RestTyped'
  BY <1>1, <1>2, <1>3, <1>4 DEF WorkTyped, RestTyped
<1>7. StepsInRounds' /\ degraded' \subseteq Failures /\ asked' \in BOOLEAN
  BY <1>1 DEF StepsInRounds, SoundTyped, ConfTyped
<1> QED BY <1>1, <1>4, <1>5, <1>6, <1>7, TurnsKeep

LEMMA MeddleKeeps == ASSUME UnixInv, OthersChange PROVE UnixInv'
<1> USE DEF UnixInv, Typed
<1>1. /\ UNCHANGED <<system, audio, state, degraded, config, bound, file, dated, asked, retries, published>>
      /\ UNCHANGED <<visible, keys, acts, target, stage, up, alive, quit, ended>> /\ unseen' = TRUE
  BY DEF OthersChange, host, conf, work
<1>2. dev' \in Devices
  BY UnixAssumption DEF OthersChange, Devices
<1>3. inputs' \in 0..MaxInputs
  <2>1. inputs \in 0..MaxInputs /\ inputs < MaxInputs /\ inputs' = inputs + 1 /\ MaxInputs \in Nat
    BY UnixAssumption DEF RestTyped, OthersChange, CanAct
  <2> QED BY <2>1
<1>4. SoundTyped' /\ ShownTyped' /\ ConfTyped' /\ WorkTyped'
  BY <1>1, <1>2 DEF SoundTyped, ShownTyped, ConfTyped, WorkTyped
<1>5. RestTyped'
  BY <1>1, <1>3 DEF RestTyped
<1>6. InStep' /\ LostIsNotReady'
  BY <1>1 DEF InStep, ReadyMeans, LostIsNotReady, Linux
<1>7. OneMenu' /\ StepsInRounds' /\ BoundIsRunning'
  BY <1>1 DEF OneMenu, StepsInRounds, BoundIsRunning, Linux
<1> QED BY <1>4, <1>5, <1>6, <1>7

LEMMA UnixStep == ASSUME UnixInv, [UnixNext]_unixVars PROVE UnixInv'
<1>1. CASE UNCHANGED unixVars
  <2>1. /\ UNCHANGED <<system, dev, up, audio, retries, state, degraded, visible, published>>
        /\ UNCHANGED <<config, bound, file, dated, asked, keys, acts, target>>
        /\ UNCHANGED <<stage, alive, quit, ended, inputs, unseen>>
    BY <1>1 DEF unixVars, host, conf, work
  <2>2. Typed'
    BY <2>1 DEF UnixInv, Typed, SoundTyped, ShownTyped, ConfTyped, WorkTyped, RestTyped
  <2>3. InStep' /\ LostIsNotReady' /\ StepsInRounds' /\ OneMenu' /\ BoundIsRunning'
    BY <2>1 DEF UnixInv, InStep, ReadyMeans, LostIsNotReady, StepsInRounds, OneMenu, BoundIsRunning, Linux
  <2> QED BY <2>2, <2>3 DEF UnixInv
<1>2. CASE Round
  BY <1>2, WriteStepKeeps, DrainKeyKeeps, DrainActKeeps, TurnsAreKept, ReloadConfigKeeps,
     RetryAudioKeeps, RefreshKeeps DEF Round
<1>3. CASE StartDrain \/ StartSlow
  BY <1>3, TurnsAreKept
<1>4. CASE Press \/ Gesture \/ ListenerStops \/ OthersChange \/ ServerTurns \/ EditFile
  BY <1>4, OutsideKeeps, MeddleKeeps
<1> QED BY <1>1, <1>2, <1>3, <1>4 DEF UnixNext

LEMMA UnixInvConfirms == ASSUME UnixInv PROVE ReadyIsConfirmed
<1> USE DEF UnixInv
<1>1. ReadyStateIsTheDevices
  BY DEF ReadyStateIsTheDevices, InStep, ReadyMeans
<1>2. Linux => Cardinality(visible \cap Menus) <= 1
  <2>1. SUFFICES ASSUME Linux PROVE Cardinality(visible \cap Menus) <= 1
    OBVIOUS
  <2>2. CASE visible \cap Menus = {}
    BY <2>2, FS_EmptySet
  <2>3. CASE \E s : visible \cap Menus = {s}
    BY <2>3, FS_Singleton
  <2> QED BY <2>1, <2>2, <2>3 DEF OneMenu
<1>3. MenusAndKeysAgree
  BY <1>2 DEF MenusAndKeysAgree, BoundIsRunning
<1> QED BY <1>1, <1>3 DEF ReadyIsConfirmed

\* The variables of both hosts keep their types, whatever the levels, modifiers and looks.
THEOREM UnixTypeCorrect == UnixSpec => []UnixTypeOK
<1>1. UnixInit => UnixInv
  BY UnixStarts
<1>2. UnixInv /\ [UnixNext]_unixVars => UnixInv'
  BY UnixStep
<1>3. UnixInv => UnixTypeOK
  BY TypedIsTypeOK DEF UnixInv
<1> QED BY <1>1, <1>2, <1>3, PTL DEF UnixSpec

\* However many inputs and retries there are: between polls a state called ready is the
\* device's as last left alone, Linux shows one menu surface, and a listener has the
\* modifier of the running configuration (linux_host_core.rs, linux_app.rs, macos_app.rs).
THEOREM ShellsConfirm == UnixSpec => []ReadyIsConfirmed
<1>1. UnixInit => UnixInv
  BY UnixStarts
<1>2. UnixInv /\ [UnixNext]_unixVars => UnixInv'
  BY UnixStep
<1>3. UnixInv => ReadyIsConfirmed
  BY UnixInvConfirms
<1> QED BY <1>1, <1>2, <1>3, PTL DEF UnixSpec
=============================================================================
