---------------------------- MODULE WindowsAudio ----------------------------
(***************************************************************************)
(* The Windows audio backend call by call: the cached endpoint of            *)
(* audio_windows.rs, which follows the default output and retries once, the  *)
(* chain of interfaces behind a session operation (audio_sessions_win32.rs)  *)
(* and the apartment guard around both (com_guard.rs).  The caller holds the *)
(* core's lock, so one operation runs at a time, on either thread; devices   *)
(* and sessions come and go between any two calls, and any call may fail.    *)
(* VolumeCore has the volumes and other programs' changes of them; here a    *)
(* device is muted or not.                                                   *)
(***************************************************************************)
EXTENDS Absent, Integers, FiniteSets, FiniteSetsExt, SequencesExt

CONSTANTS
    Devices,
    Sessions,       \* audio sessions, in the order the system lists them
    Process,        \* the process of a session
    MaxOperations,  \* bound
    MaxCallFaults,      \* bound: calls that fail though their device is there
    MaxMoves        \* bound: changes of devices and sessions

ASSUME WindowsAudioAssumption ==
    /\ Sessions \subseteq Nat /\ Process \in [Sessions -> Nat \ {0}]
    /\ None \notin Devices \cup Sessions /\ None \notin [device : Devices, valid : BOOLEAN]
    /\ MaxOperations \in Nat /\ MaxCallFaults \in Nat /\ MaxMoves \in Nat

VARIABLES
    default,    \* the default output, None when there is no device
    muted,      \* the devices that are muted
    live,       \* the device each session plays on, None for one that is not there
    backend,    \* WindowsAudio: "new", "open", "unavailable" or "dropped"
    slot,       \* current: the cached endpoint, and whether its device stayed
    refs,       \* references held to each kind of interface
    apartment,  \* the threads with an initialized apartment
    task,       \* the operation under way, or the last one
    rows,       \* the last list of sessions
    spent       \* operations, faults and moves so far

audio == <<default, muted, live, backend, slot, refs, apartment, task, rows, spent>>
world == <<default, muted, live>>

AudioThreads == {"main", "poll"}
Kinds == {"enumerator", "device", "endpoint", "manager", "sessions", "control", "simple"}
Endpoint(d) == [device |-> d, valid |-> TRUE]

\* What an operation knows: where it is, the rounds of with_endpoint it still has, the
\* device object in its hands, what it read; its rows; and, as history, what the
\* world did to the round: the defaults it saw, faults, moves between calls, and
\* whether the cached endpoint was already invalid when the round began.
Idle == [op |-> None, at |-> "done", rounds |-> <<>>, thread |-> "main", owes |-> FALSE,
         retried |-> FALSE, device |-> None, read |-> FALSE, list |-> <<>>, row |-> None,
         session |-> None, result |-> "ok", defaults |-> {}, faulted |-> FALSE,
         stale |-> FALSE, looking |-> 0, calling |-> 0]

AudioInit ==
    /\ default \in Devices \cup {None} /\ muted = {}
    /\ live = [s \in Sessions |-> default]
    /\ backend = "new" /\ slot = None /\ refs = [k \in Kinds |-> 0]
    /\ apartment \in SUBSET {"main"}
    /\ task = Idle /\ rows = {}
    /\ spent = [operations |-> 0, faults |-> 0, moves |-> 0]

-----------------------------------------------------------------------------
(* Helpers. *)

Take(ks) == refs' = [k \in Kinds |-> refs[k] + (IF k \in ks THEN 1 ELSE 0)]
Release(ks) == refs' = [k \in Kinds |-> refs[k] - (IF k \in ks THEN 1 ELSE 0)]

Goes(at) == task' = [task EXCEPT !.at = at]
Fault == spent.faults < MaxCallFaults /\ spent' = [spent EXCEPT !.faults = @ + 1]
Faulted(t) == [t EXCEPT !.faulted = TRUE]

\* The guard drops: it uninitializes what it initialized, and nothing else.
Leave == apartment' = IF task.owes THEN apartment \ {task.thread} ELSE apartment

\* What is left of an operation.
Ended(t, result) ==
    [Idle EXCEPT !.op = t.op, !.result = result, !.defaults = t.defaults,
                 !.faulted = t.faulted, !.stale = t.stale,
                 !.looking = t.looking, !.calling = t.calling]

\* A round of with_endpoint ends, and the next one follows if it succeeded.  That
\* the last round of set_volume, the unmute, failed is told to nobody.
RoundEnds(t, result) ==
    /\ Leave
    /\ task' = IF result = "ok" /\ Len(task.rounds) > 1
               THEN [t EXCEPT !.at = "between", !.rounds = Tail(@), !.result = "ok"]
               ELSE Ended(t, result)

-----------------------------------------------------------------------------
(* Devices and sessions, and other parts of the program on the main thread. *)

Moving(t) ==
    /\ spent.moves < MaxMoves /\ spent' = [spent EXCEPT !.moves = @ + 1]
    /\ task' = IF task.at = "done" THEN task
               ELSE [t EXCEPT !.defaults = @ \cup {default'},
                              !.calling = @ + (IF task.at \in {"call", "mute"} THEN 1 ELSE 0),
                              !.looking = @ + (IF task.at \in {"call", "mute"} THEN 0 ELSE 1)]

\* The default moves, and devices go: the interfaces held to one that went stay
\* invalid, also when it comes back under the same id.
DevicesChange(d, went) ==
    /\ d # default \/ went # {}
    /\ d \notin went /\ (d = None => default \in went \cup {None})
    /\ default' = d
    /\ slot' = IF slot # None /\ slot.device \in went THEN [slot EXCEPT !.valid = FALSE] ELSE slot
    /\ live' = [s \in Sessions |-> IF live[s] \in went THEN None ELSE live[s]]
    /\ Moving(IF task.device \in went THEN [task EXCEPT !.device = None] ELSE task)
    /\ UNCHANGED <<muted, backend, refs, apartment, rows>>

SessionChanges(s, d) ==
    /\ d # live[s] /\ d \in {default, None} /\ live' = [live EXCEPT ![s] = d]
    /\ default' = default /\ Moving(task)
    /\ UNCHANGED <<muted, backend, slot, refs, apartment, rows>>

\* tao's OleInitialize for a window.
OleInitialize ==
    /\ task.at = "done" /\ "main" \notin apartment /\ apartment' = apartment \cup {"main"}
    /\ UNCHANGED <<world, backend, slot, refs, task, rows, spent>>

-----------------------------------------------------------------------------
(* An operation begins: CoInitializeEx, as a single-threaded apartment. *)

EndpointRounds(op) ==
    CASE op = "open" -> <<"open">>
      [] op = "get" -> <<"get">>
      [] op = "set" -> <<"set", "resume">>
      [] op = "setZero" -> <<"set">>
      [] op = "mute" -> <<"mute">>
      [] op = "toggle" -> <<"get", "flip">>
      [] OTHER -> <<"session">>

Started(t, op) == [Idle EXCEPT !.op = op, !.at = "enter", !.rounds = EndpointRounds(op), !.thread = t]

Begin(t, op) ==
    /\ task.at = "done"
    /\ backend = "open" \/ (backend = "new" /\ op = "open") \/ (backend = "unavailable" /\ op = "list")
    /\ op = "open" => backend = "new"
    /\ spent.operations < MaxOperations /\ spent' = [spent EXCEPT !.operations = @ + 1]
    /\ task' = Started(t, op)
    /\ UNCHANGED <<world, backend, slot, refs, apartment, rows>>

\* A row of the list is moved or muted.
BeginOnRow(t, op, row) ==
    /\ task.at = "done" /\ backend \in {"open", "unavailable"}
    /\ spent.operations < MaxOperations /\ spent' = [spent EXCEPT !.operations = @ + 1]
    /\ task' = [Started(t, op) EXCEPT !.row = row]
    /\ UNCHANGED <<world, backend, slot, refs, apartment, rows>>

OnEndpoint == Head(task.rounds) \notin {"open", "session"}

Enter ==
    /\ task.at \in {"enter", "between"}
    /\ apartment' = apartment \cup {task.thread}
    /\ task' = [task EXCEPT !.owes = task.thread \notin apartment,
                            !.at = IF ~OnEndpoint THEN "create"
                                   ELSE IF slot = None THEN "default" ELSE "check",
                            !.retried = FALSE, !.device = None, !.session = None,
                            !.defaults = {default}, !.faulted = FALSE,
                            !.stale = slot # None /\ ~slot.valid,
                            !.looking = 0, !.calling = 0]
    /\ UNCHANGED <<world, backend, slot, refs, rows, spent>>

\* A thread of another mode refuses; the guard is never made.
EnterFails ==
    /\ task.at \in {"enter", "between"} /\ Fault
    /\ task' = Ended(Faulted(task), "init")
    /\ backend' = IF task.op = "open" THEN "unavailable" ELSE backend
    /\ UNCHANGED <<world, slot, refs, apartment, rows>>

-----------------------------------------------------------------------------
(* audio_windows.rs: the cached endpoint. *)

\* ensure_current: the id of the default against the id of the cached endpoint.
CheckNever ==
    /\ task.at = "check" /\ Goes("call")
    /\ UNCHANGED <<world, backend, slot, refs, apartment, rows, spent>>

CheckEndpoint ==
    /\ task.at = "check" /\ default # None
    /\ IF slot.device = default
       THEN Goes("call") /\ UNCHANGED <<slot, refs>>
       ELSE Goes("default") /\ slot' = None /\ Release({"endpoint", "device"})
    /\ UNCHANGED <<world, backend, apartment, rows, spent>>

\* The default's object is released whether or not its id could be read; the cached
\* endpoint stays.
CheckEndpointFails ==
    /\ task.at = "check"
    /\ IF default = None THEN RoundEnds(task, "lost") /\ UNCHANGED spent
                         ELSE Fault /\ RoundEnds(Faulted(task), "io")
    /\ UNCHANGED <<world, backend, slot, refs, rows>>

\* acquire_default: GetDefaultAudioEndpoint and GetId, then Activate.
GetDefault ==
    /\ task.at = "default" /\ default # None
    /\ Take({"device"})
    /\ task' = [task EXCEPT !.at = "activate", !.device = default]
    /\ UNCHANGED <<world, backend, slot, apartment, rows, spent>>

\* new() gives its enumerator back when there is no endpoint.
OpenFails(t, kinds, result) ==
    /\ RoundEnds(t, result)
    /\ IF task.op = "open" THEN Release(kinds \cup {"enumerator"}) /\ backend' = "unavailable"
                           ELSE Release(kinds) /\ UNCHANGED backend

GetDefaultFails ==
    /\ task.at = "default"
    /\ IF default = None THEN OpenFails(task, {}, "lost") /\ UNCHANGED spent
                         ELSE Fault /\ OpenFails(Faulted(task), {}, "io")
    /\ UNCHANGED <<world, slot, rows>>

Activate ==
    /\ task.at = "activate" /\ task.device # None
    /\ Take({"endpoint"}) /\ slot' = Endpoint(task.device)
    /\ IF task.op = "open" THEN backend' = "open" /\ RoundEnds(task, "ok")
                           ELSE Goes("call") /\ UNCHANGED <<backend, apartment>>
    /\ UNCHANGED <<world, rows, spent>>

\* Also GetId, which comes before it.
ActivateFailsAndKeeps ==
    /\ task.at = "activate"
    /\ IF task.device = None THEN OpenFails(task, {}, "lost") /\ UNCHANGED spent
                             ELSE Fault /\ OpenFails(Faulted(task), {}, "io")
    /\ UNCHANGED <<world, slot, rows>>

ActivateFails ==
    /\ task.at = "activate"
    /\ IF task.device = None THEN OpenFails(task, {"device"}, "lost") /\ UNCHANGED spent
                             ELSE Fault /\ OpenFails(Faulted(task), {"device"}, "io")
    /\ UNCHANGED <<world, slot, rows>>

\* The call itself; get_state is two, GetMute the second.
Call ==
    /\ task.at = "call" /\ slot.valid
    /\ IF Head(task.rounds) = "get"
       THEN Goes("mute") /\ UNCHANGED <<muted, apartment>>
       ELSE /\ RoundEnds(task, "ok")
            /\ muted' = CASE Head(task.rounds) = "set" -> muted
                          [] Head(task.rounds) = "resume" -> muted \ {slot.device}
                          [] Head(task.rounds) = "mute" -> muted \cup {slot.device}
                          [] OTHER -> IF task.read THEN muted \ {slot.device}
                                                   ELSE muted \cup {slot.device}
    /\ UNCHANGED <<default, live, backend, slot, refs, rows, spent>>

GetMute ==
    /\ task.at = "mute" /\ slot.valid
    /\ RoundEnds([task EXCEPT !.read = slot.device \in muted], "ok")
    /\ UNCHANGED <<world, backend, slot, refs, rows, spent>>

\* The first failed call drops the endpoint and tries with a fresh one.
CallFails ==
    /\ task.at \in {"call", "mute"}
    /\ IF slot.valid THEN Fault ELSE UNCHANGED spent
    /\ LET t == IF slot.valid THEN Faulted(task) ELSE task
       IN  IF task.retried
           THEN /\ RoundEnds(t, IF slot.valid THEN "io" ELSE "lost")
                /\ UNCHANGED <<slot, refs>>
           ELSE /\ task' = [t EXCEPT !.at = "default", !.retried = TRUE]
                /\ slot' = None /\ Release({"endpoint", "device"})
                /\ UNCHANGED apartment
    /\ UNCHANGED <<world, backend, rows>>

\* WindowsAudio is dropped.
DropBackend ==
    /\ task.at = "done" /\ backend = "open" /\ backend' = "dropped"
    /\ slot' = None
    /\ Release({"enumerator"} \cup (IF slot = None THEN {} ELSE {"endpoint", "device"}))
    /\ UNCHANGED <<world, apartment, task, rows, spent>>

-----------------------------------------------------------------------------
(* audio_sessions_win32.rs: a chain of interfaces for every operation. *)

\* CoCreateInstance, which new() calls as well.
Create ==
    /\ task.at = "create" /\ Take({"enumerator"})
    /\ Goes(IF task.op = "open" THEN "default" ELSE "chain")
    /\ UNCHANGED <<world, backend, slot, apartment, rows, spent>>

CreateFails ==
    /\ task.at = "create" /\ Fault /\ RoundEnds(Faulted(task), "init")
    /\ backend' = IF task.op = "open" THEN "unavailable" ELSE backend
    /\ UNCHANGED <<world, slot, refs, rows>>

\* The chain in the order of its calls, and what each adds to it.
Links == <<"chain", "manager", "sessions", "count">>
Adds(at) == CASE at = "chain" -> {"device"} [] at = "manager" -> {"manager"} [] OTHER -> {"sessions"}
HeldAt(at) == {"enumerator"} \cup (IF at = "chain" THEN {} ELSE {"device"})
              \cup (IF at \in {"chain", "manager"} THEN {} ELSE {"manager"})

\* The enumerator of the sessions keeps the sessions of this moment.
SnapshotOf(d) == SetToSortSeq({s \in Sessions : live[s] = d}, <)

Chain ==
    /\ task.at \in {"chain", "manager", "sessions"}
    /\ IF task.at = "chain" THEN default # None ELSE task.device # None
    /\ Take(Adds(task.at))
    /\ task' = [task EXCEPT
         !.at = Links[CHOOSE i \in 2..4 : Links[i - 1] = task.at],
         !.device = IF task.at = "chain" THEN default ELSE @,
         !.list = IF task.at = "sessions" THEN SnapshotOf(task.device) ELSE @]
    /\ UNCHANGED <<world, backend, slot, apartment, rows, spent>>

ChainFails ==
    /\ task.at \in {"chain", "manager", "sessions"}
    /\ IF (IF task.at = "chain" THEN default ELSE task.device) = None
       THEN RoundEnds(task, "lost") /\ UNCHANGED spent
       ELSE Fault /\ RoundEnds(Faulted(task), "io")
    /\ Release(HeldAt(task.at))
    /\ rows' = IF task.op = "list" THEN {} ELSE rows
    /\ UNCHANGED <<world, backend, slot>>

TheChain == {"enumerator", "device", "manager", "sessions"}
NotFound == IF task.op = "list" THEN "ok" ELSE "gone"

\* GetCount, with an empty list or an error when it fails.
Count ==
    /\ task.at = "count"
    /\ rows' = IF task.op = "list" THEN {} ELSE rows
    /\ \/ Goes("look") /\ UNCHANGED <<refs, apartment, spent>>
       \/ Fault /\ Release(TheChain) /\ RoundEnds(Faulted(task), NotFound)
    /\ UNCHANGED <<world, backend, slot>>

\* resolved_session_id: the instance identifier, or the process when it is refused.
Id(s, refused) == IF refused THEN <<"process", Process[s]>> ELSE <<"instance", s>>

Skip == task' = [task EXCEPT !.list = Tail(@)]

\* One session of enumerate_sessions: a row under its identifier, its process or, with
\* no second interface, process 0; or no row when the session cannot be had.
Enumerate ==
    /\ task.at = "look" /\ task.op = "list" /\ task.list # <<>>
    /\ LET s == Head(task.list)
       IN  \/ Skip /\ rows' = rows \cup {[id |-> Id(s, FALSE), session |-> s]} /\ UNCHANGED spent
           \/ /\ Fault /\ task' = Faulted([task EXCEPT !.list = Tail(@)])
              /\ \/ rows' = rows
                 \/ \E id \in {Id(s, TRUE), <<"process", 0>>} :
                      rows' = rows \cup {[id |-> id, session |-> s]}
    /\ UNCHANGED <<world, backend, slot, refs, apartment>>

\* One session of with_session that is not the one; or cannot be asked.
PassOver ==
    /\ task.at = "look" /\ task.op # "list" /\ task.list # <<>>
    /\ \/ Id(Head(task.list), FALSE) # task.row.id /\ Skip /\ UNCHANGED spent
       \/ Fault /\ task' = Faulted([task EXCEPT !.list = Tail(@)])
    /\ UNCHANGED <<world, backend, slot, refs, apartment, rows>>

Match ==
    /\ task.at = "look" /\ task.op # "list" /\ task.list # <<>>
    /\ LET s == Head(task.list)
       IN  \/ /\ Id(s, FALSE) = task.row.id /\ UNCHANGED spent
              /\ task' = [task EXCEPT !.at = "act", !.session = s]
           \/ /\ Id(s, TRUE) = task.row.id /\ Fault
              /\ task' = Faulted([task EXCEPT !.at = "act", !.session = s])
    /\ Take({"control", "simple"})
    /\ UNCHANGED <<world, backend, slot, apartment, rows>>

\* The end of the list: the list is there, the session is not.
EndOfList ==
    /\ task.at = "look" /\ task.list = <<>>
    /\ Release(TheChain) /\ RoundEnds(task, NotFound)
    /\ UNCHANGED <<world, backend, slot, rows, spent>>

\* SetMasterVolume, or GetMute and SetMute; a session without a volume control, and a
\* call that fails, give everything back as well.
Act ==
    /\ task.at = "act"
    /\ Release(TheChain \cup {"control", "simple"})
    /\ \/ RoundEnds(task, "ok") /\ UNCHANGED spent
       \/ (IF task.device = None THEN UNCHANGED spent ELSE Fault) /\ RoundEnds(Faulted(task), "io")
    /\ UNCHANGED <<world, backend, slot, rows>>

-----------------------------------------------------------------------------
EndpointOperations == {"open", "get", "set", "setZero", "mute", "toggle"}
Operations == EndpointOperations \cup {"list"}

AudioWorld ==
    \/ \E d \in Devices \cup {None}, went \in SUBSET Devices : DevicesChange(d, went)
    \/ \E s \in Sessions, d \in Devices \cup {None} : SessionChanges(s, d)
    \/ OleInitialize

AudioSteps ==
    \/ Enter \/ EnterFails \/ CheckEndpoint \/ CheckEndpointFails
    \/ GetDefault \/ GetDefaultFails \/ Activate \/ ActivateFails
    \/ Call \/ GetMute \/ CallFails
    \/ Create \/ CreateFails \/ Chain \/ ChainFails \/ Count
    \/ Enumerate \/ PassOver \/ Match \/ EndOfList \/ Act

AudioNext ==
    \/ AudioWorld \/ AudioSteps \/ DropBackend
    \/ \E t \in AudioThreads, op \in Operations : Begin(t, op)
    \/ \E t \in AudioThreads, op \in {"setSession", "muteSession"}, row \in rows : BeginOnRow(t, op, row)

-----------------------------------------------------------------------------
Resting == task.at \in {"done", "between"}

Count1(b) == IF b THEN 1 ELSE 0

\* Whatever call of the hand-written chains failed, an operation leaves the references
\* of the cached endpoint and of the enumerator, and no others; every call is made in
\* an apartment, and the poll thread keeps none.
NothingLeaks ==
    /\ Resting =>
         /\ refs["enumerator"] = Count1(backend = "open")
         /\ refs["device"] = Count1(slot # None) /\ refs["endpoint"] = Count1(slot # None)
         /\ \A k \in Kinds \ {"enumerator", "device", "endpoint"} : refs[k] = 0
    /\ Resting \/ task.at = "enter" \/ task.thread \in apartment
    /\ "poll" \in apartment => ~Resting

\* "The backend follows the current default render endpoint" (audio_windows.rs:14):
\* a call that succeeds was made on a device that was the default at some time of its
\* round.  One device that goes, or comes back, between the id check and the calls is
\* survived; a round fails on a fault, without any default, on a change while it
\* looks for the default, or on a second change.  A cached endpoint whose device went
\* before the round and came back under its id passes the check and uses up the retry.
FollowsDefault ==
    Resting /\ backend = "open" /\ task.op \in EndpointOperations =>
        /\ task.result = "ok" => slot # None /\ slot.device \in task.defaults
        /\ task.result = "lost" => \/ task.faulted \/ None \in task.defaults
                                   \/ task.looking > 0 \/ task.calling > 1
                                   \/ task.stale /\ task.calling > 0

\* A row's slider moves the session the row was made from, also when a process has
\* several sessions; only two refused identifiers can confuse two of them.
RowsKeepTheirSession ==
    task.session # None /\ task.session # task.row.session => spent.faults >= 2

\* However calls fail and devices come and go: the endpoint in use is the default one,
\* nothing else is held, and a row is its session's.
AudioIsSound == NothingLeaks /\ FollowsDefault /\ RowsKeepTheirSession
=============================================================================
