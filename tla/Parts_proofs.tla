---------------------------- MODULE Parts_proofs ----------------------------
(***************************************************************************)
(* What holds of the independent parts for every value of their constants.  *)
(* Each part has an inductive invariant of its own, kept by its own steps;   *)
(* the steps of the other parts leave its variables alone.                   *)
(***************************************************************************)
EXTENDS Parts, FiniteSetTheorems, SequenceTheorems, TLAPS

-----------------------------------------------------------------------------
(* The Windows audio backend.                                               *)

AudioStages == {"done", "between", "enter", "check", "call", "mute", "default", "activate",
                "create", "chain", "manager", "sessions", "count", "look", "act"}
OfRow == {"setSession", "muteSession"}
InRound == task.at \notin {"done", "between", "enter"}
InCall == task.at \in {"call", "mute"}
Chained == task.at \in {"chain", "manager", "sessions", "count", "look", "act"}

\* What rounds an operation still has.
RoundsLeft(op) ==
    CASE op = "open" -> {<<"open">>}
      [] op = "get" -> {<<"get">>}
      [] op = "set" -> {<<"set", "resume">>, <<"resume">>}
      [] op = "setZero" -> {<<"set">>}
      [] op = "mute" -> {<<"mute">>}
      [] op = "toggle" -> {<<"get", "flip">>, <<"flip">>}
      [] OTHER -> {<<"session">>}

\* The fields of an operation; what it read and its list are not restricted.
TaskShape(t) ==
    t = [op |-> t.op, at |-> t.at, rounds |-> t.rounds, thread |-> t.thread, owes |-> t.owes,
         retried |-> t.retried, device |-> t.device, read |-> t.read, list |-> t.list, row |-> t.row,
         session |-> t.session, result |-> t.result, defaults |-> t.defaults, faulted |-> t.faulted,
         stale |-> t.stale, looking |-> t.looking, calling |-> t.calling]

WorldTyped ==
    /\ default \in Devices \cup {None}
    /\ slot \in {None} \cup [device : Devices, valid : BOOLEAN]
    /\ backend \in {"new", "open", "unavailable", "dropped"}
    /\ refs \in [Kinds -> Int]
    /\ apartment \subseteq AudioThreads
    /\ spent \in [operations : Nat, faults : Nat, moves : Nat]

TaskTyped ==
    /\ TaskShape(task)
    /\ task.op \in Operations \cup OfRow \cup {None} /\ task.at \in AudioStages
    /\ task.thread \in AudioThreads /\ task.device \in Devices \cup {None}
    /\ task.owes \in BOOLEAN /\ task.retried \in BOOLEAN /\ task.faulted \in BOOLEAN
    /\ task.stale \in BOOLEAN /\ task.looking \in Nat /\ task.calling \in Nat

RoundsFit == task.at # "done" => task.rounds \in RoundsLeft(task.op) /\ task.op \in Operations \cup OfRow

AudioTypeOK == WorldTyped /\ TaskTyped /\ RoundsFit

\* The references held, exactly.
Holding ==
    /\ refs["enumerator"] = Count1(backend = "open")
                            + Count1(Chained \/ (task.op = "open" /\ task.at \in {"default", "activate"}))
    /\ refs["device"] = Count1(slot # None) + Count1(task.at = "activate")
                        + Count1(Chained /\ task.at # "chain")
    /\ refs["endpoint"] = Count1(slot # None)
    /\ refs["manager"] = Count1(Chained /\ task.at \notin {"chain", "manager"})
    /\ refs["sessions"] = Count1(task.at \in {"count", "look", "act"})
    /\ refs["control"] = Count1(task.at = "act") /\ refs["simple"] = Count1(task.at = "act")

\* Which operation can be where, and when there is an endpoint.
Stands ==
    /\ slot # None => backend = "open"
    /\ task.at \in {"default", "activate"} => slot = None
    /\ task.at \in {"check", "call", "mute"} => slot # None
    /\ InCall \/ task.at = "check" => task.op \notin {"open", "list"} \cup OfRow
    /\ task.at \in {"default", "activate"} => task.op \notin {"list"} \cup OfRow
    /\ task.at = "between" => task.op \in {"set", "toggle"}
    /\ Chained => task.op \notin EndpointOperations
    /\ task.at = "create" => task.op \notin EndpointOperations \ {"open"}
    /\ task.op = "open" /\ task.at # "done" => backend = "new"
    /\ task.op \in EndpointOperations \ {"open"} /\ task.at # "done" => backend = "open"

Apartments ==
    /\ InRound => task.thread \in apartment
    /\ "poll" \in apartment => task.thread = "poll" /\ task.owes /\ InRound

\* What the world must have done to a round for it to be where it is.
RoundSoFar ==
    /\ InRound => default \in task.defaults
    /\ InCall => slot.device \in task.defaults
    /\ task.at = "activate" => IF task.device = None THEN task.looking > 0
                                                     ELSE task.device \in task.defaults
    /\ task.at = "check" => ~task.retried /\ (slot.valid \/ task.stale \/ task.looking > 0)
    /\ InCall /\ ~task.retried => slot.valid \/ task.stale \/ task.looking > 0 \/ task.calling > 0
    /\ InRound /\ task.retried => task.stale \/ task.faulted \/ task.looking > 0 \/ task.calling > 0
    /\ InCall /\ task.retried => \/ slot.valid \/ task.looking > 0 \/ task.faulted
                                 \/ task.calling > 1 \/ (task.calling > 0 /\ task.stale)

\* A row is the row of its session, unless its identifier was refused.
OwnRow(r) == r.id = <<"instance", r.session>> \/ (r.id[1] = "process" /\ spent.faults >= 1)

RowsAreTheirs ==
    /\ \A r \in rows : OwnRow(r)
    /\ task.op \in OfRow /\ task.at # "done" => OwnRow(task.row)

\* Everything an operation's place implies, and the three promises themselves.
AudioInv == AudioTypeOK /\ Holding /\ Stands /\ Apartments /\ RoundSoFar /\ RowsAreTheirs
            /\ FollowsDefault /\ RowsKeepTheirSession

USE DEF AudioStages, OfRow, InRound, InCall, Chained, AudioThreads,
        EndpointOperations, Operations, Resting

LEMMA AudioStarts ==
    ASSUME AudioInit
    PROVE  AudioInv
<1> USE WindowsAudioAssumption DEF AudioInit
<1>1. TaskShape(task)
  BY DEF Idle, TaskShape
<1>2. /\ task.op = None /\ task.at = "done" /\ task.thread = "main" /\ task.owes = FALSE
      /\ task.retried = FALSE /\ task.device = None /\ task.faulted = FALSE /\ task.stale = FALSE
      /\ task.looking = 0 /\ task.calling = 0 /\ task.session = None
  BY DEF Idle
<1>3. task.owes \in BOOLEAN /\ task.retried \in BOOLEAN /\ task.faulted \in BOOLEAN /\ task.stale \in BOOLEAN
  BY <1>2, Zenon
<1>4. AudioTypeOK
  BY <1>1, <1>2, <1>3 DEF AudioTypeOK, WorldTyped, TaskTyped, RoundsFit
<1>5. Holding /\ Stands /\ Apartments /\ RoundSoFar
  BY <1>2 DEF Holding, Stands, Apartments, RoundSoFar, Kinds, Count1
<1>6. RowsAreTheirs /\ FollowsDefault /\ RowsKeepTheirSession
  BY <1>2 DEF RowsAreTheirs, FollowsDefault, RowsKeepTheirSession
<1> QED BY <1>4, <1>5, <1>6 DEF AudioInv

\* A fault is counted, and nothing else of the bounds changes.
LEMMA FaultCounts ==
    ASSUME spent \in [operations : Nat, faults : Nat, moves : Nat], Fault
    PROVE  /\ spent' \in [operations : Nat, faults : Nat, moves : Nat]
           /\ spent'.faults = spent.faults + 1
  BY DEF Fault

LEMMA TakeAdds ==
    ASSUME refs \in [Kinds -> Int], NEW ks, Take(ks)
    PROVE  refs' \in [Kinds -> Int] /\ \A k \in Kinds : refs'[k] = refs[k] + Count1(k \in ks)
  BY DEF Take, Count1

LEMMA ReleaseTakes ==
    ASSUME refs \in [Kinds -> Int], NEW ks, Release(ks)
    PROVE  refs' \in [Kinds -> Int] /\ \A k \in Kinds : refs'[k] = refs[k] - Count1(k \in ks)
  BY DEF Release, Count1

\* t is the operation under way but for what it read and whether a call failed.
Like(t) ==
    /\ TaskShape(t) /\ t.faulted \in BOOLEAN
    /\ t.op = task.op /\ t.rounds = task.rounds /\ t.thread = task.thread /\ t.owes = task.owes
    /\ t.retried = task.retried /\ t.device = task.device /\ t.row = task.row /\ t.session = task.session
    /\ t.defaults = task.defaults /\ t.stale = task.stale
    /\ t.looking = task.looking /\ t.calling = task.calling

LEMMA ItselfIsLike == ASSUME TaskTyped PROVE Like(task)
  BY DEF Like, TaskTyped

LEMMA FaultedIsLike == ASSUME TaskTyped PROVE Like(Faulted(task)) /\ Faulted(task).faulted
<1>1. \A b : LET u == [task EXCEPT !.faulted = b]
             IN  /\ TaskShape(u) /\ u.faulted = b
                 /\ u.op = task.op /\ u.rounds = task.rounds /\ u.thread = task.thread /\ u.owes = task.owes
                 /\ u.retried = task.retried /\ u.device = task.device /\ u.row = task.row
                 /\ u.session = task.session /\ u.defaults = task.defaults /\ u.stale = task.stale
                 /\ u.looking = task.looking /\ u.calling = task.calling
  BY DEF TaskTyped, TaskShape
<1> QED BY <1>1, Zenon DEF Like, Faulted

LEMMA ReadIsLike ==
    ASSUME TaskTyped, NEW b PROVE Like([task EXCEPT !.read = b]) /\ [task EXCEPT !.read = b].faulted = task.faulted
  BY DEF Like, TaskTyped, TaskShape

\* How a round that ended leaves the operation.
Rests(faulted, result) ==
    /\ TaskTyped' /\ RoundsFit' /\ task'.at \in {"done", "between"}
    /\ task'.op = task.op /\ task'.result = result /\ task'.defaults = task.defaults
    /\ task'.faulted = faulted /\ task'.stale = task.stale
    /\ task'.looking = task.looking /\ task'.calling = task.calling
    /\ task'.at = "between" => result = "ok" /\ task'.op \in {"set", "toggle"}
    /\ task'.session = None \/ (task'.session = task.session /\ task'.row = task.row)

LEMMA RoundRests ==
    ASSUME TaskTyped, RoundsFit, task.at # "done", NEW t, NEW result, Like(t), RoundEnds(t, result)
    PROVE  Rests(t.faulted, result)
<1>1. CASE ~(result = "ok" /\ Len(task.rounds) > 1)
  <2>1. task' = Ended(t, result)
    BY <1>1 DEF RoundEnds
  <2>2. task' = [op |-> task.op, at |-> "done", rounds |-> <<>>, thread |-> "main", owes |-> FALSE,
         retried |-> FALSE, device |-> None, read |-> FALSE, list |-> <<>>, row |-> None,
         session |-> None, result |-> result, defaults |-> task.defaults, faulted |-> t.faulted,
         stale |-> task.stale, looking |-> task.looking, calling |-> task.calling]
    BY <2>1 DEF Ended, Idle, Like
  <2>3. TaskTyped'
    BY <2>2 DEF TaskTyped, TaskShape, Like, AudioStages, AudioThreads
  <2> QED BY <2>2, <2>3 DEF Rests, RoundsFit
<1>2. CASE result = "ok" /\ Len(task.rounds) > 1
  <2>1. task' = [t EXCEPT !.at = "between", !.rounds = Tail(@), !.result = "ok"]
    BY <1>2 DEF RoundEnds
  <2>2. task.op \in {"set", "toggle"} /\ Tail(task.rounds) \in RoundsLeft(task.op)
    <3>1. \A a : ~(Len(<<a>>) > 1)
      OBVIOUS
    <3>2. \A a, b : Tail(<<a, b>>) = <<b>>
      OBVIOUS
    <3>3. task.rounds \in {<<"set", "resume">>, <<"get", "flip">>}
      BY <1>2, <3>1 DEF RoundsFit, RoundsLeft, TaskTyped
    <3>4. CASE task.rounds = <<"set", "resume">>
      <4>1. task.op = "set"
        BY <3>4 DEF RoundsFit, RoundsLeft, TaskTyped
      <4> QED BY <4>1, <3>2, <3>4 DEF RoundsLeft
    <3>5. CASE task.rounds = <<"get", "flip">>
      <4>1. task.op = "toggle"
        BY <3>5 DEF RoundsFit, RoundsLeft, TaskTyped
      <4> QED BY <4>1, <3>2, <3>5 DEF RoundsLeft
    <3> QED BY <3>3, <3>4, <3>5
  <2>3. TaskTyped'
    BY <2>1 DEF Like, TaskShape, TaskTyped
  <2>4. task'.rounds = Tail(task.rounds) /\ task'.op = task.op /\ task'.at = "between"
    BY <2>1 DEF Like, TaskShape
  <2>5. RoundsFit'
    BY <2>2, <2>4, WindowsAudioAssumption DEF RoundsFit
  <2> QED BY <1>2, <2>1, <2>2, <2>3, <2>5 DEF Like, TaskShape, Rests
<1> QED BY <1>1, <1>2

\* Whatever a round's last step: the thread's apartment is left and the rows are kept.
LEMMA RoundCloses ==
    ASSUME AudioInv, InRound, NEW faulted, NEW result, Rests(faulted, result), Leave,
           spent' \in [operations : Nat, faults : Nat, moves : Nat], spent'.faults >= spent.faults,
           rows' \subseteq rows
    PROVE  /\ TaskTyped' /\ RoundsFit' /\ Apartments' /\ RoundSoFar' /\ RowsAreTheirs' /\ RowsKeepTheirSession'
           /\ apartment' \subseteq AudioThreads
<1> USE DEF AudioInv, AudioTypeOK
<1>1. TaskTyped' /\ RoundsFit' /\ RoundSoFar' /\ task'.at \in {"done", "between"} /\ task'.op = task.op
  BY DEF Rests, RoundSoFar
<1>2. Apartments' /\ apartment' \subseteq AudioThreads
  BY <1>1 DEF Leave, Apartments, TaskTyped, WorldTyped
<1>3. RowsAreTheirs'
  <2>1. \A r \in rows' : OwnRow(r)'
    BY DEF RowsAreTheirs, OwnRow, WorldTyped
  <2>2. task'.at = "between" => task'.op \notin OfRow
    BY DEF Rests
  <2> QED BY <1>1, <2>1, <2>2 DEF RowsAreTheirs
<1>4. RowsKeepTheirSession'
  BY DEF Rests, RowsKeepTheirSession, WorldTyped
<1> QED BY <1>1, <1>2, <1>3, <1>4

\* What the world does to an operation under way, t being the operation with the device
\* in its hands as it is now.
LEMMA WorldMoves ==
    ASSUME TaskTyped, RoundsFit, NEW t, TaskShape(t), t = [task EXCEPT !.device = t.device],
           t.device \in {task.device, None}, Moving(t), spent \in [operations : Nat, faults : Nat, moves : Nat]
    PROVE  /\ TaskTyped' /\ RoundsFit'
           /\ spent' \in [operations : Nat, faults : Nat, moves : Nat] /\ spent'.faults = spent.faults
           /\ task'.at = task.at /\ task'.op = task.op /\ task'.thread = task.thread /\ task'.owes = task.owes
           /\ task'.retried = task.retried /\ task'.row = task.row /\ task'.session = task.session
           /\ task'.result = task.result /\ task'.faulted = task.faulted /\ task'.stale = task.stale
           /\ task.at # "done" => task'.defaults = task.defaults \cup {default'} /\ task'.device = t.device
           /\ task.at = "done" => task' = task
           /\ InCall => task'.calling = task.calling + 1 /\ task'.looking = task.looking
           /\ ~InCall /\ task.at # "done" => task'.looking = task.looking + 1 /\ task'.calling = task.calling
<1>1. spent' \in [operations : Nat, faults : Nat, moves : Nat] /\ spent'.faults = spent.faults
  BY DEF Moving
<1>2. CASE task.at = "done"
  BY <1>1, <1>2 DEF Moving, TaskTyped, RoundsFit
<1>3. CASE task.at # "done"
  <2> DEFINE defaults == task.defaults \cup {default'}
             calling == task.calling + (IF InCall THEN 1 ELSE 0)
             looking == task.looking + (IF InCall THEN 0 ELSE 1)
  <2>1. task' = [t EXCEPT !.defaults = defaults, !.calling = calling, !.looking = looking]
    <3>1. t.defaults = task.defaults /\ t.calling = task.calling /\ t.looking = task.looking
      BY DEF TaskTyped, TaskShape
    <3> QED BY <1>3, <3>1 DEF Moving
  <2>2. calling \in Nat /\ looking \in Nat
    BY DEF TaskTyped
  <2>3. /\ InCall => calling = task.calling + 1 /\ looking = task.looking
        /\ ~InCall => calling = task.calling /\ looking = task.looking + 1
    BY DEF TaskTyped
  <2> HIDE DEF defaults, calling, looking
  <2>4. /\ TaskShape(task') /\ task'.defaults = defaults /\ task'.calling = calling /\ task'.looking = looking
        /\ task'.at = task.at /\ task'.op = task.op /\ task'.thread = task.thread /\ task'.owes = task.owes
        /\ task'.retried = task.retried /\ task'.row = task.row /\ task'.session = task.session
        /\ task'.result = task.result /\ task'.faulted = task.faulted /\ task'.stale = task.stale
        /\ task'.device = t.device /\ task'.rounds = task.rounds
    BY <2>1 DEF TaskShape, TaskTyped
  <2>5. TaskTyped' /\ RoundsFit'
    <3>1. TaskTyped'
      BY <2>2, <2>4 DEF TaskTyped
    <3> QED BY <2>4, <3>1 DEF RoundsFit
  <2> QED BY <1>1, <1>3, <2>3, <2>4, <2>5 DEF defaults
<1> QED BY <1>2, <1>3

LEMMA DevicesMove ==
    ASSUME AudioInv, NEW d \in Devices \cup {None}, NEW went \in SUBSET Devices, DevicesChange(d, went)
    PROVE  AudioInv'
<1> USE WindowsAudioAssumption DEF AudioInv, AudioTypeOK
<1> DEFINE t == IF task.device \in went THEN [task EXCEPT !.device = None] ELSE task
<1>1. TaskShape(t) /\ t = [task EXCEPT !.device = t.device] /\ t.device \in {task.device, None}
      /\ t.device \notin went
  BY DEF TaskTyped, TaskShape
<1>2. Moving(t) /\ default' = d /\ refs' = refs /\ apartment' = apartment /\ rows' = rows /\ backend' = backend
  BY DEF DevicesChange
<1> HIDE DEF t
<1>3. slot' \in {None} \cup [device : Devices, valid : BOOLEAN] /\ (slot' = None <=> slot = None)
      /\ (slot # None => slot'.device = slot.device)
  BY DEF DevicesChange, WorldTyped
<1>4. /\ TaskTyped' /\ RoundsFit'
      /\ spent' \in [operations : Nat, faults : Nat, moves : Nat] /\ spent'.faults = spent.faults
      /\ task'.at = task.at /\ task'.op = task.op /\ task'.thread = task.thread /\ task'.owes = task.owes
      /\ task'.retried = task.retried /\ task'.row = task.row /\ task'.session = task.session
      /\ task'.result = task.result /\ task'.faulted = task.faulted /\ task'.stale = task.stale
      /\ task.at # "done" => task'.defaults = task.defaults \cup {default'} /\ task'.device = t.device
      /\ task.at = "done" => task' = task
      /\ InCall => task'.calling = task.calling + 1 /\ task'.looking = task.looking
      /\ ~InCall /\ task.at # "done" => task'.looking = task.looking + 1 /\ task'.calling = task.calling
  BY <1>1, <1>2, WorldMoves DEF WorldTyped
<1>5. WorldTyped'
  BY <1>2, <1>3, <1>4 DEF WorldTyped
<1>6. Holding' /\ Stands' /\ Apartments'
  BY <1>2, <1>3, <1>4 DEF Holding, Stands, Apartments
<1>7. RoundSoFar'
  BY <1>1, <1>2, <1>3, <1>4 DEF RoundSoFar, Stands, TaskTyped
<1>8. RowsAreTheirs' /\ RowsKeepTheirSession'
  BY <1>2, <1>4 DEF RowsAreTheirs, OwnRow, RowsKeepTheirSession
<1>9. FollowsDefault'
  BY <1>2, <1>3, <1>4 DEF FollowsDefault, TaskTyped
<1> QED BY <1>4, <1>5, <1>6, <1>7, <1>8, <1>9

LEMMA SessionsMove ==
    ASSUME AudioInv, NEW s \in Sessions, NEW d \in Devices \cup {None}, SessionChanges(s, d)
    PROVE  AudioInv'
<1> USE WindowsAudioAssumption DEF AudioInv, AudioTypeOK
<1>1. TaskShape(task) /\ task = [task EXCEPT !.device = task.device] /\ task.device \in {task.device, None}
  BY DEF TaskTyped, TaskShape
<1>2. Moving(task) /\ default' = default /\ refs' = refs /\ apartment' = apartment /\ rows' = rows
      /\ backend' = backend /\ slot' = slot
  BY DEF SessionChanges
<1>4. /\ TaskTyped' /\ RoundsFit'
      /\ spent' \in [operations : Nat, faults : Nat, moves : Nat] /\ spent'.faults = spent.faults
      /\ task'.at = task.at /\ task'.op = task.op /\ task'.thread = task.thread /\ task'.owes = task.owes
      /\ task'.retried = task.retried /\ task'.row = task.row /\ task'.session = task.session
      /\ task'.result = task.result /\ task'.faulted = task.faulted /\ task'.stale = task.stale
      /\ task.at # "done" => task'.defaults = task.defaults \cup {default'} /\ task'.device = task.device
      /\ task.at = "done" => task' = task
      /\ InCall => task'.calling = task.calling + 1 /\ task'.looking = task.looking
      /\ ~InCall /\ task.at # "done" => task'.looking = task.looking + 1 /\ task'.calling = task.calling
  BY <1>1, <1>2, WorldMoves DEF WorldTyped
<1>5. WorldTyped'
  BY <1>2, <1>4 DEF WorldTyped
<1>6. Holding' /\ Stands' /\ Apartments'
  BY <1>2, <1>4 DEF Holding, Stands, Apartments
<1>7. RoundSoFar'
  BY <1>2, <1>4 DEF RoundSoFar, Stands, TaskTyped
<1>8. RowsAreTheirs' /\ RowsKeepTheirSession'
  BY <1>2, <1>4 DEF RowsAreTheirs, OwnRow, RowsKeepTheirSession
<1>9. FollowsDefault'
  BY <1>2, <1>4 DEF FollowsDefault, TaskTyped
<1> QED BY <1>4, <1>5, <1>6, <1>7, <1>8, <1>9

\* What an operation knows when it starts.
LEMMA StartsFresh ==
    ASSUME NEW t \in AudioThreads, NEW op \in Operations \cup OfRow, NEW row,
           task' = [Started(t, op) EXCEPT !.row = row] \/ (row = None /\ task' = Started(t, op)), spent' = [spent EXCEPT !.operations = @ + 1],
           spent \in [operations : Nat, faults : Nat, moves : Nat]
    PROVE  /\ TaskTyped' /\ RoundsFit' /\ task'.at = "enter" /\ task'.op = op /\ task'.row = row
           /\ task'.session = None
           /\ spent' \in [operations : Nat, faults : Nat, moves : Nat] /\ spent'.faults = spent.faults
<1>1. task' = [op |-> op, at |-> "enter", rounds |-> EndpointRounds(op), thread |-> t, owes |-> FALSE,
         retried |-> FALSE, device |-> None, read |-> FALSE, list |-> <<>>, row |-> row,
         session |-> None, result |-> "ok", defaults |-> {}, faulted |-> FALSE,
         stale |-> FALSE, looking |-> 0, calling |-> 0]
  <2>1. CASE row = None /\ task' = Started(t, op)
    BY <2>1 DEF Started, Idle
  <2>2. CASE task' = [Started(t, op) EXCEPT !.row = row]
    BY <2>2 DEF Started, Idle
  <2> QED BY <2>1, <2>2
<1>2. EndpointRounds(op) \in RoundsLeft(op)
  BY DEF EndpointRounds, RoundsLeft
<1>3. /\ TaskShape(task') /\ task'.op = op /\ task'.at = "enter" /\ task'.thread = t /\ task'.owes = FALSE
      /\ task'.retried = FALSE /\ task'.device = None /\ task'.faulted = FALSE /\ task'.stale = FALSE
      /\ task'.looking = 0 /\ task'.calling = 0
  BY <1>1 DEF TaskShape
<1>4. TaskTyped'
  <2>1. task'.owes \in BOOLEAN /\ task'.retried \in BOOLEAN /\ task'.faulted \in BOOLEAN /\ task'.stale \in BOOLEAN
    BY <1>3, Zenon
  <2> QED BY <1>3, <2>1 DEF TaskTyped
<1>5. RoundsFit'
  BY <1>1, <1>2 DEF RoundsFit
<1> QED BY <1>1, <1>4, <1>5

LEMMA BeginKeeps ==
    ASSUME AudioInv, NEW t \in AudioThreads, NEW op \in Operations, Begin(t, op)
    PROVE  AudioInv'
<1> USE WindowsAudioAssumption DEF AudioInv, AudioTypeOK
<1>2. /\ TaskTyped' /\ RoundsFit' /\ task'.at = "enter" /\ task'.op = op /\ task'.row = None /\ task'.session = None
      /\ spent' \in [operations : Nat, faults : Nat, moves : Nat] /\ spent'.faults = spent.faults
  BY StartsFresh DEF Begin, WorldTyped
<1>3. /\ default' = default /\ backend' = backend /\ slot' = slot /\ refs' = refs /\ apartment' = apartment
      /\ rows' = rows /\ task.at = "done"
      /\ backend = "open" \/ (backend = "new" /\ op = "open") \/ (backend = "unavailable" /\ op = "list")
      /\ op = "open" => backend = "new"
  BY DEF Begin, world
<1>4. WorldTyped'
  BY <1>2, <1>3 DEF WorldTyped
<1>5. Holding' /\ Stands' /\ Apartments' /\ RoundSoFar'
  BY <1>2, <1>3 DEF Holding, Stands, Apartments, RoundSoFar
<1>6. RowsAreTheirs' /\ RowsKeepTheirSession' /\ FollowsDefault'
  BY <1>2, <1>3 DEF RowsAreTheirs, OwnRow, RowsKeepTheirSession, FollowsDefault
<1> QED BY <1>2, <1>4, <1>5, <1>6

LEMMA BeginOnRowKeeps ==
    ASSUME AudioInv, NEW t \in AudioThreads, NEW op \in OfRow, NEW row \in rows, BeginOnRow(t, op, row)
    PROVE  AudioInv'
<1> USE WindowsAudioAssumption DEF AudioInv, AudioTypeOK
<1>2. /\ TaskTyped' /\ RoundsFit' /\ task'.at = "enter" /\ task'.op = op /\ task'.row = row /\ task'.session = None
      /\ spent' \in [operations : Nat, faults : Nat, moves : Nat] /\ spent'.faults = spent.faults
  BY StartsFresh DEF BeginOnRow, WorldTyped
<1>3. /\ default' = default /\ backend' = backend /\ slot' = slot /\ refs' = refs /\ apartment' = apartment
      /\ rows' = rows /\ task.at = "done"
  BY DEF BeginOnRow, world
<1>4. WorldTyped'
  BY <1>2, <1>3 DEF WorldTyped
<1>5. Holding' /\ Stands' /\ Apartments' /\ RoundSoFar'
  BY <1>2, <1>3 DEF Holding, Stands, Apartments, RoundSoFar
<1>6. RowsAreTheirs' /\ RowsKeepTheirSession' /\ FollowsDefault'
  BY <1>2, <1>3 DEF RowsAreTheirs, OwnRow, RowsKeepTheirSession, FollowsDefault
<1> QED BY <1>2, <1>4, <1>5, <1>6

LEMMA OleInitializeKeeps == ASSUME AudioInv, OleInitialize PROVE AudioInv'
<1> USE WindowsAudioAssumption, FaultCounts, TakeAdds, ReleaseTakes DEF AudioInv, AudioTypeOK, world, TaskTyped, TaskShape
<1>1. WorldTyped'
  BY DEF WorldTyped, OleInitialize
<1>2. TaskTyped'
  BY DEF OleInitialize, WorldTyped, Stands
<1>3. RoundsFit'
  BY DEF RoundsFit, OleInitialize, RoundsLeft
<1>4. Holding'
  BY DEF Holding, OleInitialize, Stands, Count1, Kinds, WorldTyped
<1>5. Stands'
  BY DEF Stands, OleInitialize, OnEndpoint, RoundsLeft, RoundsFit
<1>6. Apartments'
  BY DEF Apartments, OleInitialize, Stands
<1>7. RoundSoFar'
  BY DEF RoundSoFar, OleInitialize, Stands, WorldTyped
<1>8. RowsAreTheirs'
  BY DEF RowsAreTheirs, OleInitialize, OwnRow, WorldTyped
<1>9. FollowsDefault'
  BY DEF FollowsDefault, OleInitialize, RoundSoFar, Stands
<1>10. RowsKeepTheirSession'
  BY DEF RowsKeepTheirSession, OleInitialize, RowsAreTheirs, OwnRow, WorldTyped
<1> QED BY <1>1, <1>2, <1>3, <1>4, <1>5, <1>6, <1>7, <1>8, <1>9, <1>10

LEMMA CheckEndpointKeeps == ASSUME AudioInv, CheckEndpoint PROVE AudioInv'
<1> USE WindowsAudioAssumption, FaultCounts, TakeAdds, ReleaseTakes DEF AudioInv, AudioTypeOK, world, TaskTyped, TaskShape
<1>1. WorldTyped'
  BY DEF WorldTyped, CheckEndpoint, Goes
<1>2. TaskTyped'
  BY DEF CheckEndpoint, Goes, WorldTyped, Stands
<1>3. RoundsFit'
  BY DEF RoundsFit, CheckEndpoint, Goes, RoundsLeft
<1>4. Holding'
  BY DEF Holding, CheckEndpoint, Goes, Stands, Count1, Kinds, WorldTyped
<1>5. Stands'
  BY DEF Stands, CheckEndpoint, Goes, OnEndpoint, RoundsLeft, RoundsFit
<1>6. Apartments'
  BY DEF Apartments, CheckEndpoint, Goes, Stands
<1>7. RoundSoFar'
  BY DEF RoundSoFar, CheckEndpoint, Goes, Stands, WorldTyped
<1>8. RowsAreTheirs'
  BY DEF RowsAreTheirs, CheckEndpoint, Goes, OwnRow, WorldTyped
<1>9. FollowsDefault'
  BY DEF FollowsDefault, CheckEndpoint, Goes, RoundSoFar, Stands
<1>10. RowsKeepTheirSession'
  BY DEF RowsKeepTheirSession, CheckEndpoint, Goes, RowsAreTheirs, OwnRow, WorldTyped
<1> QED BY <1>1, <1>2, <1>3, <1>4, <1>5, <1>6, <1>7, <1>8, <1>9, <1>10

LEMMA GetDefaultKeeps == ASSUME AudioInv, GetDefault PROVE AudioInv'
<1> USE WindowsAudioAssumption, FaultCounts, TakeAdds, ReleaseTakes DEF AudioInv, AudioTypeOK, world, TaskTyped, TaskShape
<1>1. WorldTyped'
  BY DEF WorldTyped, GetDefault
<1>2. TaskTyped'
  BY DEF GetDefault, WorldTyped, Stands
<1>3. RoundsFit'
  BY DEF RoundsFit, GetDefault, RoundsLeft
<1>4. Holding'
  BY DEF Holding, GetDefault, Stands, Count1, Kinds, WorldTyped
<1>5. Stands'
  BY DEF Stands, GetDefault, OnEndpoint, RoundsLeft, RoundsFit
<1>6. Apartments'
  BY DEF Apartments, GetDefault, Stands
<1>7. RoundSoFar'
  BY DEF RoundSoFar, GetDefault, Stands, WorldTyped
<1>8. RowsAreTheirs'
  BY DEF RowsAreTheirs, GetDefault, OwnRow, WorldTyped
<1>9. FollowsDefault'
  BY DEF FollowsDefault, GetDefault, RoundSoFar, Stands
<1>10. RowsKeepTheirSession'
  BY DEF RowsKeepTheirSession, GetDefault, RowsAreTheirs, OwnRow, WorldTyped
<1> QED BY <1>1, <1>2, <1>3, <1>4, <1>5, <1>6, <1>7, <1>8, <1>9, <1>10

LEMMA DropBackendKeeps == ASSUME AudioInv, DropBackend PROVE AudioInv'
<1> USE WindowsAudioAssumption, FaultCounts, TakeAdds, ReleaseTakes DEF AudioInv, AudioTypeOK, world, TaskTyped, TaskShape
<1>1. WorldTyped'
  BY DEF WorldTyped, DropBackend
<1>2. TaskTyped'
  BY DEF DropBackend, WorldTyped, Stands
<1>3. RoundsFit'
  BY DEF RoundsFit, DropBackend, RoundsLeft
<1>4. Holding'
  BY DEF Holding, DropBackend, Stands, Count1, Kinds, WorldTyped
<1>5. Stands'
  BY DEF Stands, DropBackend, OnEndpoint, RoundsLeft, RoundsFit
<1>6. Apartments'
  BY DEF Apartments, DropBackend, Stands
<1>7. RoundSoFar'
  BY DEF RoundSoFar, DropBackend, Stands, WorldTyped
<1>8. RowsAreTheirs'
  BY DEF RowsAreTheirs, DropBackend, OwnRow, WorldTyped
<1>9. FollowsDefault'
  BY DEF FollowsDefault, DropBackend, RoundSoFar, Stands
<1>10. RowsKeepTheirSession'
  BY DEF RowsKeepTheirSession, DropBackend, RowsAreTheirs, OwnRow, WorldTyped
<1> QED BY <1>1, <1>2, <1>3, <1>4, <1>5, <1>6, <1>7, <1>8, <1>9, <1>10

LEMMA CreateKeeps == ASSUME AudioInv, Create PROVE AudioInv'
<1> USE WindowsAudioAssumption, FaultCounts, TakeAdds, ReleaseTakes DEF AudioInv, AudioTypeOK, world, TaskTyped, TaskShape
<1>1. WorldTyped'
  BY DEF WorldTyped, Create, Goes
<1>2. TaskTyped'
  BY DEF Create, Goes, WorldTyped, Stands
<1>3. RoundsFit'
  BY DEF RoundsFit, Create, Goes, RoundsLeft
<1>4. Holding'
  BY DEF Holding, Create, Goes, Stands, Count1, Kinds, WorldTyped
<1>5. Stands'
  BY DEF Stands, Create, Goes, OnEndpoint, RoundsLeft, RoundsFit
<1>6. Apartments'
  BY DEF Apartments, Create, Goes, Stands
<1>7. RoundSoFar'
  BY DEF RoundSoFar, Create, Goes, Stands, WorldTyped
<1>8. RowsAreTheirs'
  BY DEF RowsAreTheirs, Create, Goes, OwnRow, WorldTyped
<1>9. FollowsDefault'
  BY DEF FollowsDefault, Create, Goes, RoundSoFar, Stands
<1>10. RowsKeepTheirSession'
  BY DEF RowsKeepTheirSession, Create, Goes, RowsAreTheirs, OwnRow, WorldTyped
<1> QED BY <1>1, <1>2, <1>3, <1>4, <1>5, <1>6, <1>7, <1>8, <1>9, <1>10


LEMMA EnterKeeps ==
    ASSUME AudioInv, Enter
    PROVE  AudioInv'
<1> USE WindowsAudioAssumption DEF AudioInv, AudioTypeOK
<1>1. /\ default' = default /\ backend' = backend /\ slot' = slot /\ refs' = refs /\ rows' = rows /\ spent' = spent
      /\ task.at \in {"enter", "between"} /\ apartment' = apartment \cup {task.thread}
  BY DEF Enter, world
<1> DEFINE at == IF ~OnEndpoint THEN "create" ELSE IF slot = None THEN "default" ELSE "check"
           owes == task.thread \notin apartment
           stale == slot # None /\ ~slot.valid
<1>2. task' = [task EXCEPT !.owes = owes, !.at = at, !.retried = FALSE, !.device = None, !.session = None,
                           !.defaults = {default}, !.faulted = FALSE, !.stale = stale,
                           !.looking = 0, !.calling = 0]
  BY DEF Enter
<1>3. owes \in BOOLEAN /\ stale \in BOOLEAN /\ at \in {"create", "default", "check"}
  OBVIOUS
<1>4. /\ at = "create" => task.op \notin EndpointOperations \ {"open"}
      /\ at # "create" => task.op \in EndpointOperations \ {"open"}
      /\ at = "default" => slot = None
      /\ at = "check" => slot # None
  BY <1>1 DEF OnEndpoint, RoundsFit, RoundsLeft, TaskTyped
<1>5. (owes => task.thread \notin apartment) /\ (~owes => task.thread \in apartment)
      /\ (slot # None => stale \/ slot.valid)
  OBVIOUS
<1> HIDE DEF at, owes, stale
<1>6. /\ TaskShape(task') /\ task'.owes = owes /\ task'.at = at /\ task'.op = task.op /\ task'.rounds = task.rounds
      /\ task'.retried = FALSE /\ task'.device = None /\ task'.session = None /\ task'.defaults = {default}
      /\ task'.faulted = FALSE /\ task'.stale = stale /\ task'.looking = 0 /\ task'.calling = 0
      /\ task'.thread = task.thread /\ task'.row = task.row
  BY <1>2 DEF TaskShape, TaskTyped
<1>7. TaskTyped' /\ RoundsFit'
  <2>1. task'.owes \in BOOLEAN /\ task'.retried \in BOOLEAN /\ task'.faulted \in BOOLEAN /\ task'.stale \in BOOLEAN
    BY <1>3, <1>6, Zenon
  <2> QED BY <1>1, <1>3, <1>6, <2>1 DEF TaskTyped, RoundsFit
<1>8. WorldTyped' /\ Apartments'
  BY <1>1, <1>3, <1>5, <1>6 DEF WorldTyped, Apartments, TaskTyped
<1>9. Holding' /\ Stands'
  BY <1>1, <1>3, <1>4, <1>6 DEF Holding, Stands
<1>10. RoundSoFar'
  BY <1>1, <1>3, <1>4, <1>5, <1>6 DEF RoundSoFar
<1>11. RowsAreTheirs' /\ RowsKeepTheirSession' /\ FollowsDefault'
  BY <1>1, <1>3, <1>6 DEF RowsAreTheirs, OwnRow, RowsKeepTheirSession, FollowsDefault
<1> QED BY <1>7, <1>8, <1>9, <1>10, <1>11

LEMMA EnterFailsKeeps ==
    ASSUME AudioInv, EnterFails
    PROVE  AudioInv'
<1> USE WindowsAudioAssumption DEF AudioInv, AudioTypeOK
<1>1. /\ default' = default /\ slot' = slot /\ refs' = refs /\ rows' = rows /\ apartment' = apartment
      /\ task.at \in {"enter", "between"}
      /\ backend' \in {backend, "unavailable"} /\ (task.op # "open" => backend' = backend)
  BY DEF EnterFails, world
<1>2. spent' \in [operations : Nat, faults : Nat, moves : Nat] /\ spent'.faults = spent.faults + 1
  BY FaultCounts DEF EnterFails, WorldTyped
<1>3. Like(Faulted(task))
  BY FaultedIsLike
<1>4. /\ TaskShape(task') /\ task'.at = "done" /\ task'.op = task.op /\ task'.result = "init"
      /\ task'.session = None
      /\ task'.thread = "main" /\ task'.device = None /\ task'.owes = FALSE /\ task'.retried = FALSE
      /\ task'.faulted = Faulted(task).faulted /\ task'.stale = task.stale
      /\ task'.looking = task.looking /\ task'.calling = task.calling
  BY <1>3 DEF EnterFails, Ended, Idle, Like, TaskShape
<1>5. TaskTyped'
  <2>1. task'.owes \in BOOLEAN /\ task'.retried \in BOOLEAN /\ task'.faulted \in BOOLEAN /\ task'.stale \in BOOLEAN
    BY <1>3, <1>4, Zenon DEF Like, TaskTyped
  <2> QED BY <1>4, <2>1 DEF TaskTyped
<1>6. RoundsFit' /\ WorldTyped' /\ Apartments' /\ RoundSoFar'
  BY <1>1, <1>2, <1>4 DEF RoundsFit, WorldTyped, Apartments, RoundSoFar
<1>7. Holding' /\ Stands'
  BY <1>1, <1>4 DEF Holding, Stands, Count1
<1>8. RowsAreTheirs' /\ RowsKeepTheirSession' /\ FollowsDefault'
  BY <1>1, <1>2, <1>4 DEF RowsAreTheirs, OwnRow, RowsKeepTheirSession, FollowsDefault, WorldTyped
<1> QED BY <1>5, <1>6, <1>7, <1>8

\* The steps of the chain of interfaces up to the sessions.
LEMMA ChainKeeps ==
    ASSUME AudioInv, Chain
    PROVE  AudioInv'
<1> USE WindowsAudioAssumption DEF AudioInv, AudioTypeOK
<1> DEFINE at == Links[CHOOSE i \in 2..4 : Links[i - 1] = task.at]
           device == IF task.at = "chain" THEN default ELSE task.device
           list == IF task.at = "sessions" THEN SnapshotOf(task.device) ELSE task.list
<1>1. /\ task.at \in {"chain", "manager", "sessions"}
      /\ default' = default /\ backend' = backend /\ slot' = slot /\ apartment' = apartment
      /\ rows' = rows /\ spent' = spent
  BY DEF Chain, world
<1>2. task' = [task EXCEPT !.at = at, !.device = device, !.list = list]
  BY DEF Chain
<1>3. /\ task.at = "chain" => at = "manager"
      /\ task.at = "manager" => at = "sessions"
      /\ task.at = "sessions" => at = "count"
  <2>1. Links[1] = "chain" /\ Links[2] = "manager" /\ Links[3] = "sessions" /\ Links[4] = "count"
    BY DEF Links
  <2>2. \A i \in 2..4 : i = 2 \/ i = 3 \/ i = 4
    OBVIOUS
  <2>3. ASSUME NEW i \in 2..4, Links[i - 1] = task.at
        PROVE  \A j \in 2..4 : Links[j - 1] = task.at => j = i
    BY <2>1, <2>2, <2>3
  <2> QED BY <1>1, <2>1, <2>2, <2>3
<1>4. device \in Devices \cup {None}
  BY DEF WorldTyped, TaskTyped
<1> HIDE DEF at, device, list
<1>5. /\ TaskShape(task') /\ task'.at = at /\ task'.device = device /\ task'.op = task.op
      /\ task'.rounds = task.rounds /\ task'.thread = task.thread /\ task'.owes = task.owes
      /\ task'.retried = task.retried /\ task'.row = task.row /\ task'.session = task.session
      /\ task'.result = task.result /\ task'.defaults = task.defaults /\ task'.faulted = task.faulted
      /\ task'.stale = task.stale /\ task'.looking = task.looking /\ task'.calling = task.calling
  BY <1>2 DEF TaskShape, TaskTyped
<1>6. TaskTyped' /\ RoundsFit'
  BY <1>1, <1>3, <1>4, <1>5 DEF TaskTyped, RoundsFit
<1>7. /\ refs' \in [Kinds -> Int] /\ Take(Adds(task.at))
      /\ \A k \in Kinds : refs'[k] = refs[k] + Count1(k \in Adds(task.at))
  <2>1. Take(Adds(task.at))
    BY DEF Chain
  <2> QED BY <2>1, TakeAdds DEF WorldTyped
<1>8. WorldTyped' /\ Apartments' /\ RoundSoFar' /\ Stands'
  BY <1>1, <1>3, <1>5, <1>7 DEF WorldTyped, Apartments, RoundSoFar, Stands
<1>9. Holding'
  BY <1>1, <1>3, <1>5, <1>7 DEF Holding, Kinds, Adds, Count1
<1>10. RowsAreTheirs' /\ RowsKeepTheirSession' /\ FollowsDefault'
  BY <1>1, <1>3, <1>5 DEF RowsAreTheirs, OwnRow, RowsKeepTheirSession, FollowsDefault
<1> QED BY <1>6, <1>8, <1>9, <1>10


\* A session of the list is passed over, and may have left a row.
PassedOver ==
    \E list, faulted : /\ faulted \in {task.faulted, TRUE}
                       /\ task' = [task EXCEPT !.list = list, !.faulted = faulted]
RowsAdded ==
    \A r \in rows' : \/ r \in rows \/ r.id = <<"instance", r.session>>
                     \/ (r.id[1] = "process" /\ spent'.faults >= 1)

LEMMA LooksOn ==
    ASSUME AudioInv, task.at = "look", PassedOver, RowsAdded,
           UNCHANGED <<world, backend, slot, refs, apartment>>,
           spent' \in [operations : Nat, faults : Nat, moves : Nat], spent'.faults >= spent.faults
    PROVE  AudioInv'
<1> USE WindowsAudioAssumption DEF AudioInv, AudioTypeOK
<1>0. PICK list, faulted : faulted \in {task.faulted, TRUE}
                           /\ task' = [task EXCEPT !.list = list, !.faulted = faulted]
  BY DEF PassedOver
<1>1. faulted \in BOOLEAN /\ (task.faulted => faulted)
  BY <1>0 DEF TaskTyped
<1>2. /\ TaskShape(task') /\ task'.at = task.at /\ task'.device = task.device /\ task'.op = task.op
      /\ task'.rounds = task.rounds /\ task'.thread = task.thread /\ task'.owes = task.owes
      /\ task'.retried = task.retried /\ task'.row = task.row /\ task'.session = task.session
      /\ task'.result = task.result /\ task'.defaults = task.defaults /\ task'.faulted = faulted
      /\ task'.stale = task.stale /\ task'.looking = task.looking /\ task'.calling = task.calling
  BY <1>0 DEF TaskShape, TaskTyped
<1>3. TaskTyped' /\ RoundsFit'
  BY <1>1, <1>2 DEF TaskTyped, RoundsFit
<1>4. WorldTyped' /\ Holding' /\ Stands' /\ Apartments' /\ RoundSoFar'
  BY <1>1, <1>2 DEF WorldTyped, Holding, Stands, Apartments, RoundSoFar, world
<1>5. RowsAreTheirs'
  BY <1>2 DEF RowsAreTheirs, OwnRow, WorldTyped, RowsAdded
<1>6. RowsKeepTheirSession' /\ FollowsDefault'
  BY <1>2 DEF RowsKeepTheirSession, FollowsDefault, WorldTyped
<1> QED BY <1>3, <1>4, <1>5, <1>6

LEMMA EnumerateKeeps ==
    ASSUME AudioInv, Enumerate
    PROVE  AudioInv'
<1> USE DEF AudioInv, AudioTypeOK
<1>1. task.at = "look" /\ UNCHANGED <<world, backend, slot, refs, apartment>>
  BY DEF Enumerate
<1>2. PICK s : s = Head(task.list)
  OBVIOUS
<1>3. CASE Skip /\ rows' = rows \cup {[id |-> Id(s, FALSE), session |-> s]} /\ UNCHANGED spent
  <2>1. task' = [task EXCEPT !.list = Tail(task.list), !.faulted = task.faulted]
    BY <1>3 DEF Skip, TaskTyped, TaskShape
  <2>2. PassedOver
    BY <2>1, Zenon DEF PassedOver
  <2>3. RowsAdded
    BY <1>3 DEF Id, RowsAdded
  <2> QED BY <1>1, <1>3, <2>2, <2>3, LooksOn DEF WorldTyped
<1>4. CASE /\ Fault /\ task' = Faulted([task EXCEPT !.list = Tail(task.list)])
           /\ \/ rows' = rows
              \/ \E id \in {Id(s, TRUE), <<"process", 0>>} : rows' = rows \cup {[id |-> id, session |-> s]}
  <2>1. task' = [task EXCEPT !.list = Tail(task.list), !.faulted = TRUE]
    BY <1>4 DEF Faulted, TaskTyped, TaskShape
  <2>2. PassedOver
    BY <2>1, Zenon DEF PassedOver
  <2>3. spent' \in [operations : Nat, faults : Nat, moves : Nat] /\ spent'.faults = spent.faults + 1
    BY <1>4, FaultCounts DEF WorldTyped
  <2>4. RowsAdded
    <3>1. CASE rows' = rows
      BY <3>1 DEF RowsAdded
    <3>2. CASE \E id \in {Id(s, TRUE), <<"process", 0>>} : rows' = rows \cup {[id |-> id, session |-> s]}
      <4>1. PICK id \in {Id(s, TRUE), <<"process", 0>>} : rows' = rows \cup {[id |-> id, session |-> s]}
        BY <3>2
      <4>2. id[1] = "process"
        BY DEF Id
      <4>3. [id |-> id, session |-> s].id = id
        OBVIOUS
      <4>4. spent'.faults >= 1
        BY <2>3 DEF WorldTyped
      <4> HIDE DEF Id
      <4> QED BY <4>1, <4>2, <4>3, <4>4 DEF RowsAdded
    <3> QED BY <1>4, <3>1, <3>2
  <2> QED BY <1>1, <2>2, <2>3, <2>4, LooksOn DEF WorldTyped
<1> QED BY <1>2, <1>3, <1>4 DEF Enumerate, Skip

LEMMA PassOverKeeps ==
    ASSUME AudioInv, PassOver
    PROVE  AudioInv'
<1> USE DEF AudioInv, AudioTypeOK
<1>1. task.at = "look" /\ UNCHANGED <<world, backend, slot, refs, apartment>> /\ rows' = rows
  BY DEF PassOver
<1>2. RowsAdded
  BY <1>1 DEF RowsAdded
<1>3. CASE Skip /\ UNCHANGED spent
  <2>1. task' = [task EXCEPT !.list = Tail(task.list), !.faulted = task.faulted]
    BY <1>3 DEF Skip, TaskTyped, TaskShape
  <2>2. PassedOver
    BY <2>1, Zenon DEF PassedOver
  <2> QED BY <1>1, <1>2, <1>3, <2>2, LooksOn DEF WorldTyped
<1>4. CASE Fault /\ task' = Faulted([task EXCEPT !.list = Tail(task.list)])
  <2>1. task' = [task EXCEPT !.list = Tail(task.list), !.faulted = TRUE]
    BY <1>4 DEF Faulted, TaskTyped, TaskShape
  <2>2. PassedOver
    BY <2>1, Zenon DEF PassedOver
  <2>3. spent' \in [operations : Nat, faults : Nat, moves : Nat] /\ spent'.faults = spent.faults + 1
    BY <1>4, FaultCounts DEF WorldTyped
  <2> QED BY <1>1, <1>2, <2>2, <2>3, LooksOn DEF WorldTyped
<1> QED BY <1>3, <1>4 DEF PassOver

LEMMA MatchKeeps ==
    ASSUME AudioInv, Match
    PROVE  AudioInv'
<1> USE WindowsAudioAssumption DEF AudioInv, AudioTypeOK
<1>1. task.at = "look" /\ task.op # "list" /\ UNCHANGED <<world, backend, slot, apartment, rows>>
      /\ Take({"control", "simple"})
  BY DEF Match
<1>2. task.op \in OfRow
  BY <1>1 DEF Stands, TaskTyped, RoundsFit
<1>3. PICK s, faulted :
         /\ faulted \in {task.faulted, TRUE}
         /\ task' = [task EXCEPT !.at = "act", !.session = s, !.faulted = faulted]
         /\ spent' \in [operations : Nat, faults : Nat, moves : Nat] /\ spent'.faults >= spent.faults
         /\ s # task.row.session => spent'.faults >= 2
  <2>1. PICK s : s = Head(task.list)
    OBVIOUS
  <2>2. CASE Id(s, FALSE) = task.row.id /\ UNCHANGED spent /\ task' = [task EXCEPT !.at = "act", !.session = s]
    <3>1. task' = [task EXCEPT !.at = "act", !.session = s, !.faulted = task.faulted]
      BY <2>2 DEF TaskTyped, TaskShape
    <3>2. s = task.row.session
      BY <1>1, <1>2, <2>2 DEF RowsAreTheirs, OwnRow, Id
    <3>3. spent' \in [operations : Nat, faults : Nat, moves : Nat] /\ spent'.faults >= spent.faults
      BY <2>2 DEF WorldTyped
    <3> QED BY <3>1, <3>2, <3>3, Zenon
  <2>3. CASE /\ Id(s, TRUE) = task.row.id /\ Fault
             /\ task' = Faulted([task EXCEPT !.at = "act", !.session = s])
    <3>1. task' = [task EXCEPT !.at = "act", !.session = s, !.faulted = TRUE]
      BY <2>3 DEF Faulted, TaskTyped, TaskShape
    <3>2. spent' \in [operations : Nat, faults : Nat, moves : Nat] /\ spent'.faults = spent.faults + 1
      BY <2>3, FaultCounts DEF WorldTyped
    <3>3. spent.faults >= 1
      BY <1>1, <1>2, <2>3 DEF RowsAreTheirs, OwnRow, Id
    <3>4. spent'.faults >= spent.faults /\ spent'.faults >= 2
      BY <3>2, <3>3 DEF WorldTyped
    <3> QED BY <3>1, <3>2, <3>4, Zenon
  <2> QED BY <2>1, <2>2, <2>3 DEF Match
<1>4. faulted \in BOOLEAN /\ (task.faulted => faulted)
  BY <1>3 DEF TaskTyped
<1>5. /\ TaskShape(task') /\ task'.at = "act" /\ task'.device = task.device /\ task'.op = task.op
      /\ task'.rounds = task.rounds /\ task'.thread = task.thread /\ task'.owes = task.owes
      /\ task'.retried = task.retried /\ task'.row = task.row /\ task'.session = s
      /\ task'.result = task.result /\ task'.defaults = task.defaults /\ task'.faulted = faulted
      /\ task'.stale = task.stale /\ task'.looking = task.looking /\ task'.calling = task.calling
  BY <1>3 DEF TaskShape, TaskTyped
<1>6. TaskTyped' /\ RoundsFit'
  BY <1>1, <1>4, <1>5 DEF TaskTyped, RoundsFit
<1>7. refs' \in [Kinds -> Int] /\ \A k \in Kinds : refs'[k] = refs[k] + Count1(k \in {"control", "simple"})
  BY <1>1, TakeAdds DEF WorldTyped
<1>8. WorldTyped' /\ Stands' /\ Apartments' /\ RoundSoFar'
  BY <1>1, <1>3, <1>4, <1>5, <1>7 DEF WorldTyped, Stands, Apartments, RoundSoFar, world
<1>9. Holding'
  BY <1>1, <1>5, <1>7 DEF Holding, Kinds, Count1
<1>10. RowsAreTheirs' /\ RowsKeepTheirSession' /\ FollowsDefault'
  BY <1>1, <1>3, <1>5 DEF RowsAreTheirs, OwnRow, RowsKeepTheirSession, FollowsDefault, WorldTyped
<1> QED BY <1>6, <1>8, <1>9, <1>10

\* The last step of a round that called nothing on the endpoint.
LEMMA ChainCloses ==
    ASSUME AudioInv, task.at = "create" \/ Chained, NEW t, NEW result, Like(t), RoundEnds(t, result),
           spent' \in [operations : Nat, faults : Nat, moves : Nat], spent'.faults >= spent.faults,
           rows' \subseteq rows, default' = default, slot' = slot,
           backend' = IF task.op = "open" THEN "unavailable" ELSE backend,
           refs' \in [Kinds -> Int],
           refs'["enumerator"] = refs["enumerator"] - Count1(task.at # "create"),
           refs'["device"] = refs["device"] - Count1(task.at \notin {"create", "chain"}),
           refs'["endpoint"] = refs["endpoint"],
           refs'["manager"] = refs["manager"] - Count1(task.at \notin {"create", "chain", "manager"}),
           refs'["sessions"] = refs["sessions"] - Count1(task.at \in {"count", "look", "act"}),
           refs'["control"] = refs["control"] - Count1(task.at = "act"),
           refs'["simple"] = refs["simple"] - Count1(task.at = "act")
    PROVE  AudioInv'
<1> USE WindowsAudioAssumption DEF AudioInv, AudioTypeOK
<1>1. Rests(t.faulted, result) /\ Leave
  BY RoundRests DEF RoundEnds
<1>2. /\ TaskTyped' /\ RoundsFit' /\ Apartments' /\ RoundSoFar' /\ RowsAreTheirs' /\ RowsKeepTheirSession'
      /\ apartment' \subseteq AudioThreads
  BY <1>1, RoundCloses
<1>3. task'.op = task.op /\ task'.at = "done"
  BY <1>1 DEF Rests, Stands
<1>4. WorldTyped' /\ Stands'
  BY <1>2, <1>3 DEF WorldTyped, Stands
<1>5. Holding'
  BY <1>3 DEF Holding, Stands, Count1
<1>6. FollowsDefault'
  BY <1>3 DEF FollowsDefault, Stands
<1> QED BY <1>2, <1>4, <1>5, <1>6

LEMMA CreateFailsKeeps ==
    ASSUME AudioInv, CreateFails
    PROVE  AudioInv'
<1> USE DEF AudioInv, AudioTypeOK
<1>1. Like(Faulted(task)) /\ RoundEnds(Faulted(task), "init") /\ task.at = "create"
  BY FaultedIsLike DEF CreateFails
<1>2. spent' \in [operations : Nat, faults : Nat, moves : Nat] /\ spent'.faults = spent.faults + 1
  BY FaultCounts DEF CreateFails, WorldTyped
<1>3. default' = default /\ slot' = slot /\ refs' = refs /\ rows' = rows
      /\ backend' = IF task.op = "open" THEN "unavailable" ELSE backend
  BY DEF CreateFails, world
<1> QED BY <1>1, <1>2, <1>3, ChainCloses DEF WorldTyped, Count1, Kinds

LEMMA ChainFailsKeeps ==
    ASSUME AudioInv, ChainFails
    PROVE  AudioInv'
<1> USE DEF AudioInv, AudioTypeOK
<1>1. task.at \in {"chain", "manager", "sessions"} /\ task.op # "open"
      /\ default' = default /\ slot' = slot /\ backend' = backend /\ rows' \subseteq rows
  BY DEF ChainFails, Stands, world
<1>2. \E t, result : Like(t) /\ RoundEnds(t, result) /\ spent' \in [operations : Nat, faults : Nat, moves : Nat]
                     /\ spent'.faults >= spent.faults
  <2>1. CASE RoundEnds(task, "lost") /\ UNCHANGED spent
    BY <2>1, ItselfIsLike DEF WorldTyped
  <2>2. CASE Fault /\ RoundEnds(Faulted(task), "io")
    BY <2>2, FaultedIsLike, FaultCounts DEF WorldTyped
  <2> QED BY <2>1, <2>2 DEF ChainFails
<1>3. /\ refs' \in [Kinds -> Int]
      /\ \A k \in Kinds : refs'[k] = refs[k] - Count1(k \in HeldAt(task.at))
  BY ReleaseTakes DEF ChainFails, WorldTyped
<1> QED BY <1>1, <1>2, <1>3, ChainCloses DEF WorldTyped, Count1, Kinds, HeldAt

\* The chain with its list of sessions is given back.
LEMMA SessionsClose ==
    ASSUME AudioInv, task.at \in {"count", "look", "act"}, NEW t, NEW result, Like(t), RoundEnds(t, result),
           Release(TheChain \cup (IF task.at = "act" THEN {"control", "simple"} ELSE {})),
           UNCHANGED spent \/ Fault, rows' \subseteq rows, UNCHANGED <<world, backend, slot>>
    PROVE  AudioInv'
<1> USE DEF AudioInv, AudioTypeOK
<1>1. /\ spent' \in [operations : Nat, faults : Nat, moves : Nat] /\ spent'.faults >= spent.faults
  BY FaultCounts DEF WorldTyped
<1> DEFINE ks == TheChain \cup (IF task.at = "act" THEN {"control", "simple"} ELSE {})
<1>2. /\ refs' \in [Kinds -> Int] /\ \A k \in Kinds : refs'[k] = refs[k] - Count1(k \in ks)
  BY ReleaseTakes DEF WorldTyped
<1>3. task.op # "open"
  BY DEF Stands
<1>4. default' = default
  BY DEF world
<1> QED BY <1>1, <1>2, <1>3, <1>4, ChainCloses DEF WorldTyped, Count1, Kinds, TheChain

LEMMA CountKeeps ==
    ASSUME AudioInv, Count
    PROVE  AudioInv'
<1> USE WindowsAudioAssumption DEF AudioInv, AudioTypeOK
<1>1. task.at = "count" /\ rows' \subseteq rows /\ UNCHANGED <<world, backend, slot>>
  BY DEF Count
<1>2. CASE Goes("look") /\ UNCHANGED <<refs, apartment, spent>>
  <2>1. /\ TaskShape(task') /\ task'.at = "look" /\ task'.device = task.device /\ task'.op = task.op
        /\ task'.rounds = task.rounds /\ task'.thread = task.thread /\ task'.owes = task.owes
        /\ task'.retried = task.retried /\ task'.row = task.row /\ task'.session = task.session
        /\ task'.result = task.result /\ task'.defaults = task.defaults /\ task'.faulted = task.faulted
        /\ task'.stale = task.stale /\ task'.looking = task.looking /\ task'.calling = task.calling
    BY <1>2 DEF Goes, TaskShape, TaskTyped
  <2>2. TaskTyped' /\ RoundsFit' /\ WorldTyped'
    BY <1>1, <1>2, <2>1 DEF TaskTyped, RoundsFit, WorldTyped, world
  <2>3. Holding' /\ Stands' /\ Apartments' /\ RoundSoFar'
    BY <1>1, <1>2, <2>1 DEF Holding, Stands, Apartments, RoundSoFar, world
  <2>4. RowsAreTheirs' /\ RowsKeepTheirSession' /\ FollowsDefault'
    BY <1>1, <1>2, <2>1 DEF RowsAreTheirs, OwnRow, RowsKeepTheirSession, FollowsDefault
  <2> QED BY <2>2, <2>3, <2>4
<1>3. CASE Fault /\ Release(TheChain) /\ RoundEnds(Faulted(task), NotFound)
  <2>1. Like(Faulted(task)) /\ TheChain \cup {} = TheChain
    BY FaultedIsLike
  <2> QED BY <1>1, <1>3, <2>1, SessionsClose
<1> QED BY <1>2, <1>3 DEF Count

LEMMA EndOfListKeeps ==
    ASSUME AudioInv, EndOfList
    PROVE  AudioInv'
<1>1. Like(task) /\ TheChain \cup {} = TheChain
  BY ItselfIsLike DEF AudioInv, AudioTypeOK
<1> QED BY <1>1, SessionsClose DEF EndOfList

LEMMA ActKeeps ==
    ASSUME AudioInv, Act
    PROVE  AudioInv'
<1>1. Like(task) /\ Like(Faulted(task))
  BY ItselfIsLike, FaultedIsLike DEF AudioInv, AudioTypeOK
<1>2. UNCHANGED <<world, backend, slot>> /\ rows' = rows /\ task.at = "act"
      /\ Release(TheChain \cup {"control", "simple"})
  BY DEF Act
<1>3. CASE RoundEnds(task, "ok") /\ UNCHANGED spent
  BY <1>1, <1>2, <1>3, SessionsClose
<1>4. CASE (UNCHANGED spent \/ Fault) /\ RoundEnds(Faulted(task), "io")
  BY <1>1, <1>2, <1>4, SessionsClose
<1> QED BY <1>3, <1>4 DEF Act


\* A round on the endpoint that ends without a change of the endpoint.
LEMMA EndpointCloses ==
    ASSUME AudioInv, task.at \in {"check", "call", "mute"}, NEW t, NEW result, Like(t), RoundEnds(t, result),
           UNCHANGED <<default, backend, slot, refs, rows>>,
           UNCHANGED spent \/ Fault,
           result = "ok" => slot.device \in task.defaults,
           result = "lost" => t.faulted \/ None \in task.defaults \/ task.looking > 0
                              \/ task.calling > 1 \/ (task.stale /\ task.calling > 0)
    PROVE  AudioInv'
<1> USE WindowsAudioAssumption DEF AudioInv, AudioTypeOK
<1>1. Rests(t.faulted, result) /\ Leave
  BY RoundRests DEF RoundEnds
<1>2. /\ spent' \in [operations : Nat, faults : Nat, moves : Nat] /\ spent'.faults >= spent.faults
  BY FaultCounts DEF WorldTyped
<1>3. /\ TaskTyped' /\ RoundsFit' /\ Apartments' /\ RoundSoFar' /\ RowsAreTheirs' /\ RowsKeepTheirSession'
      /\ apartment' \subseteq AudioThreads
  BY <1>1, <1>2, RoundCloses
<1>4. WorldTyped'
  BY <1>2, <1>3 DEF WorldTyped
<1>5. Holding' /\ Stands'
  BY <1>1 DEF Rests, Holding, Stands
<1>6. FollowsDefault'
  BY <1>1 DEF Rests, FollowsDefault, Stands
<1> QED BY <1>3, <1>4, <1>5, <1>6

LEMMA CheckEndpointFailsKeeps ==
    ASSUME AudioInv, CheckEndpointFails
    PROVE  AudioInv'
<1> USE DEF AudioInv, AudioTypeOK
<1>1. task.at = "check" /\ UNCHANGED <<default, backend, slot, refs, rows>>
  BY DEF CheckEndpointFails, world
<1>2. CASE default = None /\ RoundEnds(task, "lost") /\ UNCHANGED spent
  BY <1>1, <1>2, ItselfIsLike, EndpointCloses DEF RoundSoFar
<1>3. CASE Fault /\ RoundEnds(Faulted(task), "io")
  BY <1>1, <1>3, FaultedIsLike, EndpointCloses
<1> QED BY <1>2, <1>3 DEF CheckEndpointFails

LEMMA GetMuteKeeps ==
    ASSUME AudioInv, GetMute
    PROVE  AudioInv'
<1> USE DEF AudioInv, AudioTypeOK
<1> DEFINE t == [task EXCEPT !.read = slot.device \in muted]
<1>1. Like(t)
  BY ReadIsLike
<1>2. task.at = "mute" /\ UNCHANGED <<default, backend, slot, refs, rows, spent>> /\ RoundEnds(t, "ok")
      /\ slot.device \in task.defaults
  BY DEF GetMute, world, RoundSoFar
<1> HIDE DEF t
<1> QED BY <1>1, <1>2, EndpointCloses

\* The operation goes on elsewhere, and nothing else of it changes.
LEMMA GoesOn ==
    ASSUME TaskTyped, RoundsFit, NEW at \in AudioStages \ {"done", "between", "enter"}, task.at # "done", Goes(at)
    PROVE  /\ TaskTyped' /\ RoundsFit'
           /\ task'.at = at /\ task'.device = task.device /\ task'.op = task.op
           /\ task'.rounds = task.rounds /\ task'.thread = task.thread /\ task'.owes = task.owes
           /\ task'.retried = task.retried /\ task'.row = task.row /\ task'.session = task.session
           /\ task'.result = task.result /\ task'.defaults = task.defaults /\ task'.faulted = task.faulted
           /\ task'.stale = task.stale /\ task'.looking = task.looking /\ task'.calling = task.calling
<1>1. /\ TaskShape(task') /\ task'.at = at /\ task'.device = task.device /\ task'.op = task.op
      /\ task'.rounds = task.rounds /\ task'.thread = task.thread /\ task'.owes = task.owes
      /\ task'.retried = task.retried /\ task'.row = task.row /\ task'.session = task.session
      /\ task'.result = task.result /\ task'.defaults = task.defaults /\ task'.faulted = task.faulted
      /\ task'.stale = task.stale /\ task'.looking = task.looking /\ task'.calling = task.calling
  BY DEF Goes, TaskShape, TaskTyped
<1> QED BY <1>1 DEF TaskTyped, RoundsFit

LEMMA CallKeeps ==
    ASSUME AudioInv, Call
    PROVE  AudioInv'
<1> USE WindowsAudioAssumption DEF AudioInv, AudioTypeOK
<1>1. task.at = "call" /\ slot.valid /\ UNCHANGED <<default, backend, slot, refs, rows, spent>>
      /\ slot.device \in task.defaults
  BY DEF Call, RoundSoFar
<1>2. CASE Goes("mute") /\ UNCHANGED apartment
  <2>1. /\ TaskTyped' /\ RoundsFit'
        /\ task'.at = "mute" /\ task'.device = task.device /\ task'.op = task.op
        /\ task'.thread = task.thread /\ task'.owes = task.owes
        /\ task'.retried = task.retried /\ task'.row = task.row /\ task'.session = task.session
        /\ task'.defaults = task.defaults /\ task'.faulted = task.faulted
        /\ task'.stale = task.stale /\ task'.looking = task.looking /\ task'.calling = task.calling
    BY <1>1, <1>2, GoesOn
  <2>2. WorldTyped' /\ Holding' /\ Stands' /\ Apartments' /\ RoundSoFar'
    BY <1>1, <1>2, <2>1 DEF WorldTyped, Holding, Stands, Apartments, RoundSoFar
  <2>3. RowsAreTheirs' /\ RowsKeepTheirSession' /\ FollowsDefault'
    BY <1>1, <2>1 DEF RowsAreTheirs, OwnRow, RowsKeepTheirSession, FollowsDefault
  <2> QED BY <2>1, <2>2, <2>3
<1>3. CASE RoundEnds(task, "ok")
  BY <1>1, <1>3, ItselfIsLike, EndpointCloses
<1> QED BY <1>2, <1>3 DEF Call

LEMMA CallFailsKeeps ==
    ASSUME AudioInv, CallFails
    PROVE  AudioInv'
<1> USE WindowsAudioAssumption DEF AudioInv, AudioTypeOK
<1> DEFINE t == IF slot.valid THEN Faulted(task) ELSE task
<1>1. task.at \in {"call", "mute"} /\ UNCHANGED <<default, backend, rows>> /\ (UNCHANGED spent \/ Fault)
      /\ apartment' \in {apartment, apartment \ {task.thread}}
  BY DEF CallFails, world, RoundEnds, Leave
<1>2. Like(t) /\ (slot.valid => t.faulted) /\ (task.faulted => t.faulted)
  BY ItselfIsLike, FaultedIsLike
<1>3. CASE task.retried
  <2>1. RoundEnds(t, IF slot.valid THEN "io" ELSE "lost") /\ UNCHANGED <<slot, refs>>
    BY <1>3 DEF CallFails
  <2>2. ~slot.valid => t.faulted \/ task.looking > 0 \/ task.calling > 1 \/ (task.stale /\ task.calling > 0)
    BY <1>1, <1>2, <1>3 DEF RoundSoFar
  <2> HIDE DEF t
  <2>3. PICK result : result = IF slot.valid THEN "io" ELSE "lost"
    OBVIOUS
  <2> QED BY <1>1, <1>2, <2>1, <2>2, <2>3, EndpointCloses
<1>4. CASE ~task.retried
  <2>1. task' = [t EXCEPT !.at = "default", !.retried = TRUE] /\ slot' = None
        /\ Release({"endpoint", "device"}) /\ UNCHANGED apartment
    BY <1>4 DEF CallFails
  <2> HIDE DEF t
  <2>2. /\ TaskShape(task') /\ task'.at = "default" /\ task'.retried = TRUE /\ task'.device = task.device
        /\ task'.op = task.op /\ task'.rounds = task.rounds /\ task'.thread = task.thread
        /\ task'.owes = task.owes /\ task'.row = task.row /\ task'.session = task.session
        /\ task'.defaults = task.defaults /\ task'.faulted = t.faulted
        /\ task'.stale = task.stale /\ task'.looking = task.looking /\ task'.calling = task.calling
    BY <1>2, <2>1 DEF Like, TaskShape
  <2>3. TaskTyped' /\ RoundsFit'
    <3>1. task'.owes \in BOOLEAN /\ task'.retried \in BOOLEAN /\ task'.faulted \in BOOLEAN /\ task'.stale \in BOOLEAN
      BY <1>2, <2>2, Zenon DEF Like, TaskTyped
    <3> QED BY <1>1, <2>2, <3>1 DEF TaskTyped, RoundsFit
  <2>4. refs' \in [Kinds -> Int] /\ \A k \in Kinds : refs'[k] = refs[k] - Count1(k \in {"endpoint", "device"})
    BY <2>1, ReleaseTakes DEF WorldTyped
  <2>5. spent' \in [operations : Nat, faults : Nat, moves : Nat] /\ spent'.faults >= spent.faults
    BY <1>1, FaultCounts DEF WorldTyped
  <2>6. WorldTyped' /\ Stands' /\ Apartments'
    BY <1>1, <2>1, <2>2, <2>4, <2>5 DEF WorldTyped, Stands, Apartments
  <2>7. Holding'
    BY <1>1, <2>1, <2>2, <2>4 DEF Holding, Stands, Kinds, Count1
  <2>8. RoundSoFar'
    BY <1>1, <1>2, <1>4, <2>2 DEF RoundSoFar
  <2>9. RowsAreTheirs' /\ RowsKeepTheirSession' /\ FollowsDefault'
    BY <1>1, <2>2, <2>5 DEF RowsAreTheirs, OwnRow, RowsKeepTheirSession, FollowsDefault, WorldTyped
  <2> QED BY <2>3, <2>6, <2>7, <2>8, <2>9
<1> QED BY <1>3, <1>4

\* The default could not be had.
LEMMA LookingCloses ==
    ASSUME AudioInv, task.at \in {"default", "activate"}, NEW t, NEW result, result # "ok", Like(t),
           OpenFails(t, IF task.at = "activate" THEN {"device"} ELSE {}, result),
           UNCHANGED <<default, slot, rows>>, UNCHANGED spent \/ Fault,
           result = "lost" => None \in task.defaults \/ task.looking > 0
    PROVE  AudioInv'
<1> USE WindowsAudioAssumption DEF AudioInv, AudioTypeOK
<1> DEFINE ks == IF task.at = "activate" THEN {"device"} ELSE {}
<1>1. Rests(t.faulted, result) /\ Leave
  BY RoundRests DEF RoundEnds, OpenFails
<1>2. /\ spent' \in [operations : Nat, faults : Nat, moves : Nat] /\ spent'.faults >= spent.faults
  BY FaultCounts DEF WorldTyped
<1>3. /\ TaskTyped' /\ RoundsFit' /\ Apartments' /\ RoundSoFar' /\ RowsAreTheirs' /\ RowsKeepTheirSession'
      /\ apartment' \subseteq AudioThreads
  BY <1>1, <1>2, RoundCloses
<1>4. task'.at = "done" /\ task'.op = task.op
  BY <1>1 DEF Rests
<1>5. CASE task.op = "open"
  <2>1. Release(ks \cup {"enumerator"}) /\ backend' = "unavailable"
    BY <1>5 DEF OpenFails
  <2>2. refs' \in [Kinds -> Int] /\ \A k \in Kinds : refs'[k] = refs[k] - Count1(k \in ks \cup {"enumerator"})
    BY <2>1, ReleaseTakes DEF WorldTyped
  <2>3. WorldTyped' /\ Stands' /\ FollowsDefault'
    BY <1>2, <1>3, <1>4, <2>1, <2>2 DEF WorldTyped, Stands, FollowsDefault
  <2>4. Holding'
    BY <1>4, <1>5, <2>1, <2>2 DEF Holding, Stands, Kinds, Count1
  <2> QED BY <1>3, <2>3, <2>4
<1>6. CASE task.op # "open"
  <2>1. Release(ks) /\ backend' = backend
    BY <1>6 DEF OpenFails
  <2>2. refs' \in [Kinds -> Int] /\ \A k \in Kinds : refs'[k] = refs[k] - Count1(k \in ks)
    BY <2>1, ReleaseTakes DEF WorldTyped
  <2>3. WorldTyped' /\ Stands'
    BY <1>2, <1>3, <1>4, <2>1, <2>2 DEF WorldTyped, Stands
  <2>4. Holding'
    BY <1>4, <1>6, <2>1, <2>2 DEF Holding, Stands, Kinds, Count1
  <2>5. FollowsDefault'
    BY <1>1 DEF Rests, FollowsDefault
  <2> QED BY <1>3, <2>3, <2>4, <2>5
<1> QED BY <1>5, <1>6

LEMMA GetDefaultFailsKeeps ==
    ASSUME AudioInv, GetDefaultFails
    PROVE  AudioInv'
<1> USE DEF AudioInv, AudioTypeOK
<1>1. task.at = "default" /\ UNCHANGED <<default, slot, rows>>
  BY DEF GetDefaultFails, world
<1>2. CASE default = None /\ OpenFails(task, {}, "lost") /\ UNCHANGED spent
  BY <1>1, <1>2, ItselfIsLike, LookingCloses DEF RoundSoFar
<1>3. CASE Fault /\ OpenFails(Faulted(task), {}, "io")
  BY <1>1, <1>3, FaultedIsLike, LookingCloses
<1> QED BY <1>2, <1>3 DEF GetDefaultFails

LEMMA ActivateFailsKeeps ==
    ASSUME AudioInv, ActivateFails
    PROVE  AudioInv'
<1> USE DEF AudioInv, AudioTypeOK
<1>1. task.at = "activate" /\ UNCHANGED <<default, slot, rows>>
  BY DEF ActivateFails, world
<1>2. CASE task.device = None /\ OpenFails(task, {"device"}, "lost") /\ UNCHANGED spent
  BY <1>1, <1>2, ItselfIsLike, LookingCloses DEF RoundSoFar
<1>3. CASE Fault /\ OpenFails(Faulted(task), {"device"}, "io")
  BY <1>1, <1>3, FaultedIsLike, LookingCloses
<1> QED BY <1>2, <1>3 DEF ActivateFails

LEMMA ActivateKeeps ==
    ASSUME AudioInv, Activate
    PROVE  AudioInv'
<1> USE WindowsAudioAssumption DEF AudioInv, AudioTypeOK
<1>1. /\ task.at = "activate" /\ task.device # None /\ UNCHANGED <<default, rows, spent>>
      /\ slot' = Endpoint(task.device)
  BY DEF Activate, world
<1>2. refs' \in [Kinds -> Int] /\ \A k \in Kinds : refs'[k] = refs[k] + Count1(k \in {"endpoint"})
  BY TakeAdds DEF Activate, WorldTyped
<1>3. /\ slot' \in [device : Devices, valid : BOOLEAN] /\ slot' # None /\ slot'.device = task.device
      /\ slot'.valid /\ slot'.device \in task.defaults
  <2>1. slot' = [device |-> task.device, valid |-> TRUE] /\ task.device \in Devices
    BY <1>1 DEF Endpoint, TaskTyped
  <2>2. slot' \in [device : Devices, valid : BOOLEAN] /\ slot'.valid = TRUE /\ slot'.device = task.device
    BY <2>1
  <2>3. task.device \in task.defaults
    BY <1>1 DEF RoundSoFar
  <2> QED BY <2>2, <2>3, Zenon
<1>4. CASE task.op = "open"
  <2>1. backend' = "open" /\ RoundEnds(task, "ok") /\ Leave /\ Like(task)
    BY <1>4, ItselfIsLike DEF Activate, RoundEnds
  <2>2. Rests(task.faulted, "ok")
    BY <1>1, <2>1, RoundRests
  <2>3. spent' \in [operations : Nat, faults : Nat, moves : Nat] /\ spent'.faults >= spent.faults
    BY <1>1 DEF WorldTyped
  <2>4. /\ TaskTyped' /\ RoundsFit' /\ Apartments' /\ RoundSoFar' /\ RowsAreTheirs' /\ RowsKeepTheirSession'
        /\ apartment' \subseteq AudioThreads
    BY <1>1, <2>1, <2>2, <2>3, RoundCloses
  <2>5. task'.at = "done" /\ task'.op = task.op
    BY <1>4, <2>2 DEF Rests
  <2>6. WorldTyped' /\ Stands'
    BY <1>1, <1>2, <1>3, <2>1, <2>3, <2>4, <2>5 DEF WorldTyped, Stands
  <2>7. Holding'
    BY <1>1, <1>2, <1>3, <1>4, <2>1, <2>5 DEF Holding, Stands, Kinds, Count1
  <2>8. FollowsDefault'
    BY <1>3, <2>2 DEF Rests, FollowsDefault
  <2> QED BY <2>4, <2>6, <2>7, <2>8
<1>5. CASE task.op # "open"
  <2>1. Goes("call") /\ backend' = backend /\ apartment' = apartment
    BY <1>5 DEF Activate
  <2>2. /\ TaskTyped' /\ RoundsFit'
        /\ task'.at = "call" /\ task'.device = task.device /\ task'.op = task.op
        /\ task'.thread = task.thread /\ task'.owes = task.owes
        /\ task'.retried = task.retried /\ task'.row = task.row /\ task'.session = task.session
        /\ task'.defaults = task.defaults /\ task'.faulted = task.faulted
        /\ task'.stale = task.stale /\ task'.looking = task.looking /\ task'.calling = task.calling
    BY <1>1, <2>1, GoesOn
  <2>3. WorldTyped' /\ Stands' /\ Apartments'
    BY <1>1, <1>2, <1>3, <1>5, <2>1, <2>2 DEF WorldTyped, Stands, Apartments, RoundsFit
  <2>4. Holding'
    BY <1>1, <1>2, <1>3, <1>5, <2>1, <2>2 DEF Holding, Stands, Kinds, Count1
  <2>5. RoundSoFar'
    BY <1>1, <1>3, <2>2 DEF RoundSoFar
  <2>6. RowsAreTheirs' /\ RowsKeepTheirSession' /\ FollowsDefault'
    BY <1>1, <2>2 DEF RowsAreTheirs, OwnRow, RowsKeepTheirSession, FollowsDefault
  <2> QED BY <2>2, <2>3, <2>4, <2>5, <2>6
<1> QED BY <1>4, <1>5

LEMMA AudioStep ==
    ASSUME AudioInv, [AudioNext]_audio
    PROVE  AudioInv'
<1>1. CASE UNCHANGED audio
  <2> USE <1>1 DEF audio, AudioInv, AudioTypeOK
  <2>1. AudioTypeOK' /\ Holding' /\ Stands'
    BY DEF WorldTyped, TaskTyped, RoundsFit, Holding, Stands
  <2>2. Apartments' /\ RoundSoFar' /\ RowsAreTheirs' /\ FollowsDefault' /\ RowsKeepTheirSession'
    BY DEF Apartments, RoundSoFar, RowsAreTheirs, OwnRow, FollowsDefault, RowsKeepTheirSession
  <2> QED BY <2>1, <2>2
<1>2. CASE AudioWorld
  BY <1>2, DevicesMove, SessionsMove, OleInitializeKeeps DEF AudioWorld
<1>3. CASE AudioSteps
  BY <1>3, EnterKeeps, EnterFailsKeeps, CheckEndpointKeeps, CheckEndpointFailsKeeps, GetDefaultKeeps,
     GetDefaultFailsKeeps, ActivateKeeps, ActivateFailsKeeps, CallKeeps, GetMuteKeeps, CallFailsKeeps,
     CreateKeeps, CreateFailsKeeps, ChainKeeps, ChainFailsKeeps, CountKeeps, EnumerateKeeps, PassOverKeeps,
     MatchKeeps, EndOfListKeeps, ActKeeps DEF AudioSteps
<1>4. CASE DropBackend
  BY <1>4, DropBackendKeeps
<1>5. CASE \E t \in AudioThreads, op \in Operations : Begin(t, op)
  BY <1>5, BeginKeeps
<1>6. CASE \E t \in AudioThreads, op \in {"setSession", "muteSession"}, row \in rows : BeginOnRow(t, op, row)
  BY <1>6, BeginOnRowKeeps
<1> QED BY <1>1, <1>2, <1>3, <1>4, <1>5, <1>6 DEF AudioNext

LEMMA AudioInvIsSound == ASSUME AudioInv PROVE AudioIsSound
<1>1. NothingLeaks
  BY DEF AudioInv, NothingLeaks, Holding, Stands, Apartments, Kinds, Count1, AudioTypeOK, TaskTyped
<1> QED BY <1>1 DEF AudioInv, AudioIsSound

\* However many devices, sessions, changes and failed calls there are: every operation
\* gives back what it took and leaves the apartment it entered, a call that succeeds was
\* made on a default of its round, and a row acts on its own session
\* (audio_windows.rs, audio_sessions_win32.rs, com_guard.rs).
THEOREM AudioKeepsItsWord == Spec => []AudioIsSound
<1>1. Init => AudioInv
  BY AudioStarts DEF Init
<1>2. AudioInv /\ [Next]_vars => AudioInv'
  BY AudioStep DEF Next, vars
<1>3. AudioInv => AudioIsSound
  BY AudioInvIsSound
<1> QED BY <1>1, <1>2, <1>3, PTL DEF Spec

HIDE DEF AudioStages, OfRow, InRound, InCall, Chained, AudioThreads,
         EndpointOperations, Operations, Resting

-----------------------------------------------------------------------------
(* The packages of an update.                                                *)

HelperStages == {"lock", "parent", "verify", "copy", "copying", "starts", "done", "dead"}
HelperRecords == [at : HelperStages, parent : Nat, stage : Installers \cup {None}, marked : Nat]

PageTyped ==
    /\ server = [asset |-> server.asset, sums |-> server.sums, files |-> server.files]
    /\ server.asset \in Published /\ server.sums \in Seq(Published) /\ server.files \in Nat
HelpersTyped == helpers \in Seq(HelperRecords)
AnnouncedTyped ==
    /\ announced = [last |-> announced.last, times |-> announced.times, lost |-> announced.lost]
    /\ announced.times \in Nat /\ announced.lost \in Nat
FolderTyped == folder = [sums |-> folder.sums, asset |-> folder.asset, marker |-> folder.marker]
LoaderTyped == loader = Loader(loader.at, loader.want, loader.got)
ProcessTyped ==
    /\ process = [number |-> process.number, at |-> process.at, build |-> process.build]
    /\ process.number \in Nat /\ process.at \in {"runs", "hands over", "leaves", "gone"}
PackagesTyped ==
    /\ PageTyped /\ HelpersTyped /\ AnnouncedTyped /\ FolderTyped /\ LoaderTyped /\ ProcessTyped
    /\ mishaps \in Nat

\* Where the bytes come from: what is wanted, kept or unpacked has been listed.
Sources ==
    /\ Contents(server.sums) \subseteq listed
    /\ loader.at \in {"asset", "compare"} => loader.want \in listed
    /\ folder.asset \in listed \cup {None}
    /\ \A i \in DOMAIN helpers : helpers[i].at = "copying" => helpers[i].stage \in listed \cap Installers

OffersHold ==
    offer = "ready" \/ process.at = "hands over" => folder.asset \in Installers \/ replaced

ProgramIsWhole ==
    program \in (listed \cap Installers) \cup {Older} \/ (program = Torn /\ (Copying \/ mishaps > 0))

\* A marker the host may act on has a helper that waits for the host, or that strayed.
MarkersHold ==
    /\ process.at = "hands over" /\ folder.marker /\ mishaps = 0 =>
          \E i \in DOMAIN helpers : \/ helpers[i].at = "parent" /\ helpers[i].parent = process.number
                                    \/ Strayed(helpers[i])
    /\ inVain => mishaps > 0

AnnouncesOnce ==
    /\ loader.at \in {"announce", "record"} => ~announced.last
    /\ announced.last \/ loader.at = "record" => announced.times <= announced.lost + 1
    /\ ~announced.last /\ loader.at # "record" => announced.times <= announced.lost

PackagesInv == PackagesTyped /\ Sources /\ OffersHold /\ ProgramIsWhole /\ MarkersHold /\ AnnouncesOnce

USE DEF HelperStages

LEMMA PackagesStart == ASSUME PackageInit PROVE PackagesInv
<1> USE ContentsAssumption DEF PackageInit
<1>0. PICK c \in Installers : server = [asset |-> c, sums |-> <<c>>, files |-> 0] /\ listed = {c}
  <2>1. (CHOOSE c \in Installers : TRUE) \in Installers
    OBVIOUS
  <2> QED BY <2>1
<1>1. PageTyped
  BY <1>0 DEF PageTyped, Published
<1>2. HelpersTyped /\ AnnouncedTyped /\ FolderTyped /\ LoaderTyped /\ ProcessTyped /\ mishaps \in Nat
  BY DEF HelpersTyped, AnnouncedTyped, FolderTyped, LoaderTyped, ProcessTyped, AtRest, Loader
<1>3. Sources /\ OffersHold /\ ProgramIsWhole /\ MarkersHold /\ AnnouncesOnce
  BY <1>0 DEF Sources, OffersHold, ProgramIsWhole, MarkersHold, AnnouncesOnce, Contents, AtRest, Loader
<1> QED BY <1>1, <1>2, <1>3 DEF PackagesInv, PackagesTyped

LEMMA AppendedHelper ==
    ASSUME helpers \in Seq(HelperRecords), NEW at \in HelperStages, NEW parent \in Nat,
           helpers' = Append(helpers, Helper(at, parent))
    PROVE  /\ helpers' \in Seq(HelperRecords)
           /\ \A i \in DOMAIN helpers : i \in DOMAIN helpers' /\ helpers'[i] = helpers[i]
           /\ \A i \in DOMAIN helpers' : i \in DOMAIN helpers \/ helpers'[i] = Helper(at, parent)
<1>1. Helper(at, parent) \in HelperRecords
  BY DEF Helper, HelperRecords
<1> QED BY <1>1

LEMMA ChangedHelper ==
    ASSUME helpers \in Seq(HelperRecords), NEW i \in DOMAIN helpers, NEW h \in HelperRecords,
           helpers' = [helpers EXCEPT ![i] = h]
    PROVE  /\ helpers' \in Seq(HelperRecords) /\ DOMAIN helpers' = DOMAIN helpers /\ helpers'[i] = h
           /\ \A j \in DOMAIN helpers : j # i => helpers'[j] = helpers[j]
  OBVIOUS

LEMMA BecomesChanges ==
    ASSUME helpers \in Seq(HelperRecords), NEW i \in DOMAIN helpers, NEW at \in HelperStages, Becomes(i, at)
    PROVE  /\ helpers' \in Seq(HelperRecords) /\ DOMAIN helpers' = DOMAIN helpers
           /\ \A j \in DOMAIN helpers : j # i => helpers'[j] = helpers[j]
           /\ helpers'[i].at = at /\ helpers'[i].parent = helpers[i].parent
           /\ helpers'[i].stage = helpers[i].stage /\ helpers'[i].marked = helpers[i].marked
<1> DEFINE h == [helpers[i] EXCEPT !.at = at]
<1>1. helpers[i] \in HelperRecords
  OBVIOUS
<1>2. h \in HelperRecords /\ h.at = at /\ h.parent = helpers[i].parent /\ h.stage = helpers[i].stage
      /\ h.marked = helpers[i].marked
  BY <1>1 DEF HelperRecords
<1>3. helpers' = [helpers EXCEPT ![i] = h]
  BY DEF Becomes
<1> HIDE DEF h
<1> QED BY <1>2, <1>3, ChangedHelper

LEMMA LoaderFields ==
    \A at, want, got : /\ Loader(at, want, got).at = at /\ Loader(at, want, got).want = want
                       /\ Loader(at, want, got).got = got
  BY DEF Loader

\* What a step of the loader thread makes of its own state and of the folder.
LoaderOutcome ==
    /\ LoaderTyped'
    /\ loader'.at \in {"asset", "compare"} => loader'.want \in listed
    /\ FolderTyped'
    /\ folder'.marker = folder.marker /\ folder'.asset \in listed \cup {None}
    /\ AnnouncedTyped'
    /\ mishaps' \in Nat /\ mishaps' >= mishaps

LEMMA LoaderMoves ==
    ASSUME PackagesInv, LoaderOnly, LoaderOutcome, OffersHold', AnnouncesOnce'
    PROVE  PackagesInv'
<1>0. UNCHANGED <<host, server, process, helpers, program, listed, inVain>>
  BY DEF LoaderOnly
<1>1. mishaps > 0 => mishaps' > 0
  BY DEF PackagesInv, PackagesTyped, LoaderOutcome
<1>2. mishaps' = 0 => mishaps = 0
  BY DEF PackagesInv, PackagesTyped, LoaderOutcome
<1>3. PackagesTyped'
  BY <1>0 DEF PackagesTyped, PageTyped, HelpersTyped, ProcessTyped, LoaderOutcome, PackagesInv
<1>4. Sources'
  BY <1>0 DEF Sources, LoaderOutcome, PackagesInv
<1>5. ProgramIsWhole'
  BY <1>0, <1>1 DEF ProgramIsWhole, Copying, PackagesInv
<1>6. MarkersHold'
  BY <1>0, <1>1, <1>2 DEF MarkersHold, Strayed, LoaderOutcome, PackagesInv
<1> QED BY <1>3, <1>4, <1>5, <1>6 DEF PackagesInv

\* A loader that failed, with the folder as it is.
LEMMA LoaderFailsKeeps ==
    ASSUME PackagesInv, LoaderOnly, loader.at \notin {"announce", "record"}, LoaderFails
    PROVE  PackagesInv'
<1> USE DEF PackagesInv
<1>1. /\ loader' = Loader("rest", None, None) /\ offer' = "failed"
      /\ UNCHANGED <<folder, announced, replaced, mishaps, process>>
  BY DEF LoaderFails, Fine, AtRest, LoaderOnly
<1>2. loader'.at = "rest"
  BY <1>1, LoaderFields
<1>3. OffersHold' /\ AnnouncesOnce'
  BY <1>1, <1>2 DEF OffersHold, AnnouncesOnce
<1>4. LoaderOutcome
  BY <1>1, <1>2, LoaderFields DEF LoaderOutcome, LoaderTyped, FolderTyped, AnnouncedTyped, PackagesTyped, Sources
<1> QED BY <1>3, <1>4, LoaderMoves

LEMMA FindReleaseKeeps == ASSUME PackagesInv, FindRelease PROVE PackagesInv'
<1> USE ContentsAssumption DEF PackagesInv, PackagesTyped, PageTyped, HelpersTyped, AnnouncedTyped, FolderTyped, LoaderTyped, ProcessTyped
<1>1. PackagesTyped'
  BY DEF FindRelease, LoaderOnly, AtRest, Loader
<1>2. Sources'
  BY DEF Sources, FindRelease, LoaderOnly, AtRest, Loader, Contents
<1>3. OffersHold'
  BY DEF OffersHold, FindRelease, LoaderOnly, AtRest, Loader
<1>4. ProgramIsWhole'
  BY DEF ProgramIsWhole, FindRelease, LoaderOnly, AtRest, Loader, Copying
<1>5. MarkersHold'
  BY DEF MarkersHold, FindRelease, LoaderOnly, AtRest, Loader, Strayed
<1>6. AnnouncesOnce'
  BY DEF AnnouncesOnce, FindRelease, LoaderOnly, AtRest, Loader
<1> QED BY <1>1, <1>2, <1>3, <1>4, <1>5, <1>6


LEMMA AnnounceReleaseKeeps ==
    ASSUME PackagesInv, AnnounceRelease
    PROVE  PackagesInv'
<1> USE DEF PackagesInv
<1>1. /\ loader.at = "announce" /\ LoaderOnly /\ UNCHANGED <<folder, mishaps, offer, replaced, process>>
  BY DEF AnnounceRelease, LoaderOnly
<1>2. CASE loader' = [loader EXCEPT !.at = "record"] /\ announced' = [announced EXCEPT !.times = @ + 1]
  <2>1. loader' = Loader("record", loader.want, loader.got) /\ loader'.at = "record"
    BY <1>2 DEF PackagesTyped, LoaderTyped, Loader
  <2>0. announced' = [last |-> announced.last, times |-> announced.times + 1, lost |-> announced.lost]
    BY <1>2 DEF PackagesTyped, AnnouncedTyped
  <2>2. /\ AnnouncedTyped'
        /\ announced'.last = announced.last /\ announced'.times = announced.times + 1 /\ announced'.lost = announced.lost
    BY <2>0 DEF PackagesTyped, AnnouncedTyped
  <2>4. ~announced.last /\ announced.times <= announced.lost
    BY <1>1 DEF AnnouncesOnce
  <2>5. ~announced'.last
    BY <2>2, <2>4, Zenon
  <2>6. announced'.times <= announced'.lost + 1
    BY <2>2, <2>4 DEF PackagesTyped, AnnouncedTyped
  <2>3. AnnouncesOnce' /\ OffersHold'
    BY <1>1, <2>1, <2>5, <2>6 DEF AnnouncesOnce, OffersHold
  <2>o. LoaderOutcome
    BY <1>1, <2>1, <2>2, <2>3, LoaderFields DEF LoaderOutcome, LoaderTyped, FolderTyped, AnnouncedTyped, PackagesTyped, Sources
  <2> QED BY <1>1, <2>1, <2>2, <2>3, <2>o, LoaderMoves
<1>3. CASE loader' = [loader EXCEPT !.at = "sums"] /\ UNCHANGED announced
  <2>1. loader' = Loader("sums", loader.want, loader.got) /\ loader'.at = "sums"
    BY <1>3 DEF PackagesTyped, LoaderTyped, Loader
  <2>2. AnnouncesOnce' /\ OffersHold'
    BY <1>1, <1>3, <2>1 DEF AnnouncesOnce, OffersHold
  <2>o. LoaderOutcome
    BY <1>1, <1>3, <2>1, <2>2, LoaderFields DEF LoaderOutcome, LoaderTyped, FolderTyped, AnnouncedTyped, PackagesTyped, Sources
  <2> QED BY <1>1, <1>3, <2>1, <2>2, <2>o, LoaderMoves
<1> QED BY <1>2, <1>3 DEF AnnounceRelease

\* An announcement that was not recorded is counted.
LEMMA UnrecordedCounts ==
    ASSUME PackagesTyped, AnnouncesOnce, announced' = Unrecorded, loader'.at \notin {"announce", "record"}
    PROVE  AnnouncesOnce' /\ AnnouncedTyped'
<1>1. CASE loader.at = "record"
  <2>0. announced' = [last |-> announced.last, times |-> announced.times, lost |-> announced.lost + 1]
    BY <1>1 DEF Unrecorded, PackagesTyped, AnnouncedTyped
  <2>1. /\ AnnouncedTyped'
        /\ announced'.last = announced.last /\ announced'.times = announced.times /\ announced'.lost = announced.lost + 1
    BY <2>0 DEF PackagesTyped, AnnouncedTyped
  <2> QED BY <1>1, <2>1 DEF AnnouncesOnce, PackagesTyped, AnnouncedTyped
<1>2. CASE loader.at # "record"
  BY <1>2 DEF AnnouncesOnce, PackagesTyped, AnnouncedTyped, Unrecorded
<1> QED BY <1>1, <1>2

LEMMA StoreLastNotifiedKeeps ==
    ASSUME PackagesInv, StoreLastNotified
    PROVE  PackagesInv'
<1> USE DEF PackagesInv
<1>1. /\ loader.at = "record" /\ LoaderOnly /\ UNCHANGED <<folder, offer, replaced, process>>
      /\ loader' = [loader EXCEPT !.at = "sums"]
  BY DEF StoreLastNotified, LoaderOnly
<1>2. loader' = Loader("sums", loader.want, loader.got) /\ loader'.at = "sums"
  BY <1>1 DEF PackagesTyped, LoaderTyped, Loader
<1>3. OffersHold'
  BY <1>1 DEF OffersHold
<1>4. CASE Fine /\ announced' = [announced EXCEPT !.last = TRUE]
  <2>0. announced' = [last |-> TRUE, times |-> announced.times, lost |-> announced.lost]
    BY <1>4 DEF PackagesTyped, AnnouncedTyped
  <2>1. /\ AnnouncedTyped'
        /\ announced'.last = TRUE /\ announced'.times = announced.times /\ announced'.lost = announced.lost
    BY <2>0 DEF PackagesTyped, AnnouncedTyped
  <2>2. AnnouncesOnce'
    BY <1>1, <1>2, <2>1 DEF AnnouncesOnce
  <2>o. LoaderOutcome
    BY <1>1, <1>2, <1>3, <1>4, <2>1, <2>2, LoaderFields DEF LoaderOutcome, LoaderTyped, FolderTyped, AnnouncedTyped, PackagesTyped, Sources, Fine
  <2> QED BY <1>1, <1>2, <1>3, <1>4, <2>1, <2>2, <2>o, LoaderMoves
<1>5. CASE Mishap /\ announced' = Unrecorded
  <2>1. AnnouncesOnce' /\ AnnouncedTyped'
    BY <1>2, <1>5, UnrecordedCounts
  <2>o. LoaderOutcome
    BY <1>1, <1>2, <1>3, <1>5, <2>1, LoaderFields DEF LoaderOutcome, LoaderTyped, FolderTyped, AnnouncedTyped, PackagesTyped, Sources, Mishap
  <2> QED BY <1>1, <1>2, <1>3, <1>5, <2>1, <2>o, LoaderMoves
<1> QED BY <1>4, <1>5 DEF StoreLastNotified

LEMMA FetchSumsKeeps ==
    ASSUME PackagesInv, FetchSums
    PROVE  PackagesInv'
<1> USE ContentsAssumption DEF PackagesInv
<1>1. loader.at = "sums" /\ LoaderOnly /\ process' = process
  BY DEF FetchSums, LoaderOnly
<1>2. CASE LoaderFails
  BY <1>1, <1>2, LoaderFailsKeeps
<1>3. CASE ~LoaderFails
  <2>1. /\ folder' = IF Tauri THEN [folder EXCEPT !.sums = server.sums] ELSE folder
        /\ replaced' = (replaced \/ folder'.sums # folder.sums) /\ UNCHANGED <<announced, mishaps>>
    BY <1>3 DEF FetchSums
  <2>2. folder' = [sums |-> folder'.sums, asset |-> folder.asset, marker |-> folder.marker]
        /\ folder'.asset = folder.asset
    BY <2>1 DEF PackagesTyped, FolderTyped
  <2>3. CASE Entry(server.sums) = None
    <3>1. loader' = Loader("rest", None, None) /\ offer' = "failed"
      BY <1>3, <2>3 DEF FetchSums, AtRest
    <3>2. loader'.at = "rest"
      BY <3>1, LoaderFields
    <3>3. OffersHold' /\ AnnouncesOnce'
      BY <1>1, <2>1, <2>2, <3>1, <3>2 DEF OffersHold, AnnouncesOnce
    <3>o. LoaderOutcome
      BY <1>1, <2>1, <2>2, <3>1, <3>3, LoaderFields DEF LoaderOutcome, LoaderTyped, FolderTyped, AnnouncedTyped, PackagesTyped, Sources
    <3> QED BY <1>1, <2>1, <2>2, <3>1, <3>3, <3>o, LoaderMoves
  <2>4. CASE Entry(server.sums) # None
    <3> DEFINE want == Entry(server.sums)
    <3>1. loader' = Loader("asset", want, None) /\ offer' = offer
      BY <1>3, <2>4 DEF FetchSums
    <3>2. want \in listed
      <4>1. server.sums \in Seq(Published) /\ server.sums # <<>> /\ want = server.sums[1]
        BY <2>4 DEF Entry, PackagesTyped, PageTyped
      <4>2. 1 \in DOMAIN server.sums
        BY <4>1
      <4> QED BY <4>1, <4>2 DEF Sources, Contents
    <3> HIDE DEF want
    <3>3. loader'.at = "asset"
      BY <3>1, LoaderFields
    <3>4. OffersHold' /\ AnnouncesOnce'
      BY <1>1, <2>1, <2>2, <3>1, <3>3 DEF OffersHold, AnnouncesOnce
    <3>o. LoaderOutcome
      BY <1>1, <2>1, <2>2, <3>1, <3>2, <3>4, LoaderFields DEF LoaderOutcome, LoaderTyped, FolderTyped, AnnouncedTyped, PackagesTyped, Sources
    <3> QED BY <1>1, <2>1, <2>2, <3>1, <3>2, <3>4, <3>o, LoaderMoves
  <2> QED BY <2>3, <2>4
<1> QED BY <1>2, <1>3

LEMMA StreamAssetKeeps ==
    ASSUME PackagesInv, StreamAsset
    PROVE  PackagesInv'
<1> USE DEF PackagesInv
<1>1. loader.at = "asset" /\ LoaderOnly /\ process' = process
  BY DEF StreamAsset, LoaderOnly
<1>2. CASE LoaderFails
  BY <1>1, <1>2, LoaderFailsKeeps
<1>3. CASE ~LoaderFails
  <2>1. PICK c : loader' = [loader EXCEPT !.at = "compare", !.got = c]
    BY <1>3 DEF StreamAsset
  <2>2. UNCHANGED <<folder, offer, announced, mishaps, replaced>>
    BY <1>3 DEF StreamAsset
  <2>3. loader' = Loader("compare", loader.want, c) /\ loader'.at = "compare"
    BY <2>1 DEF PackagesTyped, LoaderTyped, Loader
  <2>4. OffersHold' /\ AnnouncesOnce'
    BY <1>1, <2>2, <2>3 DEF OffersHold, AnnouncesOnce
  <2>o. LoaderOutcome
    BY <1>1, <2>2, <2>3, <2>4, LoaderFields DEF LoaderOutcome, LoaderTyped, FolderTyped, AnnouncedTyped, PackagesTyped, Sources
  <2> QED BY <1>1, <2>2, <2>3, <2>4, <2>o, LoaderMoves
<1> QED BY <1>2, <1>3

LEMMA CompareAndRenameKeeps ==
    ASSUME PackagesInv, CompareAndRename
    PROVE  PackagesInv'
<1> USE DEF PackagesInv
<1>1. loader.at = "compare" /\ LoaderOnly /\ process' = process
  BY DEF CompareAndRename, LoaderOnly
<1>2. CASE LoaderFails
  BY <1>1, <1>2, LoaderFailsKeeps
<1>3. CASE ~LoaderFails
  <2>1. /\ loader.got = loader.want /\ folder' = [folder EXCEPT !.asset = loader.got]
        /\ replaced' = (replaced \/ folder.asset # loader.got)
        /\ loader' = [loader EXCEPT !.at = "validate"] /\ UNCHANGED <<offer, announced, mishaps>>
    BY <1>3 DEF CompareAndRename, Matches
  <2>2. loader' = Loader("validate", loader.want, loader.got) /\ loader'.at = "validate"
    BY <2>1 DEF PackagesTyped, LoaderTyped, Loader
  <2>3. folder' = [sums |-> folder.sums, asset |-> loader.got, marker |-> folder.marker]
        /\ folder'.asset = loader.got /\ folder'.sums = folder.sums
    BY <2>1 DEF PackagesTyped, FolderTyped
  <2>4. loader.got \in listed
    BY <1>1, <2>1 DEF Sources
  <2>5. OffersHold' /\ AnnouncesOnce'
    BY <1>1, <2>1, <2>2, <2>3 DEF OffersHold, AnnouncesOnce
  <2>o. LoaderOutcome
    BY <1>1, <2>1, <2>2, <2>3, <2>4, <2>5, LoaderFields DEF LoaderOutcome, LoaderTyped, FolderTyped, AnnouncedTyped, PackagesTyped
  <2> QED BY <1>1, <2>1, <2>2, <2>3, <2>4, <2>5, <2>o, LoaderMoves
<1> QED BY <1>2, <1>3

LEMMA ValidatePayloadKeeps == ASSUME PackagesInv, ValidatePayload PROVE PackagesInv'
<1> USE ContentsAssumption DEF PackagesInv, PackagesTyped, PageTyped, HelpersTyped, AnnouncedTyped, FolderTyped, LoaderTyped, ProcessTyped
<1>1. PackagesTyped'
  BY DEF ValidatePayload, LoaderOnly, AtRest, Loader
<1>2. Sources'
  BY DEF Sources, ValidatePayload, LoaderOnly, AtRest, Loader, Contents
<1>3. OffersHold'
  BY DEF OffersHold, ValidatePayload, LoaderOnly, AtRest, Loader
<1>4. ProgramIsWhole'
  BY DEF ProgramIsWhole, ValidatePayload, LoaderOnly, AtRest, Loader, Copying
<1>5. MarkersHold'
  BY DEF MarkersHold, ValidatePayload, LoaderOnly, AtRest, Loader, Strayed
<1>6. AnnouncesOnce'
  BY DEF AnnouncesOnce, ValidatePayload, LoaderOnly, AtRest, Loader
<1> QED BY <1>1, <1>2, <1>3, <1>4, <1>5, <1>6


LEMMA PublicationKeeps ==
    ASSUME PackagesInv, Publication
    PROVE  PackagesInv'
<1> USE DEF PackagesInv
<1>1. UNCHANGED <<host, folder, process, loader, downloads, offer, helpers, program, announced,
                  mishaps, replaced, inVain>>
  BY DEF Publication
<1>2. /\ PageTyped'
      /\ Contents(server'.sums) \subseteq listed' /\ listed \subseteq listed'
  <2>1. CASE \E c \in Published \ {server.asset} :
               server' = [server EXCEPT !.asset = c, !.files = @ + 1] /\ UNCHANGED listed
    <3>1. PICK c \in Published : server' = [server EXCEPT !.asset = c, !.files = @ + 1] /\ UNCHANGED listed
      BY <2>1
    <3>0. server' = [asset |-> c, sums |-> server.sums, files |-> server.files + 1]
      BY <3>1 DEF PackagesTyped, PageTyped
    <3>2. PageTyped' /\ server'.sums = server.sums
      BY <3>0 DEF PackagesTyped, PageTyped
    <3> QED BY <3>1, <3>2 DEF Sources
  <2>2. CASE \E s \in {<<>>, <<server.asset>>, Append(server.sums, server.asset)} :
               server' = [server EXCEPT !.sums = s, !.files = @ + 1] /\ listed' = listed \cup Contents(s)
    <3>1. PICK s \in {<<>>, <<server.asset>>, Append(server.sums, server.asset)} :
             server' = [server EXCEPT !.sums = s, !.files = @ + 1] /\ listed' = listed \cup Contents(s)
      BY <2>2
    <3>2. s \in Seq(Published)
      <4>1. server.asset \in Published /\ server.sums \in Seq(Published)
        BY DEF PackagesTyped, PageTyped
      <4>2. \A a \in Published : <<a>> \in Seq(Published)
        OBVIOUS
      <4>3. \A a \in Published, t \in Seq(Published) : Append(t, a) \in Seq(Published)
        OBVIOUS
      <4>4. <<>> \in Seq(Published)
        OBVIOUS
      <4> QED BY <4>1, <4>2, <4>3, <4>4
    <3>3. server' = [asset |-> server.asset, sums |-> s, files |-> server.files + 1]
      BY <3>1 DEF PackagesTyped, PageTyped
    <3>4. PageTyped' /\ server'.sums = s
      BY <3>2, <3>3 DEF PackagesTyped, PageTyped
    <3> QED BY <3>1, <3>4 DEF Sources
  <2> QED BY <2>1, <2>2 DEF Publication
<1>3. PackagesTyped' /\ Sources'
  BY <1>1, <1>2 DEF PackagesTyped, HelpersTyped, AnnouncedTyped, FolderTyped, LoaderTyped, ProcessTyped, Sources
<1>4. OffersHold' /\ ProgramIsWhole' /\ MarkersHold' /\ AnnouncesOnce'
  BY <1>1, <1>2 DEF OffersHold, ProgramIsWhole, Copying, MarkersHold, Strayed, AnnouncesOnce
<1> QED BY <1>3, <1>4


-----------------------------------------------------------------------------
\* The hand-over leaves the loader, the page and what was announced as they are.
HandOverOutcome ==
    /\ HelpersTyped' /\ FolderTyped' /\ ProcessTyped' /\ folder'.asset = folder.asset
    /\ \A i \in DOMAIN helpers : i \in DOMAIN helpers' /\ helpers'[i] = helpers[i]
    /\ \A i \in DOMAIN helpers' : i \in DOMAIN helpers \/ helpers'[i].at # "copying"
    /\ program' = program \/ program' \in listed \cap Installers
    /\ mishaps' \in Nat /\ mishaps' >= mishaps

LEMMA HandOverMoves ==
    ASSUME PackagesInv, HandOverOnly, HandOverOutcome, OffersHold', MarkersHold'
    PROVE  PackagesInv'
<1>0. UNCHANGED <<host, server, loader, downloads, announced, listed, replaced>>
  BY DEF HandOverOnly
<1>1. mishaps > 0 => mishaps' > 0
  BY DEF PackagesInv, PackagesTyped, HandOverOutcome
<1>2. PackagesTyped'
  BY <1>0 DEF PackagesInv, PackagesTyped, PageTyped, AnnouncedTyped, LoaderTyped, HandOverOutcome
<1>3. Sources'
  BY <1>0 DEF PackagesInv, Sources, HandOverOutcome
<1>4. Copying => Copying'
  BY DEF Copying, HandOverOutcome
<1>5. ProgramIsWhole'
  BY <1>0, <1>1, <1>4 DEF PackagesInv, ProgramIsWhole, HandOverOutcome
<1>6. AnnouncesOnce'
  BY <1>0 DEF PackagesInv, AnnouncesOnce
<1> QED BY <1>2, <1>3, <1>5, <1>6 DEF PackagesInv

LEMMA LaunchPreparedApplyKeeps ==
    ASSUME PackagesInv, LaunchPreparedApply
    PROVE  PackagesInv'
<1> USE DEF PackagesInv, PackagesTyped
<1>1. /\ HandOverOnly /\ Runs /\ offer = "ready" /\ UNCHANGED <<program, inVain, replaced>>
      /\ process.number \in Nat
  BY DEF LaunchPreparedApply, HandOverOnly, ProcessTyped
<1>2. folder.asset \in Installers \/ replaced
  BY <1>1 DEF OffersHold
<1>3. folder' = Unmarked(folder) =>
         folder' = [sums |-> folder.sums, asset |-> folder.asset, marker |-> FALSE]
  BY DEF FolderTyped, Unmarked
<1>4. process' = [process EXCEPT !.at = "hands over"] =>
         process' = [number |-> process.number, at |-> "hands over", build |-> process.build]
  BY DEF ProcessTyped
<1>n. mishaps \in Nat
  OBVIOUS
<1>5. CASE /\ process' = [process EXCEPT !.at = "hands over"] /\ offer' = "installing"
           /\ helpers' = Append(helpers, Helper("lock", process.number))
           /\ \/ Fine /\ folder' = Unmarked(folder)
              \/ Mishap /\ folder' = folder
  <2>1. ProcessTyped' /\ process'.number = process.number
    BY <1>1, <1>4, <1>5 DEF ProcessTyped
  <2>2. FolderTyped' /\ folder'.asset = folder.asset
    <3>1. CASE folder' = Unmarked(folder)
      BY <1>3, <3>1 DEF FolderTyped
    <3>2. CASE folder' = folder
      BY <3>2 DEF FolderTyped
    <3> QED BY <1>5, <3>1, <3>2
  <2>3. /\ HelpersTyped' /\ \A i \in DOMAIN helpers : i \in DOMAIN helpers' /\ helpers'[i] = helpers[i]
        /\ \A i \in DOMAIN helpers' : i \in DOMAIN helpers \/ helpers'[i] = Helper("lock", process.number)
    BY <1>1, <1>5, AppendedHelper DEF HelpersTyped
  <2>4. mishaps' \in Nat /\ mishaps' >= mishaps
    <3>1. CASE Fine
      BY <1>n, <3>1 DEF Fine
    <3>2. CASE Mishap
      BY <1>n, <3>2 DEF Mishap
    <3> QED BY <1>5, <3>1, <3>2
  <2>5. HandOverOutcome
    BY <1>1, <2>1, <2>2, <2>3, <2>4 DEF HandOverOutcome, Helper
  <2>6. OffersHold'
    BY <1>1, <1>2, <2>2 DEF OffersHold
  <2>7. folder'.marker => mishaps' > 0
    <3>1. CASE folder' = Unmarked(folder)
      BY <1>3, <3>1
    <3>2. CASE Mishap
      BY <1>n, <3>2 DEF Mishap
    <3> QED BY <1>5, <3>1, <3>2
  <2>9. inVain' => mishaps' > 0
    <3>1. inVain => mishaps > 0
      BY DEF MarkersHold
    <3> QED BY <1>1, <1>n, <2>4, <3>1
  <2>x. ~(folder'.marker /\ mishaps' = 0)
    BY <2>7
  <2>8. MarkersHold'
    BY <2>x, <2>9, Zenon DEF MarkersHold
  <2> QED BY <1>1, <2>5, <2>6, <2>8, HandOverMoves
<1>6. CASE Mishap /\ folder' = Unmarked(folder) /\ UNCHANGED <<offer, process, helpers>>
  <2>1. FolderTyped' /\ folder'.asset = folder.asset /\ ~folder'.marker
    BY <1>3, <1>6 DEF FolderTyped
  <2>2. mishaps' \in Nat /\ mishaps' > mishaps
    BY <1>6 DEF Mishap
  <2>a. HelpersTyped' /\ ProcessTyped'
    BY <1>6 DEF HelpersTyped, ProcessTyped
  <2>b. UNCHANGED helpers
    BY <1>6
  <2>3. HandOverOutcome
    BY <1>1, <1>n, <2>a, <2>b, <2>1, <2>2 DEF HandOverOutcome
  <2>4. OffersHold'
    BY <1>1, <1>6, <2>1 DEF OffersHold
  <2>5. mishaps' > 0
    BY <1>n, <2>2
  <2>x. mishaps' # 0
    BY <2>5
  <2>6. MarkersHold'
    BY <2>5, <2>x, Zenon DEF MarkersHold
  <2> QED BY <1>1, <2>3, <2>4, <2>6, HandOverMoves
<1>7. \/ /\ process' = [process EXCEPT !.at = "hands over"] /\ offer' = "installing"
         /\ helpers' = Append(helpers, Helper("lock", process.number))
         /\ \/ Fine /\ folder' = Unmarked(folder)
            \/ Mishap /\ folder' = folder
      \/ Mishap /\ folder' = Unmarked(folder) /\ UNCHANGED <<offer, process, helpers>>
  BY DEF LaunchPreparedApply
<1> QED BY <1>5, <1>6, <1>7

LEMMA HandedOverKeeps ==
    ASSUME PackagesInv, HandedOver
    PROVE  PackagesInv'
<1> USE DEF PackagesInv, PackagesTyped
<1>1. /\ HandOverOnly /\ process.at = "hands over" /\ folder.marker
      /\ process' = [number |-> process.number, at |-> "leaves", build |-> process.build]
      /\ UNCHANGED <<folder, offer, helpers, program, mishaps, replaced>>
  BY DEF HandedOver, HandOverOnly, ProcessTyped
<1>a. HelpersTyped' /\ FolderTyped'
  BY <1>1 DEF HelpersTyped, FolderTyped
<1>b. ProcessTyped'
  BY <1>1 DEF ProcessTyped
<1>m. mishaps' = mishaps
  BY <1>1
<1>n. \A n \in Nat : n >= n
  OBVIOUS
<1>c. mishaps' \in Nat /\ mishaps' >= mishaps
  BY <1>m, <1>n, Zenon
<1>2. HandOverOutcome
  BY <1>1, <1>a, <1>b, <1>c DEF HandOverOutcome
<1>3. OffersHold'
  BY <1>1 DEF OffersHold
<1>4. mishaps = 0 => \E i \in DOMAIN helpers : Took(helpers[i]) \/ Strayed(helpers[i])
  <2>1. HAVE mishaps = 0
  <2>2. PICK i \in DOMAIN helpers : \/ helpers[i].at = "parent" /\ helpers[i].parent = process.number
                                    \/ Strayed(helpers[i])
    BY <1>1, <2>1 DEF MarkersHold
  <2> QED BY <2>2 DEF Took
<1>5. inVain' => mishaps > 0
  <2>1. inVain' <=> inVain \/ ~\E i \in DOMAIN helpers : Took(helpers[i]) \/ Strayed(helpers[i])
    BY DEF HandedOver
  <2>2. inVain => mishaps > 0
    BY DEF MarkersHold
  <2> QED BY <1>4, <2>1, <2>2
<1>6. MarkersHold'
  BY <1>1, <1>5 DEF MarkersHold
<1> QED BY <1>1, <1>2, <1>3, <1>6, HandOverMoves

LEMMA NotHandedOverKeeps ==
    ASSUME PackagesInv, NotHandedOver
    PROVE  PackagesInv'
<1> USE DEF PackagesInv, PackagesTyped
<1>1. /\ HandOverOnly /\ process.at = "hands over"
      /\ process' = [number |-> process.number, at |-> "runs", build |-> process.build]
      /\ UNCHANGED <<folder, helpers, program, mishaps, inVain, replaced>>
  BY DEF NotHandedOver, HandOverOnly, ProcessTyped
<1>a. HelpersTyped' /\ FolderTyped'
  BY <1>1 DEF HelpersTyped, FolderTyped
<1>b. ProcessTyped'
  BY <1>1 DEF ProcessTyped
<1>m. mishaps' = mishaps
  BY <1>1
<1>n. \A n \in Nat : n >= n
  OBVIOUS
<1>c. mishaps' \in Nat /\ mishaps' >= mishaps
  BY <1>m, <1>n, Zenon
<1>2. HandOverOutcome
  BY <1>1, <1>a, <1>b, <1>c DEF HandOverOutcome
<1>3. OffersHold' /\ MarkersHold'
  BY <1>1 DEF OffersHold, MarkersHold
<1> QED BY <1>1, <1>2, <1>3, HandOverMoves

LEMMA LaunchInstallerKeeps ==
    ASSUME PackagesInv, LaunchInstaller
    PROVE  PackagesInv'
<1> USE DEF PackagesInv, PackagesTyped
<1>1. /\ HandOverOnly /\ Runs /\ UNCHANGED <<folder, mishaps, inVain, replaced>> /\ offer' # "ready"
      /\ process.number \in Nat
  BY DEF LaunchInstaller, HandOverOnly, ProcessTyped
<1>2. folder.asset \in Installers => folder.asset \in listed \cap Installers
  BY ContentsAssumption DEF Sources, Published
<1>3. program' = program \/ program' \in listed \cap Installers
  BY <1>2 DEF LaunchInstaller
<1>4. /\ ProcessTyped' /\ process'.number = process.number /\ process'.at # "hands over"
  <2>1. CASE process' = process
    BY <1>1, <2>1 DEF ProcessTyped, Runs
  <2>2. CASE process' = [process EXCEPT !.at = "leaves"]
    <3>1. process' = [number |-> process.number, at |-> "leaves", build |-> process.build]
      BY <2>2 DEF ProcessTyped
    <3> QED BY <1>1, <3>1 DEF ProcessTyped
  <2> QED BY <2>1, <2>2 DEF LaunchInstaller
<1>5. /\ HelpersTyped' /\ \A i \in DOMAIN helpers : i \in DOMAIN helpers' /\ helpers'[i] = helpers[i]
      /\ \A i \in DOMAIN helpers' : i \in DOMAIN helpers \/ helpers'[i].at # "copying"
  <2>1. CASE helpers' = helpers
    BY <2>1 DEF HelpersTyped
  <2>2. CASE helpers' = Append(helpers, Helper("parent", process.number))
    <3>1. Helper("parent", process.number).at # "copying"
      BY DEF Helper
    <3> QED BY <1>1, <2>2, <3>1, AppendedHelper DEF HelpersTyped
  <2>3. CASE helpers' = Append(helpers, Helper("starts", process.number))
    <3>1. Helper("starts", process.number).at # "copying"
      BY DEF Helper
    <3> QED BY <1>1, <2>3, <3>1, AppendedHelper DEF HelpersTyped
  <2> QED BY <2>1, <2>2, <2>3 DEF LaunchInstaller
<1>b. FolderTyped' /\ folder'.asset = folder.asset
  BY <1>1 DEF FolderTyped
<1>m. mishaps' = mishaps
  BY <1>1
<1>n. \A n \in Nat : n >= n
  OBVIOUS
<1>c. mishaps' \in Nat /\ mishaps' >= mishaps
  BY <1>m, <1>n, Zenon
<1>6. HandOverOutcome
  BY <1>3, <1>4, <1>5, <1>b, <1>c DEF HandOverOutcome
<1>7. OffersHold' /\ MarkersHold'
  BY <1>1, <1>4 DEF OffersHold, MarkersHold
<1> QED BY <1>1, <1>6, <1>7, HandOverMoves

\* The process ends: no loader, no offer, no hand-over.
LEMMA GoneKeeps ==
    ASSUME PackagesInv, process' = [process EXCEPT !.at = "gone"], loader' = AtRest, offer' = "none",
           announced' = Unrecorded, UNCHANGED <<server, folder, helpers, program, listed, replaced, inVain>>,
           mishaps' \in Nat, mishaps' >= mishaps
    PROVE  PackagesInv'
<1> USE DEF PackagesInv, PackagesTyped
<1>1. process' = [number |-> process.number, at |-> "gone", build |-> process.build]
  BY DEF ProcessTyped
<1>2. loader'.at = "rest" /\ LoaderTyped'
  BY LoaderFields DEF AtRest, LoaderTyped
<1>3. ProcessTyped' /\ PageTyped' /\ HelpersTyped' /\ FolderTyped'
  BY <1>1 DEF ProcessTyped, PageTyped, HelpersTyped, FolderTyped
<1>4. AnnouncesOnce' /\ AnnouncedTyped'
  BY <1>2, UnrecordedCounts
<1>5. Sources' /\ OffersHold'
  BY <1>1, <1>2 DEF Sources, OffersHold
<1>a. mishaps > 0 => mishaps' > 0
  OBVIOUS
<1>b. process'.at # "hands over"
  BY <1>1
<1>7. MarkersHold'
  BY <1>a, <1>b DEF MarkersHold
<1>6. ProgramIsWhole'
  BY <1>a DEF ProgramIsWhole, Copying
<1> QED BY <1>2, <1>3, <1>4, <1>5, <1>6, <1>7

LEMMA EndsKeep ==
    ASSUME PackagesInv, Leaves \/ Killed
    PROVE  PackagesInv'
<1>1. mishaps' \in Nat /\ mishaps' >= mishaps
  BY DEF Leaves, Killed, Mishap, PackagesInv, PackagesTyped
<1> QED BY <1>1, GoneKeeps DEF Leaves, Killed

LEMMA UserStartsKeeps ==
    ASSUME PackagesInv, UserStarts
    PROVE  PackagesInv'
<1> USE DEF PackagesInv, PackagesTyped
<1>1. /\ HandOverOnly
      /\ process' = [number |-> process.number + 1, at |-> "runs", build |-> program]
      /\ UNCHANGED <<folder, offer, helpers, program, mishaps, inVain, replaced>>
  BY DEF UserStarts, HandOverOnly, NewProcess
<1>a. HelpersTyped' /\ FolderTyped'
  BY <1>1 DEF HelpersTyped, FolderTyped
<1>d. process.number + 1 \in Nat
  <2>1. process.number \in Nat
    BY DEF ProcessTyped
  <2>2. \A n \in Nat : n + 1 \in Nat
    OBVIOUS
  <2> QED BY <2>1, <2>2, Zenon
<1>b. ProcessTyped'
  BY <1>1, <1>d DEF ProcessTyped
<1>m. mishaps' = mishaps
  BY <1>1
<1>n. \A n \in Nat : n >= n
  OBVIOUS
<1>c. mishaps' \in Nat /\ mishaps' >= mishaps
  BY <1>m, <1>n, Zenon
<1>2. HandOverOutcome
  BY <1>1, <1>a, <1>b, <1>c DEF HandOverOutcome
<1>3. OffersHold' /\ MarkersHold'
  BY <1>1 DEF OffersHold, MarkersHold
<1> QED BY <1>1, <1>2, <1>3, HandOverMoves

-----------------------------------------------------------------------------
\* A step of helper i that only goes on to another stage.
Advances(i, at) ==
    /\ Becomes(i, at) /\ HelperOnly /\ UNCHANGED folder /\ ProcessTyped'
    /\ mishaps' \in Nat /\ mishaps' >= mishaps
    /\ \/ program' = program /\ (helpers[i].at = "copying" => mishaps' > 0)
       \/ program' \in listed \cap Installers
    /\ process'.at = "hands over" => process' = process
    /\ ~(/\ mishaps' = 0 /\ process.at = "hands over"
         /\ helpers[i].at = "parent" /\ helpers[i].parent = process.number)

LEMMA HelperAdvances ==
    ASSUME PackagesInv, NEW i \in DOMAIN helpers, NEW at \in HelperStages \ {"copying"}, Advances(i, at)
    PROVE  PackagesInv'
<1> USE DEF PackagesInv, PackagesTyped
<1>0. UNCHANGED <<host, server, loader, downloads, offer, announced, listed, replaced, inVain, folder>>
  BY DEF Advances, HelperOnly
<1>1. /\ HelpersTyped' /\ DOMAIN helpers' = DOMAIN helpers
      /\ \A j \in DOMAIN helpers : j # i => helpers'[j] = helpers[j]
      /\ helpers'[i].at = at /\ helpers'[i].parent = helpers[i].parent
      /\ helpers'[i].stage = helpers[i].stage /\ helpers'[i].marked = helpers[i].marked
  BY BecomesChanges DEF Advances, HelpersTyped
<1>2. mishaps' \in Nat /\ mishaps' >= mishaps /\ mishaps \in Nat
  BY DEF Advances
<1>3. PackagesTyped'
  BY <1>0, <1>1, <1>2 DEF PageTyped, AnnouncedTyped, FolderTyped, LoaderTyped, Advances
<1>4. Sources'
  BY <1>0, <1>1 DEF Sources
<1>5. OffersHold'
  <2>1. process'.at = "hands over" => process.at = "hands over"
    BY DEF Advances
  <2> QED BY <1>0, <2>1 DEF OffersHold
<1>6. ProgramIsWhole'
  <2>1. CASE program' \in listed \cap Installers
    BY <1>0, <2>1 DEF ProgramIsWhole
  <2>2. CASE program' = program /\ (helpers[i].at = "copying" => mishaps' > 0)
    <3>1. Copying => Copying' \/ mishaps' > 0
      <4>1. SUFFICES ASSUME NEW j \in DOMAIN helpers, helpers[j].at = "copying" PROVE Copying' \/ mishaps' > 0
        BY DEF Copying
      <4>2. CASE j = i
        BY <2>2, <4>1, <4>2
      <4>3. CASE j # i
        BY <1>1, <4>1, <4>3 DEF Copying
      <4> QED BY <4>2, <4>3
    <3>2. mishaps > 0 => mishaps' > 0
      BY <1>2
    <3> QED BY <1>0, <2>2, <3>1, <3>2 DEF ProgramIsWhole
  <2> QED BY <2>1, <2>2 DEF Advances
<1>7. MarkersHold'
  <2>1. inVain' => mishaps' > 0
    <3>1. mishaps > 0 => mishaps' > 0
      BY <1>2
    <3>2. inVain => mishaps > 0
      BY DEF MarkersHold
    <3> QED BY <1>0, <3>1, <3>2, Zenon
  <2>2. ASSUME process'.at = "hands over", folder'.marker, mishaps' = 0
        PROVE  \E j \in DOMAIN helpers' : \/ helpers'[j].at = "parent" /\ helpers'[j].parent = process'.number
                                          \/ helpers'[j].parent # process'.number /\ helpers'[j].marked = process'.number
    <3>0. mishaps = 0
      <4>1. mishaps' = 0 => mishaps = 0
        BY <1>2
      <4> QED BY <2>2, <4>1
    <3>1. process' = process /\ ~(helpers[i].at = "parent" /\ helpers[i].parent = process.number) /\ mishaps = 0
      BY <2>2, <3>0 DEF Advances
    <3>2. PICK j \in DOMAIN helpers : \/ helpers[j].at = "parent" /\ helpers[j].parent = process.number
                                      \/ Strayed(helpers[j])
      BY <1>0, <2>2, <3>1 DEF MarkersHold
    <3>3. CASE j # i
      <4>1. j \in DOMAIN helpers' /\ helpers'[j] = helpers[j]
        BY <1>1, <3>3
      <4> QED BY <3>1, <3>2, <4>1 DEF Strayed
    <3>4. CASE j = i
      <4>1. Strayed(helpers[j])
        BY <3>1, <3>2, <3>4
      <4>2. helpers'[i].parent # process'.number /\ helpers'[i].marked = process'.number
        BY <1>1, <3>1, <3>4, <4>1 DEF Strayed
      <4> QED BY <1>1, <4>2
    <3> QED BY <3>3, <3>4
  <2> QED BY <2>1, <2>2, Zenon DEF MarkersHold, Strayed
<1>8. AnnouncesOnce'
  BY <1>0 DEF AnnouncesOnce
<1> QED BY <1>3, <1>4, <1>5, <1>6, <1>7, <1>8

LEMMA HelperStepsOn ==
    ASSUME PackagesInv, NEW i \in DOMAIN helpers,
           \/ ParentIsGone(i) \/ VerifyPrepared(i) \/ RunSetup(i) \/ Starts(i) \/ HelperKilled(i) \/ Copied(i)
           \/ Unpack(i) /\ folder.asset \notin Installers
    PROVE  PackagesInv'
<1> USE DEF PackagesInv, PackagesTyped
<1>1. mishaps \in Nat /\ \A n \in Nat : n >= n
  OBVIOUS
<1>2. process' = process => ProcessTyped'
  BY DEF ProcessTyped
<1>3. CASE ParentIsGone(i)
  <2>1. UNCHANGED <<folder, process, program, mishaps>> /\ HelperOnly /\ helpers[i].at = "parent"
    BY <1>3 DEF ParentIsGone, Quiet
  <2>2. ~(process.at = "hands over" /\ helpers[i].parent = process.number)
    BY <1>3 DEF ParentIsGone
  <2>3. PICK at \in {"verify", "copy"} : Becomes(i, at)
    BY <1>3 DEF ParentIsGone
  <2>4. Advances(i, at)
    BY <1>1, <1>2, <2>1, <2>2, <2>3 DEF Advances
  <2> QED BY <2>4, HelperAdvances
<1>4. CASE VerifyPrepared(i)
  <2>1. UNCHANGED <<folder, process, program, mishaps>> /\ HelperOnly /\ helpers[i].at = "verify"
    BY <1>4 DEF VerifyPrepared, Quiet
  <2>3. PICK at \in {"copy", "dead"} : Becomes(i, at)
    BY <1>4 DEF VerifyPrepared
  <2>4. Advances(i, at)
    BY <1>1, <1>2, <2>1, <2>3 DEF Advances
  <2> QED BY <2>4, HelperAdvances
<1>5. CASE RunSetup(i)
  <2>1. UNCHANGED <<folder, process, mishaps>> /\ HelperOnly /\ helpers[i].at = "copy"
    BY <1>5 DEF RunSetup
  <2>2. folder.asset \in Installers => folder.asset \in listed \cap Installers
    BY ContentsAssumption DEF Sources, Published
  <2>3. PICK at \in {"starts", "done", "dead"} : Becomes(i, at)
    BY <1>5 DEF RunSetup
  <2>4. program' = program \/ program' \in listed \cap Installers
    BY <1>5, <2>2 DEF RunSetup
  <2>5. Advances(i, at)
    BY <1>1, <1>2, <2>1, <2>3, <2>4 DEF Advances
  <2> QED BY <2>5, HelperAdvances
<1>6. CASE Starts(i)
  <2>1. UNCHANGED <<folder, program, mishaps>> /\ HelperOnly /\ helpers[i].at = "starts" /\ Becomes(i, "done")
    BY <1>6 DEF Starts
  <2>2. process' = process \/ process' = [number |-> process.number + 1, at |-> "runs", build |-> program]
    BY <1>6 DEF Starts, NewProcess
  <2>3. process.number + 1 \in Nat
    <3>1. process.number \in Nat
      BY DEF ProcessTyped
    <3>2. \A n \in Nat : n + 1 \in Nat
      OBVIOUS
    <3> QED BY <3>1, <3>2, Zenon
  <2>4. ProcessTyped' /\ (process'.at = "hands over" => process' = process)
    <3>1. CASE process' = process
      BY <1>2, <3>1
    <3>2. CASE process' = [number |-> process.number + 1, at |-> "runs", build |-> program]
      BY <2>3, <3>2 DEF ProcessTyped
    <3> QED BY <2>2, <3>1, <3>2
  <2>5. Advances(i, "done")
    BY <1>1, <2>1, <2>4 DEF Advances
  <2> QED BY <2>5, HelperAdvances
<1>7. CASE HelperKilled(i)
  <2>1. UNCHANGED <<folder, program, process>> /\ HelperOnly /\ mishaps' = mishaps + 1 /\ Becomes(i, "dead")
    BY <1>7 DEF HelperKilled, Mishap
  <2>2. mishaps' \in Nat /\ mishaps' >= mishaps /\ mishaps' > 0 /\ mishaps' # 0
    BY <1>1, <2>1
  <2>3. ProcessTyped' /\ process' = process /\ program' = program /\ UNCHANGED folder
    BY <1>2, <2>1
  <2>4. Advances(i, "dead")
    BY <2>1, <2>2, <2>3, Zenon DEF Advances
  <2> QED BY <2>4, HelperAdvances
<1>8. CASE Copied(i)
  <2>1. UNCHANGED <<folder, process, mishaps>> /\ HelperOnly /\ helpers[i].at = "copying" /\ Becomes(i, "starts")
    BY <1>8 DEF Copied
  <2>2. program' \in listed \cap Installers
    BY <1>8, <2>1 DEF Copied, Sources
  <2>3. Advances(i, "starts")
    BY <1>1, <1>2, <2>1, <2>2 DEF Advances
  <2> QED BY <2>3, HelperAdvances
<1>9. CASE Unpack(i) /\ folder.asset \notin Installers
  <2>1. /\ UNCHANGED <<folder, process, program, mishaps>> /\ HelperOnly /\ helpers[i].at = "copy"
        /\ Becomes(i, "dead")
    BY <1>9 DEF Unpack
  <2>2. Advances(i, "dead")
    BY <1>1, <1>2, <2>1 DEF Advances
  <2> QED BY <2>2, HelperAdvances
<1> QED BY <1>3, <1>4, <1>5, <1>6, <1>7, <1>8, <1>9

LEMMA TakeLockKeeps ==
    ASSUME PackagesInv, NEW i \in DOMAIN helpers, TakeLock(i)
    PROVE  PackagesInv'
<1> USE DEF PackagesInv, PackagesTyped
<1>0. /\ UNCHANGED <<process, program, mishaps, host, server, loader, downloads, offer>>
      /\ UNCHANGED <<announced, listed, replaced, inVain>> /\ helpers[i].at = "lock"
  BY DEF TakeLock, HelperOnly
<1>p. ProcessTyped'
  BY <1>0 DEF ProcessTyped
<1>n. process.number \in Nat
  BY DEF ProcessTyped
<1>h. helpers[i] \in HelperRecords
  BY DEF HelpersTyped
<1>1. process.number \in Nat /\ ProcessTyped' /\ helpers[i] \in HelperRecords
  BY <1>p, <1>n, <1>h
<1>2. CASE LockIsFree(i)
  <2> DEFINE h == [helpers[i] EXCEPT !.at = "parent", !.marked = process.number]
  <2>1. /\ helpers' = [helpers EXCEPT ![i] = h] /\ folder' = [folder EXCEPT !.marker = TRUE]
    BY <1>2 DEF TakeLock
  <2>2. /\ h \in HelperRecords /\ h.at = "parent" /\ h.parent = helpers[i].parent /\ h.marked = process.number
    BY <1>1 DEF HelperRecords
  <2> HIDE DEF h
  <2>3. /\ HelpersTyped' /\ DOMAIN helpers' = DOMAIN helpers /\ helpers'[i] = h
        /\ \A j \in DOMAIN helpers : j # i => helpers'[j] = helpers[j]
    BY <2>1, <2>2, ChangedHelper DEF HelpersTyped
  <2>4. folder' = [sums |-> folder.sums, asset |-> folder.asset, marker |-> TRUE]
    BY <2>1 DEF FolderTyped
  <2>5. PackagesTyped'
    BY <1>0, <1>1, <2>3, <2>4 DEF PageTyped, AnnouncedTyped, FolderTyped, LoaderTyped
  <2>6. Sources' /\ OffersHold' /\ AnnouncesOnce'
    BY <1>0, <2>2, <2>3, <2>4 DEF Sources, OffersHold, AnnouncesOnce
  <2>7. Copying => Copying'
    BY <1>0, <2>3 DEF Copying
  <2>8. ProgramIsWhole'
    BY <1>0, <2>7 DEF ProgramIsWhole
  <2>9. \E j \in DOMAIN helpers' :
            \/ helpers'[j].at = "parent" /\ helpers'[j].parent = process'.number
            \/ helpers'[j].parent # process'.number /\ helpers'[j].marked = process'.number
    BY <1>0, <2>2, <2>3
  <2>10. inVain' => mishaps' > 0
    BY <1>0 DEF MarkersHold
  <2>11. MarkersHold'
    BY <2>9, <2>10, Zenon DEF MarkersHold, Strayed
  <2> QED BY <2>5, <2>6, <2>8, <2>11
<1>3. CASE ~LockIsFree(i)
  <2>1. Becomes(i, "dead") /\ folder' = folder /\ HelperOnly
    BY <1>3 DEF TakeLock
  <2>2. mishaps' \in Nat /\ mishaps' >= mishaps
    <3>1. mishaps \in Nat /\ \A n \in Nat : n >= n
      OBVIOUS
    <3> QED BY <1>0, <3>1
  <2>3. Advances(i, "dead")
    BY <1>0, <1>1, <2>1, <2>2 DEF Advances
  <2> QED BY <2>3, HelperAdvances
<1> QED BY <1>2, <1>3

LEMMA UnpackKeeps ==
    ASSUME PackagesInv, NEW i \in DOMAIN helpers, Unpack(i), folder.asset \in Installers
    PROVE  PackagesInv'
<1> USE DEF PackagesInv, PackagesTyped
<1>0. /\ UNCHANGED <<process, mishaps, host, server, loader, downloads, offer, folder>>
      /\ UNCHANGED <<announced, listed, replaced, inVain>> /\ helpers[i].at = "copy" /\ program' = Torn
  BY DEF Unpack, HelperOnly
<1>1. helpers[i] \in HelperRecords /\ folder.asset \in listed
  BY ContentsAssumption DEF HelpersTyped, Sources, Published
<1> DEFINE h == [helpers[i] EXCEPT !.at = "copying", !.stage = folder.asset]
<1>2. helpers' = [helpers EXCEPT ![i] = h]
  BY DEF Unpack
<1>3. /\ h \in HelperRecords /\ h.at = "copying" /\ h.stage = folder.asset
      /\ h.parent = helpers[i].parent /\ h.marked = helpers[i].marked
  BY <1>1 DEF HelperRecords
<1> HIDE DEF h
<1>4. /\ HelpersTyped' /\ DOMAIN helpers' = DOMAIN helpers /\ helpers'[i] = h
      /\ \A j \in DOMAIN helpers : j # i => helpers'[j] = helpers[j]
  BY <1>2, <1>3, ChangedHelper DEF HelpersTyped
<1>5. PackagesTyped'
  BY <1>0, <1>4 DEF PageTyped, AnnouncedTyped, FolderTyped, LoaderTyped, ProcessTyped
<1>6. Sources'
  BY <1>0, <1>1, <1>3, <1>4 DEF Sources
<1>7. OffersHold' /\ AnnouncesOnce'
  BY <1>0 DEF OffersHold, AnnouncesOnce
<1>8. Copying'
  BY <1>3, <1>4 DEF Copying
<1>9. ProgramIsWhole'
  BY <1>0, <1>8 DEF ProgramIsWhole
<1>10. MarkersHold'
  <2>1. inVain' => mishaps' > 0
    BY <1>0 DEF MarkersHold
  <2>2. ASSUME process'.at = "hands over", folder'.marker, mishaps' = 0
        PROVE  \E j \in DOMAIN helpers' :
                  \/ helpers'[j].at = "parent" /\ helpers'[j].parent = process'.number
                  \/ helpers'[j].parent # process'.number /\ helpers'[j].marked = process'.number
    <3>1. PICK j \in DOMAIN helpers : \/ helpers[j].at = "parent" /\ helpers[j].parent = process.number
                                      \/ Strayed(helpers[j])
      BY <1>0, <2>2 DEF MarkersHold
    <3>2. CASE j # i
      <4>1. j \in DOMAIN helpers' /\ helpers'[j] = helpers[j]
        BY <1>4, <3>2
      <4> QED BY <1>0, <3>1, <4>1 DEF Strayed
    <3>3. CASE j = i
      <4>1. Strayed(helpers[i])
        BY <1>0, <3>1, <3>3
      <4>2. helpers'[i].parent # process'.number /\ helpers'[i].marked = process'.number
        BY <1>0, <1>3, <1>4, <4>1 DEF Strayed
      <4> QED BY <1>4, <4>2
    <3> QED BY <3>2, <3>3
  <2> QED BY <2>1, <2>2, Zenon DEF MarkersHold, Strayed
<1> QED BY <1>5, <1>6, <1>7, <1>9, <1>10

\* The package's invariant is inductive.
LEMMA PackagesStep == ASSUME PackagesInv, PackageNext PROVE PackagesInv'
<1>1. ASSUME NEW i \in DOMAIN helpers, HelperStep(i) PROVE PackagesInv'
  BY <1>1, TakeLockKeeps, UnpackKeeps, HelperStepsOn DEF HelperStep
<1> QED BY <1>1, PublicationKeeps, FindReleaseKeeps, AnnounceReleaseKeeps, StoreLastNotifiedKeeps,
           FetchSumsKeeps, StreamAssetKeeps, CompareAndRenameKeeps, ValidatePayloadKeeps,
           LaunchPreparedApplyKeeps, HandedOverKeeps, NotHandedOverKeeps, LaunchInstallerKeeps,
           EndsKeep, UserStartsKeeps DEF PackageNext

LEMMA PackagesRest == ASSUME PackagesInv, UNCHANGED package PROVE PackagesInv'
<1> USE DEF PackagesInv
<1>0. /\ UNCHANGED <<host, server, folder, process, loader, downloads, offer>>
      /\ UNCHANGED <<helpers, program, announced, mishaps, listed, replaced, inVain>>
  BY DEF package
<1>1. PackagesTyped'
  BY <1>0 DEF PackagesTyped, PageTyped, HelpersTyped, AnnouncedTyped, FolderTyped, LoaderTyped, ProcessTyped
<1>2. Sources' /\ OffersHold' /\ AnnouncesOnce'
  BY <1>0 DEF Sources, OffersHold, AnnouncesOnce
<1>3. ProgramIsWhole' /\ MarkersHold'
  BY <1>0 DEF ProgramIsWhole, MarkersHold, Copying, Strayed
<1> QED BY <1>1, <1>2, <1>3

-----------------------------------------------------------------------------
\* Triples of numbers, compared as ParseVersion's are: two that differ are one of them
\* the greater, and then the other is not.
Exceeds(l, c) == \E i \in 1..3 : l[i] > c[i] /\ \A j \in 1..(i - 1) : l[j] = c[j]

LEMMA TriplesCompare ==
    ASSUME NEW l \in [1..3 -> Nat], NEW c \in [1..3 -> Nat]
    PROVE  /\ Exceeds(l, c) => ~Exceeds(c, l) /\ l # c
           /\ Exceeds(l, c) \/ Exceeds(c, l) \/ l = c
<1>1. ASSUME NEW x \in [1..3 -> Nat], NEW y \in [1..3 -> Nat]
      PROVE  Exceeds(x, y) <=> \/ x[1] > y[1]
                               \/ x[1] = y[1] /\ x[2] > y[2]
                               \/ x[1] = y[1] /\ x[2] = y[2] /\ x[3] > y[3]
  <2>1. Exceeds(x, y) <=> \/ x[1] > y[1] /\ \A j \in 1..0 : x[j] = y[j]
                          \/ x[2] > y[2] /\ \A j \in 1..1 : x[j] = y[j]
                          \/ x[3] > y[3] /\ \A j \in 1..2 : x[j] = y[j]
    BY DEF Exceeds
  <2>2. \A j \in 1..0 : x[j] = y[j]
    OBVIOUS
  <2>3. (\A j \in 1..1 : x[j] = y[j]) <=> x[1] = y[1]
    OBVIOUS
  <2>4. (\A j \in 1..2 : x[j] = y[j]) <=> x[1] = y[1] /\ x[2] = y[2]
    OBVIOUS
  <2> QED BY <2>1, <2>2, <2>3, <2>4
<1>2. l = c <=> l[1] = c[1] /\ l[2] = c[2] /\ l[3] = c[3]
  <2>1. l = c <=> \A i \in 1..3 : l[i] = c[i]
    OBVIOUS
  <2> QED BY <2>1
<1>3. \A i \in 1..3 : l[i] \in Nat /\ c[i] \in Nat
  OBVIOUS
<1>4. l[1] \in Nat /\ l[2] \in Nat /\ l[3] \in Nat /\ c[1] \in Nat /\ c[2] \in Nat /\ c[3] \in Nat
  BY <1>3
<1> QED BY <1>1, <1>2, <1>4

\* Whatever the page answers and whatever runs: a valid release of another version is
\* offered, or the program is newer, and never both (updates.rs).
LEMMA OffersAreNewer == OffersNewer
<1> DEFINE c == ParseVersion(Running)
<1>1. ASSUME NEW tag \in {r.tag : r \in Answers} \cup {Running}, ParseVersion(tag) # None
      PROVE  ParseVersion(tag) \in [1..3 -> Nat]
  <2>1. /\ Len(tag.parts) = 3 /\ \A i \in 1..3 : tag.parts[i].number >= 0
        /\ ParseVersion(tag) = [i \in 1..3 |-> tag.parts[i].number]
    BY <1>1 DEF ParseVersion
  <2> QED BY <2>1, TagsAssumption
<1>2. \A a, b : IsNewer(a, b) <=> /\ ParseVersion(a) # None /\ ParseVersion(b) # None
                                  /\ Exceeds(ParseVersion(a), ParseVersion(b))
  BY DEF IsNewer, Exceeds
<1>3. ASSUME NEW r \in Offered
      PROVE  ~r.draft /\ ~r.prerelease /\ ~IsNewer(Running, r.tag) /\ ParseVersion(r.tag) # c
  <2>1. r \in Answers /\ ~r.draft /\ ~r.prerelease /\ IsNewer(r.tag, Running)
    BY DEF Offered, ValidateRelease
  <2> DEFINE l == ParseVersion(r.tag)
  <2>2. l \in [1..3 -> Nat] /\ c \in [1..3 -> Nat] /\ Exceeds(l, c)
    BY <1>1, <1>2, <2>1
  <2> HIDE DEF l, c
  <2>3. ~Exceeds(c, l) /\ l # c
    BY <2>2, TriplesCompare
  <2> USE DEF l, c
  <2> QED BY <1>2, <2>1, <2>3
<1>4. ASSUME NEW r \in Answers, ValidateRelease(r), c # None, r \notin Offered
      PROVE  IsNewer(Running, r.tag) \/ ParseVersion(r.tag) = c
  <2> DEFINE l == ParseVersion(r.tag)
  <2>1. l # None /\ ~IsNewer(r.tag, Running)
    BY <1>4 DEF Offered, ValidateRelease
  <2>2. l \in [1..3 -> Nat] /\ c \in [1..3 -> Nat] /\ ~Exceeds(l, c)
    BY <1>1, <1>2, <1>4, <2>1
  <2> HIDE DEF l, c
  <2>3. Exceeds(c, l) \/ l = c
    BY <2>2, TriplesCompare
  <2> USE DEF l, c
  <2> QED BY <1>2, <1>4, <2>1, <2>3
<1> QED BY <1>3, <1>4 DEF OffersNewer

LEMMA PackagesHold ==
    ASSUME PackagesInv
    PROVE  PackagesAreWhole
<1> USE DEF PackagesInv
<1>1. OffersNewer
  BY OffersAreNewer
<1>2. folder.asset \in listed \cup {None} /\ (offer = "ready" => folder.asset \in Installers \/ replaced)
  BY DEF Sources, OffersHold
<1>3. inVain => mishaps > 0
  BY DEF MarkersHold
<1>4. announced.times <= 1 + announced.lost
  BY DEF AnnouncesOnce, PackagesTyped, AnnouncedTyped
<1> QED BY <1>1, <1>2, <1>3, <1>4 DEF PackagesAreWhole, ProgramIsWhole

\* However often the page is published anew, whatever is killed and however many
\* processes, downloads and helpers there are, whatever the numbers of the versions: what is
\* offered is a stable release the program is older than, and none such is passed over,
\* what takes the package's name was listed, what is installed is the old program or a
\* listed installer, the host leaves for a helper, a release is announced once
\* (update_manager.rs, lifecycle.rs, install-linux.sh, Install-VolumeControl.ps1).
THEOREM PackagesStayWhole == Spec => []PackagesAreWhole
<1>1. Init => PackagesInv
  BY PackagesStart DEF Init
<1>2. PackagesInv /\ [Next]_vars => PackagesInv'
  BY PackagesStep, PackagesRest DEF Next, vars
<1>3. PackagesInv => PackagesAreWhole
  BY PackagesHold
<1> QED BY <1>1, <1>2, <1>3, PTL DEF Spec

HIDE DEF HelperStages

-----------------------------------------------------------------------------
(* The native settings window of the legacy host.                            *)

Frames == [open : BOOLEAN, section : Sections, focus : Stops, canSave : BOOLEAN, shown : Errors \cup {None}]
Works == [orig : LegacyConfigs, cur : LegacyConfigs, err : Errors \cup {None}]

\* SaveIsHonest, of a window w over a draft d and controls c; u: the last Apply failed on the disk.
SaveFits(w, d, c, u) == (Unsaved(d, c) => w.canSave) /\ (w.canSave => Unsaved(d, c) \/ u)
ErrorFits(w, d, u) ==
    /\ w.shown # None => SectionOf[w.shown] = w.section /\ (w.shown = d.err \/ u)
    /\ ShownIn(w.section, d) # None => w.shown = d.err
FocusFits(w) == (w.focus \in Sections => w.focus = w.section) /\ (w.focus = "save" => w.canSave)
PlaceFits(w) == w.focus \in Sections => w.focus = w.section

\* The window's part and the host's part.
WindowHolds ==
    /\ win \in Frames /\ work \in Works /\ ctl \in LegacyConfigs
    /\ win.open => SaveFits(win, work, ctl, unsure) /\ ErrorFits(win, work, unsure) /\ FocusFits(win)
    /\ win.open => work.orig = config
HostHolds ==
    /\ disk \in LegacyConfigs /\ config \in LegacyConfigs /\ Invalid(disk) = None /\ Invalid(config) = None
    /\ listener = config.modifier /\ (~touched => config = disk)
    /\ touched \in BOOLEAN /\ unsure \in BOOLEAN
CountsHold == posts \in Seq(Posts) /\ gestures \in 0..MaxGestures /\ failures \in 0..MaxFailures
WindowInv == WindowHolds /\ HostHolds /\ CountsHold

LEMMA SectionNames ==
    /\ Sections = {"General", "Hotkeys", "Appearance", "Blacklist", "Feedback", "Storage"}
    /\ \A f \in Errors : SectionOf[f] \in {"General", "Feedback"}
    /\ SectionOf.step = "General" /\ SectionOf.large = "General" /\ SectionOf.freq = "Feedback"
<1>1. DOMAIN Rail = 1..6
  BY DEF Rail
<1>2. \A i \in 1..6 : i = 1 \/ i = 2 \/ i = 3 \/ i = 4 \/ i = 5 \/ i = 6
  OBVIOUS
<1>3. /\ Rail[1] = "General" /\ Rail[2] = "Hotkeys" /\ Rail[3] = "Appearance"
      /\ Rail[4] = "Blacklist" /\ Rail[5] = "Feedback" /\ Rail[6] = "Storage"
  BY DEF Rail
<1>4. Sections = {"General", "Hotkeys", "Appearance", "Blacklist", "Feedback", "Storage"}
  BY <1>1, <1>2, <1>3 DEF Sections
<1> QED BY <1>4 DEF Errors, SectionOf

LEMMA ArrowStays == ASSUME NEW s \in Sections PROVE Down(s) \in Sections /\ Up(s) \in Sections
<1>1. DOMAIN Rail = 1..6
  BY DEF Rail
<1>2. IndexOf(s) \in 1..6
  BY <1>1 DEF IndexOf, Sections
<1>3. (IndexOf(s) % 6) + 1 \in 1..6 /\ ((IndexOf(s) + 4) % 6) + 1 \in 1..6
  BY <1>2
<1> QED BY <1>1, <1>3 DEF Down, Up, Sections

LEMMA ConfigChanges ==
    ASSUME NEW c \in LegacyConfigs
    PROVE  /\ \A v \in {1, 2} : [c EXCEPT !.step = v] \in LegacyConfigs
           /\ \A v \in {2, 3} : [c EXCEPT !.large = v] \in LegacyConfigs
           /\ \A v \in {0, 1} : [c EXCEPT !.freq = v] \in LegacyConfigs
           /\ \A v \in LookModes : [c EXCEPT !.look = v] \in LegacyConfigs
           /\ \A v \in {0, 1} : [c EXCEPT !.rest = v] \in LegacyConfigs
           /\ \A v \in Modifiers : [c EXCEPT !.modifier = v] \in LegacyConfigs
           /\ \A v \in SUBSET Apps : [c EXCEPT !.black = v] \in LegacyConfigs
<1> USE DEF LegacyConfigs, Domain
<1>1. \A v \in {1, 2} : [c EXCEPT !.step = v] \in LegacyConfigs
  OBVIOUS
<1>2. \A v \in {2, 3} : [c EXCEPT !.large = v] \in LegacyConfigs
  OBVIOUS
<1>3. \A v \in {0, 1} : [c EXCEPT !.freq = v] \in LegacyConfigs
  OBVIOUS
<1>4. \A v \in LookModes : [c EXCEPT !.look = v] \in LegacyConfigs
  OBVIOUS
<1>5. \A v \in {0, 1} : [c EXCEPT !.rest = v] \in LegacyConfigs
  OBVIOUS
<1>6. \A v \in Modifiers : [c EXCEPT !.modifier = v] \in LegacyConfigs
  OBVIOUS
<1>7. \A v \in SUBSET Apps : [c EXCEPT !.black = v] \in LegacyConfigs
  OBVIOUS
<1> QED BY <1>1, <1>2, <1>3, <1>4, <1>5, <1>6, <1>7

LEMMA PopulatedTypes == ASSUME NEW c \in LegacyConfigs PROVE Populated(c) \in LegacyConfigs
<1>1. c.look \in LookModes
  BY DEF LegacyConfigs, Domain
<1>2. ReadsAs(c.look) \in LookModes
  BY <1>1 DEF ReadsAs, LookModes
<1> QED BY <1>2, ConfigChanges DEF Populated

LEMMA OverlaidTypes == ASSUME NEW d \in Works, NEW c \in LegacyConfigs PROVE Overlaid(d, c) \in LegacyConfigs
<1>1. d.cur.rest \in {0, 1}
  BY DEF Works, LegacyConfigs, Domain
<1> QED BY <1>1, ConfigChanges DEF Overlaid

LEMMA InvalidNames == ASSUME NEW c \in LegacyConfigs PROVE Invalid(c) \in Errors \cup {None}
  BY DEF Invalid, Errors

LEMMA FreshTypes ==
    ASSUME NEW c \in LegacyConfigs
    PROVE  Fresh(c) \in Works /\ Fresh(c).err = None /\ Fresh(c).orig = c /\ Fresh(c).cur = c
  BY DEF Works, Fresh

LEMMA DraftTypes ==
    ASSUME NEW d \in Works, NEW c \in LegacyConfigs
    PROVE  /\ SetCurrent(d, c) \in Works /\ SetCurrent(d, c).err = None
           /\ SetCurrent(d, c).orig = d.orig /\ SetCurrent(d, c).cur = c
           /\ Replaced(d, c) \in Works /\ Replaced(d, c).err = None
           /\ Replaced(d, c).orig = c /\ Replaced(d, c).cur = d.cur
  BY DEF Works, SetCurrent, Replaced

\* What the window shows of a draft.
LEMMA SyncedFits ==
    ASSUME NEW w \in Frames, NEW d, NEW c
    PROVE  LET g == Synced(w, d, c)
           IN  /\ g \in Frames /\ g.open = w.open /\ g.section = w.section /\ g.shown = w.shown
               /\ \A u : SaveFits(g, d, c, u) /\ (ErrorFits(w, d, u) => ErrorFits(g, d, u))
               /\ PlaceFits(w) => FocusFits(g)
<1> DEFINE new(b) == [w EXCEPT !.canSave = b, !.focus = IF ~b /\ @ = "save" THEN "none" ELSE @]
<1>1. \A b \in BOOLEAN : /\ new(b) \in Frames /\ new(b).open = w.open /\ new(b).section = w.section
                         /\ new(b).shown = w.shown /\ (new(b).canSave <=> b)
                         /\ new(b).focus = IF ~b /\ w.focus = "save" THEN "none" ELSE w.focus
  BY DEF Frames, Stops
<1>2. Unsaved(d, c) \in BOOLEAN
  BY Zenon DEF Unsaved, IsDirty
<1>3. Synced(w, d, c) = new(Unsaved(d, c))
  BY Zenon DEF Synced
<1> DEFINE g == Synced(w, d, c)
<1>4. /\ g \in Frames /\ g.open = w.open /\ g.section = w.section /\ g.shown = w.shown
      /\ (g.canSave <=> Unsaved(d, c))
      /\ g.focus = IF ~Unsaved(d, c) /\ w.focus = "save" THEN "none" ELSE w.focus
  <2> HIDE DEF new
  <2> QED BY <1>1, <1>2, <1>3
<1> HIDE DEF g
<1>5. \A u : SaveFits(g, d, c, u)
  BY <1>4, Zenon DEF SaveFits
<1>6. \A u : ErrorFits(w, d, u) => ErrorFits(g, d, u)
  BY <1>4, Zenon DEF ErrorFits
<1>7. PlaceFits(w) => FocusFits(g)
  BY <1>4, SectionNames DEF PlaceFits, FocusFits
<1> QED BY <1>4, <1>5, <1>6, <1>7 DEF g

LEMMA ErrorsFit ==
    ASSUME NEW w \in Frames, NEW d \in Works
    PROVE  LET g == WithErrors(w, d)
           IN  /\ g \in Frames /\ g.open = w.open /\ g.section = w.section /\ g.focus = w.focus
               /\ g.canSave = w.canSave /\ \A u : ErrorFits(g, d, u)
<1>1. ShownIn(w.section, d) \in Errors \cup {None}
  BY DEF ShownIn, Errors
<1>2. /\ WithErrors(w, d) \in Frames /\ WithErrors(w, d).open = w.open
      /\ WithErrors(w, d).section = w.section /\ WithErrors(w, d).focus = w.focus
      /\ WithErrors(w, d).canSave = w.canSave /\ WithErrors(w, d).shown = ShownIn(w.section, d)
  BY <1>1 DEF WithErrors, Frames
<1>3. \A u : ErrorFits(WithErrors(w, d), d, u)
  BY <1>2 DEF ErrorFits, ShownIn, Works
<1> QED BY <1>2, <1>3

LEMMA SelectedFits ==
    ASSUME NEW w \in Frames, NEW d \in Works, NEW s \in Sections
    PROVE  LET g == Selected(w, d, s)
           IN  /\ g \in Frames /\ g.open = w.open /\ g.section = s /\ g.canSave = w.canSave
               /\ \A u : ErrorFits(w, d, u) => ErrorFits(g, d, u)
               /\ FocusFits(w) => FocusFits(g)
<1>1. CASE w.section = s
  BY <1>1 DEF Selected
<1>2. CASE w.section # s
  <2> DEFINE v == [w EXCEPT !.section = s, !.focus = IF @ \in Sections \cup {"none"} THEN "rail" ELSE @]
  <2>1. /\ v \in Frames /\ v.open = w.open /\ v.section = s /\ v.canSave = w.canSave
        /\ v.focus = IF w.focus \in Sections \cup {"none"} THEN "rail" ELSE w.focus
    BY DEF Frames, Stops
  <2>2. Selected(w, d, s) = WithErrors(v, d)
    BY <1>2 DEF Selected
  <2> HIDE DEF v
  <2>3. FocusFits(w) => FocusFits(WithErrors(v, d))
    BY <2>1, ErrorsFit, SectionNames DEF FocusFits
  <2> QED BY <2>1, <2>2, <2>3, ErrorsFit
<1> QED BY <1>1, <1>2


\* A gesture leaves the host alone.
LEMMA GestureHolds ==
    ASSUME WindowInv, win.open, Acts, UNCHANGED HostState, posts' \in Seq(Posts),
           win' \in Frames, work' \in Works, ctl' \in LegacyConfigs, work'.orig = work.orig,
           SaveFits(win', work', ctl', unsure), ErrorFits(win', work', unsure), FocusFits(win')
    PROVE  WindowInv'
<1>1. UNCHANGED <<disk, touched, config, listener, unsure, failures>>
  BY DEF HostState
<1>2. WindowHolds'
  BY <1>1 DEF WindowInv, WindowHolds
<1>3. HostHolds'
  BY <1>1 DEF WindowInv, HostHolds
<1>4. CountsHold'
  BY <1>1, WindowAssumption DEF WindowInv, CountsHold, Acts
<1> QED BY <1>2, <1>3, <1>4 DEF WindowInv

\* A control of the section on the screen takes the keyboard.
LEMMA ControlFits ==
    ASSUME NEW w \in Frames, NEW s \in Sections, w.section = s
    PROVE  LET g == Focused(w, s)
           IN  /\ g \in Frames /\ g.open = w.open /\ g.section = s /\ g.canSave = w.canSave /\ g.shown = w.shown
               /\ PlaceFits(g) /\ FocusFits(g)
<1>1. /\ Focused(w, s) \in Frames /\ Focused(w, s).open = w.open /\ Focused(w, s).section = s
      /\ Focused(w, s).canSave = w.canSave /\ Focused(w, s).shown = w.shown /\ Focused(w, s).focus = s
  BY DEF Focused, Frames, Stops
<1> QED BY <1>1, SectionNames DEF PlaceFits, FocusFits

LEMMA TypeKeeps ==
    ASSUME WindowInv, NEW f \in {"step", "large", "freq"}, NEW v \in Domain[f], Type(f, v)
    PROVE  WindowInv'
<1> DEFINE s == SectionOf[f]
           w == Focused(win, s)
           e == ClearFieldError(f)
           y == IF work.err = f THEN WithErrors(w, e) ELSE w
<1>0. /\ win \in Frames /\ work \in Works /\ ctl \in LegacyConfigs /\ win.open /\ win.section = s
      /\ ErrorFits(win, work, unsure) /\ s \in Sections /\ Acts
  BY SectionNames DEF WindowInv, WindowHolds, Type, AtControl
<1>1. /\ ctl' = [ctl EXCEPT ![f] = v] /\ work' = e /\ win' = Synced(y, e, ctl')
      /\ UNCHANGED HostState /\ posts' = posts
  BY DEF Type
<1>2. ctl' \in LegacyConfigs
  <2>1. CASE f = "step"
    BY <1>0, <1>1, <2>1, ConfigChanges DEF Domain
  <2>2. CASE f = "large"
    BY <1>0, <1>1, <2>2, ConfigChanges DEF Domain
  <2>3. CASE f = "freq"
    BY <1>0, <1>1, <2>3, ConfigChanges DEF Domain
  <2> QED BY <2>1, <2>2, <2>3
<1>3. e \in Works /\ e.orig = work.orig /\ (work.err # f => e = work)
  BY <1>0 DEF ClearFieldError, SetCurrent, Works
<1>4. w \in Frames /\ w.open /\ w.section = s /\ w.shown = win.shown /\ PlaceFits(w)
  BY <1>0, ControlFits
<1> HIDE DEF w, e
<1>5. y \in Frames /\ y.open /\ PlaceFits(y) /\ ErrorFits(y, e, unsure)
  <2>1. CASE work.err = f
    BY <1>3, <1>4, <2>1, ErrorsFit DEF PlaceFits
  <2>2. CASE work.err # f
    BY <1>0, <1>3, <1>4, <2>2 DEF ErrorFits
  <2> QED BY <2>1, <2>2
<1> HIDE DEF y
<1>6. /\ win' \in Frames /\ FocusFits(win') /\ ErrorFits(win', e, unsure) /\ SaveFits(win', e, ctl', unsure)
  BY <1>1, <1>5, SyncedFits
<1>7. posts' \in Seq(Posts)
  BY <1>1 DEF WindowInv, CountsHold
<1> QED BY <1>0, <1>1, <1>2, <1>3, <1>6, <1>7, GestureHolds

\* An edit of the draft in a section without texts: no error is on the screen there.
LEMMA EditKeeps ==
    ASSUME WindowInv, NEW s \in Sections \ {"General", "Feedback"}, AtControl(s), UNCHANGED <<HostState, posts>>,
           work' \in Works, work'.orig = work.orig, work'.err = None \/ work' = work, ctl' \in LegacyConfigs,
           win' = Synced(Focused(win, s), work', ctl')
    PROVE  WindowInv'
<1>0. /\ win \in Frames /\ work \in Works /\ win.open /\ win.section = s
      /\ ErrorFits(win, work, unsure) /\ Acts
  BY DEF WindowInv, WindowHolds, AtControl
<1> DEFINE w == Focused(win, s)
<1>1. w \in Frames /\ w.section = s /\ w.shown = win.shown /\ PlaceFits(w)
  BY <1>0, ControlFits
<1>2. w.shown = None
  BY <1>0, <1>1, SectionNames DEF ErrorFits, Frames
<1>3. ErrorFits(w, work', unsure)
  BY <1>1, <1>2, SectionNames DEF ErrorFits, ShownIn
<1> HIDE DEF w
<1>4. win' \in Frames /\ FocusFits(win') /\ ErrorFits(win', work', unsure) /\ SaveFits(win', work', ctl', unsure)
  BY <1>1, <1>3, SyncedFits DEF w
<1>5. posts' \in Seq(Posts)
  BY DEF WindowInv, CountsHold
<1> QED BY <1>0, <1>4, <1>5, GestureHolds

LEMMA ListKeeps ==
    ASSUME WindowInv, NEW apps \in SUBSET Apps, EditBlacklist(apps)
    PROVE  WindowInv'
<1>0. /\ win \in Frames /\ work \in Works /\ ctl \in LegacyConfigs /\ "Blacklist" \in Sections \ {"General", "Feedback"}
  BY SectionNames DEF WindowInv, WindowHolds
<1>1. AtControl("Blacklist") /\ UNCHANGED <<HostState, posts>>
  BY DEF EditBlacklist
<1>2. CASE apps = work.cur.black
  <2>1. win' = Focused(win, "Blacklist") /\ UNCHANGED <<ctl, work>> /\ win.open /\ win.section = "Blacklist" /\ Acts
    BY <1>1, <1>2 DEF EditBlacklist, AtControl
  <2>2. SaveFits(win, work, ctl, unsure) /\ ErrorFits(win, work, unsure)
    BY <2>1 DEF WindowInv, WindowHolds
  <2>3. /\ win' \in Frames /\ win'.section = win.section /\ win'.canSave = win.canSave
        /\ win'.shown = win.shown /\ FocusFits(win')
    BY <1>0, <2>1, ControlFits
  <2>4. SaveFits(win', work', ctl', unsure) /\ ErrorFits(win', work', unsure)
    BY <2>1, <2>2, <2>3 DEF SaveFits, ErrorFits
  <2>5. posts' \in Seq(Posts)
    BY <1>1 DEF WindowInv, CountsHold
  <2> QED BY <1>0, <1>1, <2>1, <2>3, <2>4, <2>5, GestureHolds
<1>3. CASE apps # work.cur.black
  <2>1. /\ work' = SetCurrent(work, [work.cur EXCEPT !.black = apps]) /\ ctl' = [ctl EXCEPT !.black = apps]
        /\ win' = Synced(Focused(win, "Blacklist"), work', ctl')
    BY <1>3 DEF EditBlacklist
  <2>2. work.cur \in LegacyConfigs
    BY <1>0 DEF Works
  <2>3. [work.cur EXCEPT !.black = apps] \in LegacyConfigs /\ ctl' \in LegacyConfigs
    BY <1>0, <2>1, <2>2, ConfigChanges
  <2>4. work' \in Works /\ work'.orig = work.orig /\ work'.err = None
    BY <1>0, <2>1, <2>3, DraftTypes
  <2> QED BY <1>0, <1>1, <2>1, <2>3, <2>4, EditKeeps
<1> QED BY <1>2, <1>3

LEMMA BlacklistKeeps ==
    ASSUME WindowInv, \/ \E a \in Apps : AddEntry(a) \/ RemoveEntry(a)
                      \/ ClearEntries \/ MergeRecommended
    PROVE  WindowInv'
<1>1. work.cur.black \subseteq Apps /\ ctl.modifier \in Modifiers
  BY DEF WindowInv, WindowHolds, Works, LegacyConfigs
<1>2. Recommended[ctl.modifier] \subseteq Apps
  BY <1>1, WindowAssumption
<1>3. ASSUME NEW a \in Apps, AddEntry(a) \/ RemoveEntry(a) PROVE WindowInv'
  <2>1. work.cur.black \cup {a} \in SUBSET Apps /\ work.cur.black \ {a} \in SUBSET Apps
    BY <1>1
  <2> QED BY <1>3, <2>1, ListKeeps DEF AddEntry, RemoveEntry
<1>4. CASE ClearEntries
  BY <1>4, ListKeeps DEF ClearEntries
<1>5. CASE MergeRecommended
  <2>1. work.cur.black \cup Recommended[ctl.modifier] \in SUBSET Apps
    BY <1>1, <1>2
  <2> QED BY <1>5, <2>1, ListKeeps DEF MergeRecommended
<1> QED BY <1>3, <1>4, <1>5

LEMMA PicksKeep ==
    ASSUME WindowInv, (\E m \in Modifiers : PickModifier(m)) \/ (\E v \in ComboLooks : PickLook(v))
    PROVE  WindowInv'
<1>0. /\ work \in Works /\ ctl \in LegacyConfigs /\ work.cur \in LegacyConfigs
      /\ "Hotkeys" \in Sections \ {"General", "Feedback"} /\ "Appearance" \in Sections \ {"General", "Feedback"}
  BY SectionNames DEF WindowInv, WindowHolds, Works
<1>1. ASSUME NEW m \in Modifiers, PickModifier(m) PROVE WindowInv'
  <2>1. /\ AtControl("Hotkeys") /\ ctl' = [ctl EXCEPT !.modifier = m] /\ work' = work
        /\ win' = Synced(Focused(win, "Hotkeys"), work', ctl') /\ UNCHANGED <<HostState, posts>>
    BY <1>1 DEF PickModifier
  <2>2. ctl' \in LegacyConfigs
    BY <1>0, <2>1, ConfigChanges
  <2> QED BY <1>0, <2>1, <2>2, EditKeeps
<1>2. ASSUME NEW v \in ComboLooks, PickLook(v) PROVE WindowInv'
  <2>1. /\ AtControl("Appearance") /\ ctl' = [ctl EXCEPT !.look = v]
        /\ work' = SetCurrent(work, [work.cur EXCEPT !.look = v])
        /\ win' = Synced(Focused(win, "Appearance"), work', ctl') /\ UNCHANGED <<HostState, posts>>
    BY <1>2 DEF PickLook
  <2>2. [work.cur EXCEPT !.look = v] \in LegacyConfigs /\ ctl' \in LegacyConfigs
    BY <1>0, <2>1, ConfigChanges DEF ComboLooks, LookModes
  <2>3. work' \in Works /\ work'.orig = work.orig /\ work'.err = None
    BY <1>0, <2>1, <2>2, DraftTypes
  <2> QED BY <1>0, <2>1, <2>2, <2>3, EditKeeps
<1> QED BY <1>1, <1>2

LEMMA NavigationKeeps ==
    ASSUME WindowInv, \/ \E s \in Sections : Click(s)
                      \/ Arrow
                      \/ \E step \in {1, 4} : Tab(step)
                      \/ Close
                      \/ \E p \in Posts : Press(p)
    PROVE  WindowInv'
<1>0. /\ win \in Frames /\ work \in Works /\ ctl \in LegacyConfigs /\ posts \in Seq(Posts) /\ win.section \in Sections
      /\ win.open => SaveFits(win, work, ctl, unsure) /\ ErrorFits(win, work, unsure) /\ FocusFits(win)
  BY DEF WindowInv, WindowHolds, CountsHold, Frames
<1>a. ASSUME win.open, Acts, UNCHANGED <<HostState, work, ctl>>, posts' \in Seq(Posts), win' \in Frames, FocusFits(win'),
             win'.canSave = win.canSave, ErrorFits(win', work, unsure)
      PROVE  WindowInv'
  <2>1. SaveFits(win', work', ctl', unsure) /\ ErrorFits(win', work', unsure)
    BY <1>0, <1>a DEF SaveFits
  <2> QED BY <1>0, <1>a, <2>1, GestureHolds
<1>b. ASSUME win.open, NEW f \in Stops \ Sections, f = "save" => win.canSave,
             NEW w \in Frames, ErrorFits(w, work, unsure), w.canSave = win.canSave
      PROVE  /\ [w EXCEPT !.focus = f] \in Frames /\ FocusFits([w EXCEPT !.focus = f])
             /\ ErrorFits([w EXCEPT !.focus = f], work, unsure) /\ [w EXCEPT !.focus = f].canSave = win.canSave
  <2>1. /\ [w EXCEPT !.focus = f] \in Frames /\ [w EXCEPT !.focus = f].focus = f
        /\ [w EXCEPT !.focus = f].canSave = w.canSave /\ [w EXCEPT !.focus = f].shown = w.shown
        /\ [w EXCEPT !.focus = f].section = w.section
    BY DEF Frames
  <2> QED BY <1>b, <2>1 DEF FocusFits, ErrorFits
<1>1. ASSUME NEW s \in Sections, Click(s) PROVE WindowInv'
  <2>1. /\ win.open /\ Acts /\ win' = [Selected(win, work, s) EXCEPT !.focus = "rail"]
        /\ UNCHANGED <<HostState, work, ctl, posts>>
    BY <1>1 DEF Click
  <2>2. /\ Selected(win, work, s) \in Frames /\ ErrorFits(Selected(win, work, s), work, unsure)
        /\ Selected(win, work, s).canSave = win.canSave
    BY <1>0, <2>1, SelectedFits
  <2>3. "rail" \in Stops \ Sections
    BY SectionNames DEF Stops
  <2> QED BY <1>0, <1>a, <1>b, <2>1, <2>2, <2>3
<1>2. CASE Arrow
  <2>1. PICK s \in Sections : win' = Selected(win, work, s)
    BY <1>0, <1>2, ArrowStays DEF Arrow
  <2>2. win.open /\ Acts /\ UNCHANGED <<HostState, work, ctl, posts>>
    BY <1>2 DEF Arrow
  <2>3. win' \in Frames /\ win'.canSave = win.canSave /\ FocusFits(win') /\ ErrorFits(win', work, unsure)
    BY <1>0, <2>1, <2>2, SelectedFits
  <2> QED BY <1>0, <1>a, <2>2, <2>3
<1>3. ASSUME NEW step \in {1, 4}, Tab(step) PROVE WindowInv'
  <2> DEFINE cycle == TabCycle(win.section)
             here == CHOOSE i \in 1 .. 5 : cycle[i] = win.focus
             to == IF here = 1 THEN cycle[2] ELSE cycle[((here + step - 1) % 5) + 1]
  <2>1. /\ win.open /\ Acts /\ UNCHANGED <<HostState, work, ctl, posts>> /\ win.focus # "none"
        /\ win' = [win EXCEPT !.focus = IF to = "save" /\ ~win.canSave THEN @ ELSE to]
    BY <1>3, Zenon DEF Tab
  <2>2. here \in 1..5
    <3>1. win.focus \in {"rail", win.section, "cancel", "save", "close"}
      BY <1>0, <2>1 DEF FocusFits, Frames, Stops
    <3>2. \E i \in 1..5 : cycle[i] = win.focus
      <4>1. /\ 1 \in 1..5 /\ 2 \in 1..5 /\ 3 \in 1..5 /\ 4 \in 1..5 /\ 5 \in 1..5
            /\ cycle[1] = "rail" /\ cycle[2] = win.section /\ cycle[3] = "cancel" /\ cycle[4] = "save" /\ cycle[5] = "close"
        BY DEF TabCycle
      <4> HIDE DEF cycle
      <4> QED BY <3>1, <4>1
    <3> HIDE DEF cycle
    <3> QED BY <3>2
  <2>3. \A i \in 1..5 : cycle[i] \in {"rail", win.section, "cancel", "save", "close"}
    BY DEF TabCycle
  <2>4. to \in {"rail", win.section, "cancel", "save", "close"}
    <3> HIDE DEF cycle, here
    <3>1. ((here + step - 1) % 5) + 1 \in 1..5 /\ 2 \in 1..5
      BY <2>2
    <3> QED BY <2>3, <3>1
  <2> HIDE DEF to
  <2> DEFINE f == IF to = "save" /\ ~win.canSave THEN win.focus ELSE to
  <2>5. f = win.focus \/ (f \in {"rail", win.section, "cancel", "save", "close"} /\ (f = "save" => win.canSave))
    BY <2>4
  <2>6. win' = [win EXCEPT !.focus = f]
    BY <2>1
  <2> HIDE DEF f
  <2>7. f \in Stops /\ (f \in Sections => f = win.section) /\ (f = "save" => win.canSave)
    BY <1>0, <2>1, <2>5, SectionNames DEF FocusFits, Frames, Stops
  <2>8. /\ win' \in Frames /\ win'.focus = f /\ win'.canSave = win.canSave
        /\ win'.shown = win.shown /\ win'.section = win.section
    BY <1>0, <2>6, <2>7 DEF Frames
  <2>9. FocusFits(win') /\ ErrorFits(win', work, unsure)
    BY <1>0, <2>1, <2>7, <2>8 DEF FocusFits, ErrorFits
  <2> QED BY <1>0, <1>a, <2>1, <2>8, <2>9, Zenon
<1>4. CASE Close
  <2>1. Acts /\ win' = Hidden(win) /\ UNCHANGED <<HostState, work, ctl, posts>>
    BY <1>4 DEF Close
  <2>2. win' \in Frames /\ ~win'.open
    BY <1>0, <2>1 DEF Hidden, Frames, Stops
  <2>3. WindowHolds'
    BY <1>0, <2>1, <2>2 DEF WindowHolds
  <2> QED BY <2>1, <2>3, WindowAssumption DEF WindowInv, HostHolds, CountsHold, Acts, HostState
<1>5. ASSUME NEW p \in Posts, Press(p) PROVE WindowInv'
  <2> DEFINE f == IF p = "apply" THEN "save" ELSE "cancel"
  <2>1. /\ win.open /\ Acts /\ (f = "save" => win.canSave) /\ posts' = Append(posts, p)
        /\ win' = [win EXCEPT !.focus = f] /\ UNCHANGED <<HostState, work, ctl>>
    BY <1>5 DEF Press
  <2>2. f \in Stops \ Sections /\ posts' \in Seq(Posts)
    BY <1>0, <2>1, SectionNames DEF Stops
  <2> HIDE DEF f
  <2> QED BY <1>0, <1>a, <1>b, <2>1, <2>2
<1> QED BY <1>1, <1>2, <1>3, <1>4, <1>5


-----------------------------------------------------------------------------
\* The host puts a draft of its own configuration, or of the user's, into the window.
LEMMA ShowsDraft ==
    ASSUME NEW w \in Frames, PlaceFits(w), NEW d \in Works, NEW c \in LegacyConfigs
    PROVE  LET g == WithErrors(Synced(w, d, c), d)
           IN  /\ g \in Frames /\ g.open = w.open
               /\ \A u : SaveFits(g, d, c, u) /\ ErrorFits(g, d, u)
               /\ FocusFits(g)
<1> DEFINE v == Synced(w, d, c)
<1>1. v \in Frames /\ v.open = w.open /\ FocusFits(v) /\ \A u : SaveFits(v, d, c, u)
  BY SyncedFits
<1> HIDE DEF v
<1>2. /\ WithErrors(v, d) \in Frames /\ WithErrors(v, d).open = v.open /\ WithErrors(v, d).section = v.section
      /\ WithErrors(v, d).focus = v.focus /\ WithErrors(v, d).canSave = v.canSave
      /\ \A u : ErrorFits(WithErrors(v, d), d, u)
  BY <1>1, ErrorsFit
<1>3. FocusFits(WithErrors(v, d)) /\ \A u : SaveFits(WithErrors(v, d), d, c, u)
  BY <1>1, <1>2 DEF FocusFits, SaveFits
<1> QED BY <1>1, <1>2, <1>3 DEF v

LEMMA ShowKeeps ==
    ASSUME WindowInv, config' = config, Show, Acts, UNCHANGED <<disk, touched, listener, posts, failures>>
    PROVE  WindowInv'
<1>0. config \in LegacyConfigs
  BY DEF WindowInv, HostHolds
<1>1. /\ work' = Fresh(config) /\ ctl' = Populated(Fresh(config).cur) /\ unsure' = FALSE
      /\ win' = [open |-> TRUE, section |-> "General", focus |-> "General",
                 canSave |-> Unsaved(work', ctl'), shown |-> None]
  BY DEF Show
<1>2. /\ work' \in Works /\ work'.orig = config /\ work'.cur = config /\ work'.err = None
      /\ ctl' \in LegacyConfigs
  BY <1>0, <1>1, FreshTypes, PopulatedTypes
<1>4. Unsaved(work', ctl') \in BOOLEAN
  BY Zenon DEF Unsaved, IsDirty
<1>3. win' \in Frames
  BY <1>1, <1>4, SectionNames DEF Frames, Stops
<1>5. SaveFits(win', work', ctl', unsure') /\ ErrorFits(win', work', unsure') /\ FocusFits(win')
  <2>1. ShownIn("General", work') = None
    BY <1>2 DEF ShownIn
  <2>2. win'.open /\ (win'.canSave <=> Unsaved(work', ctl')) /\ win'.shown = None /\ win'.section = "General"
        /\ win'.focus = "General"
    BY <1>1, <1>4
  <2>3. SaveFits(win', work', ctl', unsure')
    BY <2>2, Zenon DEF SaveFits
  <2> QED BY <2>1, <2>2, <2>3, SectionNames DEF ErrorFits, FocusFits
<1>6. WindowHolds'
  BY <1>0, <1>2, <1>3, <1>5 DEF WindowHolds
<1>7. HostHolds'
  BY <1>1 DEF WindowInv, HostHolds
<1>8. CountsHold'
  BY WindowAssumption DEF WindowInv, CountsHold, Acts
<1> QED BY <1>6, <1>7, <1>8 DEF WindowInv

LEMMA ReloadKeeps ==
    ASSUME WindowInv, NEW force \in BOOLEAN, Reload(force), UNCHANGED <<disk, posts, failures>>,
           UNCHANGED gestures \/ Acts
    PROVE  WindowInv'
<1>0. /\ win \in Frames /\ work \in Works /\ ctl \in LegacyConfigs /\ work.cur \in LegacyConfigs /\ disk \in LegacyConfigs
      /\ win.open => FocusFits(win)
  BY DEF WindowInv, WindowHolds, HostHolds, Works
<1>1. CountsHold'
  BY WindowAssumption DEF WindowInv, CountsHold, Acts
<1>2. CASE ~(touched \/ force)
  <2>1. UNCHANGED <<touched, config, listener, work, ctl, win, unsure, owned>>
    BY <1>2 DEF Reload
  <2> QED BY <1>1, <2>1 DEF WindowInv, WindowHolds, HostHolds
<1>3. CASE touched \/ force
  <2>1. /\ touched' = FALSE /\ config' = disk /\ listener' = disk.modifier
        /\ IF win.open THEN Adopt(disk) ELSE UNCHANGED <<work, ctl, win, unsure, owned>>
    BY <1>3 DEF Reload
  <2>2. CASE ~win.open
    <3>1. UNCHANGED <<work, ctl, win, unsure>>
      BY <2>1, <2>2
    <3> QED BY <1>1, <2>1, <2>2, <3>1 DEF WindowInv, WindowHolds, HostHolds
  <2>3. CASE win.open
    <3> DEFINE d == Replaced(work, disk)
    <3>1. /\ work' = d /\ ctl' = (IF IsDirty(d) THEN ctl ELSE Populated(d.cur)) /\ unsure' = FALSE
          /\ win' = WithErrors(Synced(win, d, ctl'), d)
      BY <2>1, <2>3 DEF Adopt
    <3>2. d \in Works /\ d.orig = disk /\ d.cur = work.cur
      BY <1>0, DraftTypes
    <3>3. ctl' \in LegacyConfigs
      BY <1>0, <3>1, <3>2, PopulatedTypes
    <3> HIDE DEF d
    <3>4. PlaceFits(win)
      BY <1>0, <2>3 DEF FocusFits, PlaceFits
    <3>5. /\ win' \in Frames /\ FocusFits(win')
          /\ \A u : SaveFits(win', d, ctl', u) /\ ErrorFits(win', d, u)
      BY <1>0, <3>1, <3>2, <3>3, <3>4, ShowsDraft
    <3>6. WindowHolds'
      BY <2>1, <3>1, <3>2, <3>3, <3>5 DEF WindowHolds
    <3>7. HostHolds'
      BY <2>1, <3>1 DEF WindowInv, HostHolds
    <3> QED BY <1>1, <3>6, <3>7 DEF WindowInv
  <2> QED BY <2>2, <2>3
<1> QED BY <1>2, <1>3

\* Apply, of valid and of invalid controls.
LEMMA ApplyKeeps ==
    ASSUME WindowInv, HandleApply, posts' \in Seq(Posts), UNCHANGED gestures
    PROVE  WindowInv'
<1> DEFINE c == Overlaid(work, ctl)
           d == SetCurrent(work, c)
<1>0. /\ win \in Frames /\ work \in Works /\ ctl \in LegacyConfigs /\ c \in LegacyConfigs
      /\ win.open => /\ SaveFits(win, work, ctl, unsure) /\ ErrorFits(win, work, unsure) /\ FocusFits(win)
                     /\ work.orig = config
      /\ config \in LegacyConfigs /\ Invalid(config) = None
  BY OverlaidTypes DEF WindowInv, WindowHolds, HostHolds
<1>1. d \in Works /\ d.orig = work.orig /\ d.cur = c /\ d.err = None
  BY <1>0, DraftTypes
<1>2. c.rest = work.cur.rest /\ [ctl EXCEPT !.rest = c.rest] = c
  BY <1>0 DEF Overlaid, LegacyConfigs
\* Reading the controls leaves only what the baseline differs from.
<1>3. ASSUME NEW b, b = [d EXCEPT !.err = Invalid(c)] \/ b = d
      PROVE  /\ b \in Works /\ b.orig = work.orig /\ b.cur = c
             /\ Unsaved(b, ctl) <=> work.orig # c
             /\ Unsaved(b, ctl) => Unsaved(work, ctl)
  <2>1. b \in Works /\ b.orig = work.orig /\ b.cur = c
    BY <1>0, <1>1, <1>3, InvalidNames DEF Works
  <2>2. Overlaid(b, ctl) = c
    BY <1>2, <2>1 DEF Overlaid
  <2>3. Unsaved(b, ctl) <=> work.orig # c
    BY <2>1, <2>2 DEF Unsaved, IsDirty
  <2>4. work.orig # c => Unsaved(work, ctl)
    BY DEF Unsaved, IsDirty
  <2> QED BY <2>1, <2>3, <2>4
<1>c. failures' \in 0..MaxFailures => CountsHold'
  BY DEF WindowInv, CountsHold
<1>d. failures \in 0..MaxFailures
  BY DEF WindowInv, CountsHold
<1>4. CASE /\ Invalid(c) # None
           /\ work' = [d EXCEPT !.err = Invalid(c)]
           /\ win' = FocusValidationField(WithErrors(win, [d EXCEPT !.err = Invalid(c)]), [d EXCEPT !.err = Invalid(c)], Invalid(c))
           /\ UNCHANGED <<disk, touched, config, listener, ctl, failures, unsure>>
  <2> DEFINE r == [d EXCEPT !.err = Invalid(c)]
             f == Invalid(c)
             w == WithErrors(win, r)
             at == Selected(w, r, SectionOf[f])
  <2>0. f \in Errors /\ SectionOf[f] \in Sections
    BY <1>0, <1>4, InvalidNames, SectionNames
  <2>1. /\ r \in Works /\ r.orig = work.orig /\ (Unsaved(r, ctl) <=> work.orig # c)
        /\ Unsaved(r, ctl) => Unsaved(work, ctl)
    BY <1>3
  <2>2. work' = r /\ win' = IF at.open THEN [at EXCEPT !.focus = SectionOf[f]] ELSE at
    BY <1>4 DEF FocusValidationField
  <2> HIDE DEF r, f
  <2>3. /\ w \in Frames /\ w.open = win.open /\ w.section = win.section /\ w.focus = win.focus
        /\ w.canSave = win.canSave /\ \A u : ErrorFits(w, r, u)
    BY <1>0, <2>1, ErrorsFit
  <2> HIDE DEF w
  <2>4. /\ at \in Frames /\ at.open = win.open /\ at.section = SectionOf[f] /\ at.canSave = win.canSave
        /\ ErrorFits(at, r, unsure)
    BY <2>0, <2>1, <2>3, SelectedFits
  <2> HIDE DEF at
  <2>5. CASE ~win.open
    <3>1. win' \in Frames /\ ~win'.open
      BY <2>2, <2>4, <2>5
    <3> QED BY <1>0, <1>4, <1>c, <1>d, <2>1, <2>2, <3>1 DEF WindowInv, WindowHolds, HostHolds
  <2>6. CASE win.open
    <3> DEFINE s == SectionOf[f]
    <3>1. win' = [at EXCEPT !.focus = s] /\ s \in Stops
      BY <2>0, <2>2, <2>4, <2>6 DEF Stops
    <3>2. /\ win' \in Frames /\ win'.focus = s /\ win'.section = s /\ win'.canSave = win.canSave
          /\ win'.shown = at.shown
      BY <2>4, <3>1 DEF Frames
    <3>3. FocusFits(win')
      BY <2>0, <3>2, SectionNames DEF FocusFits
    <3>4. ErrorFits(win', r, unsure)
      BY <2>4, <3>2 DEF ErrorFits
    <3>5. work.orig # c
      BY <1>0, <1>4, <2>6
    <3>6. SaveFits(win', r, ctl, unsure)
      BY <1>0, <2>1, <2>6, <3>2, <3>5 DEF SaveFits
    <3>7. WindowHolds'
      BY <1>0, <1>4, <2>1, <2>2, <2>6, <3>2, <3>3, <3>4, <3>6 DEF WindowHolds
    <3> QED BY <1>4, <1>c, <1>d, <3>7 DEF WindowInv, HostHolds
  <2> QED BY <2>5, <2>6
<1>5. CASE /\ Invalid(c) = None /\ failures < MaxFailures
           /\ failures' = failures + 1 /\ unsure' = TRUE
           /\ work' = d
           /\ UNCHANGED <<disk, touched, config, listener, ctl, win>>
  <2>1. d \in Works /\ d.orig = work.orig /\ (Unsaved(d, ctl) => Unsaved(work, ctl))
    BY <1>1, <1>3
  <2>2. failures' \in 0..MaxFailures
    BY <1>5, <1>d, WindowAssumption
  <2>3. win.open => SaveFits(win, d, ctl, TRUE) /\ ErrorFits(win, d, TRUE)
    <3>1. ShownIn(win.section, d) = None
      BY <1>1 DEF ShownIn
    <3> QED BY <1>0, <2>1, <3>1 DEF SaveFits, ErrorFits
  <2>4. WindowHolds'
    BY <1>0, <1>5, <2>1, <2>3 DEF WindowHolds
  <2> QED BY <1>5, <1>c, <2>2, <2>4 DEF WindowInv, HostHolds
<1>6. CASE /\ Invalid(c) = None
           /\ disk' = c /\ touched' = FALSE /\ config' = c /\ listener' = c.modifier
           /\ work' = Fresh(c) /\ ctl' = Populated(c)
           /\ win' = WithErrors(Synced(win, Fresh(c), ctl'), Fresh(c))
           /\ unsure' = FALSE
           /\ UNCHANGED failures
  <2>1. Fresh(c) \in Works /\ Fresh(c).orig = c /\ ctl' \in LegacyConfigs
    BY <1>0, <1>6, FreshTypes, PopulatedTypes
  <2>2. HostHolds'
    BY <1>0, <1>6 DEF HostHolds
  <2> HIDE DEF c
  <2>3. CASE win.open
    <3>1. PlaceFits(win)
      BY <1>0, <2>3 DEF FocusFits, PlaceFits
    <3>2. /\ win' \in Frames /\ FocusFits(win')
          /\ \A u : SaveFits(win', Fresh(c), ctl', u) /\ ErrorFits(win', Fresh(c), u)
      BY <1>0, <1>6, <2>1, <3>1, ShowsDraft
    <3>3. WindowHolds'
      BY <1>0, <1>6, <2>1, <3>2 DEF WindowHolds
    <3> QED BY <1>6, <1>c, <1>d, <2>2, <3>3 DEF WindowInv
  <2>4. CASE ~win.open
    <3>1. win' \in Frames /\ win'.open = win.open
      BY <1>0, <1>6, <2>1, SyncedFits, ErrorsFit
    <3>2. WindowHolds'
      BY <1>0, <1>6, <2>1, <2>4, <3>1 DEF WindowHolds
    <3> QED BY <1>6, <1>c, <1>d, <2>2, <3>2 DEF WindowInv
  <2> QED BY <2>3, <2>4
<1> QED BY <1>4, <1>5, <1>6 DEF HandleApply

LEMMA ResetKeeps ==
    ASSUME WindowInv, NEW hide \in BOOLEAN, HandleReset(hide), posts' \in Seq(Posts), UNCHANGED gestures
    PROVE  WindowInv'
<1> DEFINE d == Fresh(work.orig)
           n == Populated(d.cur)
           w == WithErrors(Synced(win, d, n), d)
<1>0. /\ win \in Frames /\ work \in Works /\ work.orig \in LegacyConfigs
      /\ win.open => FocusFits(win) /\ work.orig = config
  BY DEF WindowInv, WindowHolds, Works
<1>1. /\ work' = d /\ ctl' = n /\ win' = (IF hide THEN Hidden(w) ELSE w) /\ unsure' = FALSE
      /\ UNCHANGED <<disk, touched, config, listener, failures>>
  BY DEF HandleReset
<1>2. d \in Works /\ d.orig = work.orig /\ d.cur = work.orig /\ n \in LegacyConfigs
  BY <1>0, FreshTypes, PopulatedTypes
<1> HIDE DEF d, n
<1>3. w \in Frames /\ w.open = win.open
  BY <1>0, <1>2, SyncedFits, ErrorsFit
<1>4. win.open => FocusFits(w) /\ SaveFits(w, d, n, FALSE) /\ ErrorFits(w, d, FALSE)
  <2>1. win.open => PlaceFits(win)
    BY <1>0 DEF FocusFits, PlaceFits
  <2> QED BY <1>0, <1>2, <2>1, ShowsDraft
<1> HIDE DEF w
<1>5. HostHolds' /\ CountsHold'
  BY <1>1 DEF WindowInv, HostHolds, CountsHold
<1>6. CASE hide
  <2>1. win' \in Frames /\ ~win'.open
    BY <1>1, <1>3, <1>6 DEF Hidden, Frames, Stops
  <2>2. WindowHolds'
    BY <1>0, <1>1, <1>2, <2>1 DEF WindowHolds
  <2> QED BY <1>5, <2>2 DEF WindowInv
<1>7. CASE ~hide
  <2>1. win' = w
    BY <1>1, <1>7
  <2>2. WindowHolds'
    BY <1>0, <1>1, <1>2, <1>3, <1>4, <2>1 DEF WindowHolds
  <2> QED BY <1>5, <2>2 DEF WindowInv
<1> QED BY <1>6, <1>7

LEMMA PostKeeps == ASSUME WindowInv, HandlePost PROVE WindowInv'
<1>1. posts \in Seq(Posts) /\ posts # <<>>
  BY DEF WindowInv, CountsHold, HandlePost
<1>2. Head(posts) \in Posts /\ Tail(posts) \in Seq(Posts)
  BY <1>1
<1>3. posts' \in Seq(Posts) /\ UNCHANGED gestures
  BY <1>2 DEF HandlePost
<1>4. HandleApply \/ HandleReset(FALSE) \/ HandleReset(TRUE)
  BY <1>2 DEF HandlePost, Posts
<1> QED BY <1>3, <1>4, ApplyKeeps, ResetKeeps

LEMMA EditDiskKeeps == ASSUME WindowInv, EditDisk PROVE WindowInv'
<1>0. disk \in LegacyConfigs
  BY DEF WindowInv, HostHolds
<1>a. PICK f \in DOMAIN Domain : \E v \in Domain[f] : disk' = [disk EXCEPT ![f] = v]
  BY DEF EditDisk
<1>1. PICK v \in Domain[f] : disk' = [disk EXCEPT ![f] = v]
  BY <1>a
<1>2. f \in {"step", "large", "freq", "look", "modifier", "black", "rest"}
  BY DEF Domain
<1>3. disk' \in LegacyConfigs
  <2>1. CASE f = "step"
    BY <1>0, <1>1, <2>1, ConfigChanges DEF Domain
  <2>2. CASE f = "large"
    BY <1>0, <1>1, <2>2, ConfigChanges DEF Domain
  <2>3. CASE f = "freq"
    BY <1>0, <1>1, <2>3, ConfigChanges DEF Domain
  <2>4. CASE f = "look"
    BY <1>0, <1>1, <2>4, ConfigChanges DEF Domain
  <2>5. CASE f = "modifier"
    BY <1>0, <1>1, <2>5, ConfigChanges DEF Domain
  <2>6. CASE f = "black"
    BY <1>0, <1>1, <2>6, ConfigChanges DEF Domain
  <2>7. CASE f = "rest"
    BY <1>0, <1>1, <2>7, ConfigChanges DEF Domain
  <2> QED BY <1>2, <2>1, <2>2, <2>3, <2>4, <2>5, <2>6, <2>7
<1>4. /\ Invalid(disk') = None /\ touched' = TRUE /\ Acts
      /\ UNCHANGED <<config, listener, work, ctl, win, posts, failures, unsure>>
  BY DEF EditDisk
<1>5. WindowHolds'
  BY <1>4 DEF WindowInv, WindowHolds
<1>6. HostHolds'
  BY <1>3, <1>4 DEF WindowInv, HostHolds
<1>7. CountsHold'
  BY <1>4, WindowAssumption DEF WindowInv, CountsHold, Acts
<1> QED BY <1>5, <1>6, <1>7 DEF WindowInv

LEMMA WindowStep == ASSUME WindowInv, [LegacyNext]_legacy PROVE WindowInv'
<1>1. CASE UNCHANGED legacy
  BY <1>1 DEF legacy, WindowInv, WindowHolds, HostHolds, CountsHold
<1>2. CASE LegacyGesture
  BY <1>2, TypeKeeps, PicksKeep, BlacklistKeeps, NavigationKeeps DEF LegacyGesture
<1>3. CASE Poll \/ TrayReload
  BY <1>3, ReloadKeeps DEF Poll, TrayReload
<1>4. CASE TraySettings
  <2>1. CASE win.open
    <3>1. /\ win' = Hidden(win) /\ Acts
          /\ UNCHANGED <<work, ctl, unsure, config, disk, touched, listener, posts, failures>>
      BY <1>4, <2>1 DEF TraySettings
    <3>2. win' \in Frames /\ ~win'.open
      BY <3>1 DEF WindowInv, WindowHolds, Hidden, Frames, Stops
    <3>3. WindowHolds'
      BY <3>1, <3>2 DEF WindowInv, WindowHolds
    <3> QED BY <3>1, <3>3, WindowAssumption DEF WindowInv, HostHolds, CountsHold, Acts
  <2>2. CASE ~win.open
    BY <1>4, <2>2, ShowKeeps DEF TraySettings
  <2> QED BY <2>1, <2>2
<1>5. CASE HelpSettings
  BY <1>5, ShowKeeps DEF HelpSettings
<1>6. CASE HandlePost \/ EditDisk
  BY <1>6, PostKeeps, EditDiskKeeps
<1> QED BY <1>1, <1>2, <1>3, <1>4, <1>5, <1>6 DEF LegacyNext

LEMMA WindowStarts == ASSUME LegacyInit PROVE WindowInv
<1>1. disk \in LegacyConfigs /\ Invalid(disk) = None
  BY DisksAssumption DEF LegacyInit
<1>2. work \in Works /\ ctl \in LegacyConfigs
  BY <1>1, FreshTypes, PopulatedTypes DEF LegacyInit
<1>3. win \in Frames /\ ~win.open
  BY SectionNames DEF LegacyInit, Frames, Stops
<1>4. WindowHolds /\ HostHolds
  BY <1>1, <1>2, <1>3 DEF WindowHolds, HostHolds, LegacyInit
<1> QED BY <1>4, WindowAssumption DEF WindowInv, CountsHold, LegacyInit

\* What the window would write to a field: where neither the user nor a reload of a dirty draft
\* has been, the baseline's value, or what the controls make of it.
WindowFields == {"step", "large", "freq", "look", "modifier", "black", "rest"}
ReadAs(c, f) == IF f = "look" THEN ReadsAs(c.look) ELSE c[f]
FieldLeft(d, c, f) == /\ d.cur[f] = d.orig[f] \/ d.cur[f] = ReadAs(d.orig, f)
                      /\ f # "rest" => c[f] = ReadAs(d.orig, f)
OwnedInv == owned \subseteq WindowFields /\ \A f \in WindowFields \ owned : FieldLeft(work, ctl, f)

LEMMA FieldNames == DOMAIN Domain = WindowFields /\ \A c \in LegacyConfigs : DOMAIN c = WindowFields
  BY DEF Domain, WindowFields, LegacyConfigs

\* One field set, one field asked.
LEMMA FieldSet ==
    ASSUME NEW c \in LegacyConfigs, NEW f \in WindowFields, NEW g \in WindowFields, NEW v
    PROVE  [c EXCEPT ![g] = v][f] = IF f = g THEN v ELSE c[f]
  BY FieldNames DEF LegacyConfigs

LEMMA PopulatedAt == ASSUME NEW c \in LegacyConfigs, NEW f \in WindowFields PROVE Populated(c)[f] = ReadAs(c, f)
<1>1. Populated(c) = [c EXCEPT !["look"] = ReadsAs(c.look)]
  BY DEF Populated
<1> QED BY <1>1, FieldSet DEF ReadAs, WindowFields

LEMMA OverlaidAt ==
    ASSUME NEW d, NEW c \in LegacyConfigs, NEW f \in WindowFields
    PROVE  Overlaid(d, c)[f] = IF f = "rest" THEN d.cur["rest"] ELSE c[f]
<1>1. Overlaid(d, c) = [c EXCEPT !["rest"] = d.cur.rest]
  BY DEF Overlaid
<1> QED BY <1>1, FieldSet DEF WindowFields

\* A draft that is the baseline under controls that were set from it.
LEMMA FreshIsLeft ==
    ASSUME NEW d \in Works, d.cur = d.orig, NEW f \in WindowFields
    PROVE  FieldLeft(d, Populated(d.cur), f)
<1>1. d.orig \in LegacyConfigs
  BY DEF Works
<1> QED BY <1>1, PopulatedAt DEF FieldLeft

\* An edit of one field, in the controls alone or also in the draft.
LEMMA EditIsOwned ==
    ASSUME OwnedInv, NEW g \in WindowFields, NEW v, NEW e, work \in Works, ctl \in LegacyConfigs, work' \in Works,
           owned' = owned \cup {g}, ctl' = [ctl EXCEPT ![g] = v], work'.orig = work.orig,
           work'.cur = work.cur \/ work'.cur = [work.cur EXCEPT ![g] = e]
    PROVE  OwnedInv'
<1>1. work.cur \in LegacyConfigs
  BY DEF Works
<1>2. ASSUME NEW f \in WindowFields \ owned' PROVE FieldLeft(work', ctl', f)
  <2>1. f \in WindowFields /\ f # g /\ FieldLeft(work, ctl, f)
    BY <1>2 DEF OwnedInv
  <2>2. ctl'[f] = ctl[f]
    BY <2>1, FieldSet
  <2>3. work'.cur[f] = work.cur[f]
    <3>1. [work.cur EXCEPT ![g] = e][f] = work.cur[f]
      BY <1>1, <2>1, FieldSet
    <3> QED BY <3>1
  <2> QED BY <2>1, <2>2, <2>3 DEF FieldLeft
<1> QED BY <1>2 DEF OwnedInv

LEMMA GesturesOwn == ASSUME WindowInv, OwnedInv, LegacyGesture PROVE OwnedInv'
<1>0. work \in Works /\ ctl \in LegacyConfigs /\ work.cur \in LegacyConfigs /\ work' \in Works
  BY TypeKeeps, PicksKeep, BlacklistKeeps, NavigationKeeps DEF LegacyGesture, WindowInv, WindowHolds, Works
<1>1. ASSUME NEW f \in {"step", "large", "freq"}, NEW v \in Domain[f], Type(f, v) PROVE OwnedInv'
  <2>1. /\ owned' = owned \cup {f} /\ ctl' = [ctl EXCEPT ![f] = v] /\ work' = ClearFieldError(f)
    BY <1>1 DEF Type
  <2>2. work'.orig = work.orig /\ work'.cur = work.cur
    BY <1>0, <2>1, DraftTypes DEF ClearFieldError
  <2> QED BY <1>0, <2>1, <2>2, EditIsOwned DEF WindowFields
<1>2. ASSUME NEW m \in Modifiers, PickModifier(m) PROVE OwnedInv'
  <2>1. owned' = owned \cup {"modifier"} /\ ctl' = [ctl EXCEPT !["modifier"] = m] /\ work' = work
    BY <1>2 DEF PickModifier
  <2> QED BY <1>0, <2>1, EditIsOwned DEF WindowFields
<1>3. ASSUME NEW v \in ComboLooks, PickLook(v) PROVE OwnedInv'
  <2>1. /\ owned' = owned \cup {"look"} /\ ctl' = [ctl EXCEPT !["look"] = v]
        /\ work' = SetCurrent(work, [work.cur EXCEPT !["look"] = v])
    BY <1>3 DEF PickLook
  <2>2. work'.orig = work.orig /\ work'.cur = [work.cur EXCEPT !["look"] = v]
    BY <1>0, <2>1 DEF SetCurrent, Works
  <2> QED BY <1>0, <2>1, <2>2, EditIsOwned DEF WindowFields
<1>4. ASSUME NEW apps, EditBlacklist(apps) PROVE OwnedInv'
  <2>1. CASE apps = work.cur.black
    BY <1>4, <2>1 DEF EditBlacklist, OwnedInv
  <2>2. CASE apps # work.cur.black
    <3>1. /\ owned' = owned \cup {"black"} /\ ctl' = [ctl EXCEPT !["black"] = apps]
          /\ work' = SetCurrent(work, [work.cur EXCEPT !["black"] = apps])
      BY <1>4, <2>2 DEF EditBlacklist
    <3>2. work'.orig = work.orig /\ work'.cur = [work.cur EXCEPT !["black"] = apps]
      BY <1>0, <3>1 DEF SetCurrent, Works
    <3> QED BY <1>0, <3>1, <3>2, EditIsOwned DEF WindowFields
  <2> QED BY <2>1, <2>2
<1>5. ASSUME UNCHANGED <<work, ctl, owned>> PROVE OwnedInv'
  BY <1>5 DEF OwnedInv
<1>6. ASSUME \/ \E s \in Sections : Click(s)
             \/ Arrow
             \/ \E step \in {1, 4} : Tab(step)
             \/ Close
             \/ \E p \in Posts : Press(p)
      PROVE  OwnedInv'
  BY <1>5, <1>6 DEF Click, Arrow, Tab, Close, Press
<1> QED BY <1>1, <1>2, <1>3, <1>4, <1>6 DEF LegacyGesture, AddEntry, RemoveEntry, ClearEntries, MergeRecommended

\* The host's steps set the controls from the baseline, or leave them over a draft that differs.
LEMMA HostOwns ==
    ASSUME WindowInv, WindowInv', OwnedInv,
           Poll \/ TrayReload \/ TraySettings \/ HelpSettings \/ HandlePost \/ EditDisk
    PROVE  OwnedInv'
<1>0. work \in Works /\ ctl \in LegacyConfigs /\ work' \in Works /\ disk \in LegacyConfigs /\ config \in LegacyConfigs
  BY DEF WindowInv, WindowHolds, HostHolds
<1>a. ASSUME owned' = {}, work'.cur = work'.orig, ctl' = Populated(work'.cur) PROVE OwnedInv'
  BY <1>0, <1>a, FreshIsLeft DEF OwnedInv
<1>b. ASSUME UNCHANGED <<work, ctl, owned>> PROVE OwnedInv'
  BY <1>b DEF OwnedInv
<1>c. ASSUME config' = config, Show PROVE OwnedInv'
  <2>1. owned' = {} /\ work' = Fresh(config) /\ ctl' = Populated(Fresh(config).cur)
    BY <1>c DEF Show
  <2> QED BY <1>0, <1>a, <2>1, FreshTypes
<1>1. ASSUME NEW force \in BOOLEAN, Reload(force) PROVE OwnedInv'
  <2>1. UNCHANGED <<work, ctl, owned>> \/ Adopt(disk)
    BY <1>1 DEF Reload
  <2>2. CASE Adopt(disk)
    <3> DEFINE d == Replaced(work, disk)
    <3>1. work' = d /\ d.orig = disk /\ d.cur = work.cur
      BY <1>0, <2>2, DraftTypes DEF Adopt
    <3>2. CASE IsDirty(d)
      <4>1. ctl' = ctl /\ owned' = owned \cup {f \in DOMAIN Domain : work.orig[f] # disk[f]}
        BY <2>2, <3>2 DEF Adopt
      <4> HIDE DEF d
      <4>2. ASSUME NEW f \in WindowFields \ owned' PROVE FieldLeft(work', ctl', f)
        <5>1. FieldLeft(work, ctl, f) /\ work.orig[f] = disk[f]
          BY <4>1, <4>2, FieldNames DEF OwnedInv
        <5>2. ReadAs(work.orig, f) = ReadAs(disk, f)
          BY <5>1 DEF ReadAs
        <5> QED BY <3>1, <4>1, <5>1, <5>2 DEF FieldLeft
      <4> QED BY <4>1, <4>2, FieldNames DEF OwnedInv
    <3>3. CASE ~IsDirty(d)
      <4>1. ctl' = Populated(d.cur) /\ owned' = {}
        BY <2>2, <3>3 DEF Adopt
      <4>2. d.orig = d.cur
        BY <3>3 DEF IsDirty
      <4> QED BY <1>a, <3>1, <4>1, <4>2
    <3> QED BY <3>2, <3>3
  <2> QED BY <1>b, <2>1, <2>2
<1>2. ASSUME HandleApply PROVE OwnedInv'
  <2> DEFINE c == Overlaid(work, ctl)
  <2>1. c \in LegacyConfigs
    BY <1>0, OverlaidTypes
  <2>2. CASE /\ ctl' = Populated(c) /\ owned' = {} /\ work' = Fresh(c)
    <3> HIDE DEF c
    <3> QED BY <1>a, <2>1, <2>2, FreshTypes
  <2>3. CASE /\ UNCHANGED <<ctl, owned>>
             /\ work' = [SetCurrent(work, c) EXCEPT !.err = Invalid(c)] \/ work' = SetCurrent(work, c)
    <3>1. work'.orig = work.orig /\ work'.cur = c
      BY <1>0, <2>1, <2>3 DEF SetCurrent, Works
    <3>2. ASSUME NEW f \in WindowFields \ owned PROVE FieldLeft(work', ctl', f)
      <4>1. FieldLeft(work, ctl, f)
        BY <3>2 DEF OwnedInv
      <4>2. c[f] = IF f = "rest" THEN work.cur["rest"] ELSE ctl[f]
        BY <1>0, OverlaidAt
      <4> HIDE DEF c
      <4> QED BY <2>3, <3>1, <4>1, <4>2 DEF FieldLeft
    <3> QED BY <2>3, <3>2 DEF OwnedInv
  <2> QED BY <1>2, <2>2, <2>3 DEF HandleApply
<1>3. ASSUME NEW hide \in BOOLEAN, HandleReset(hide) PROVE OwnedInv'
  <2>1. owned' = {} /\ work' = Fresh(work.orig) /\ ctl' = Populated(Fresh(work.orig).cur) /\ work.orig \in LegacyConfigs
    BY <1>0, <1>3 DEF HandleReset, Works
  <2> QED BY <1>a, <2>1, FreshTypes
<1>4. CASE HandlePost
  <2>1. posts \in Seq(Posts) /\ posts # <<>>
    BY <1>4 DEF WindowInv, CountsHold, HandlePost
  <2>2. Head(posts) \in Posts
    BY <2>1
  <2>3. HandleApply \/ HandleReset(FALSE) \/ HandleReset(TRUE)
    BY <1>4, <2>2 DEF HandlePost, Posts
  <2> QED BY <1>2, <1>3, <2>3
<1>5. CASE TraySettings
  BY <1>5, <1>b, <1>c DEF TraySettings
<1>6. CASE HelpSettings
  BY <1>6, <1>c DEF HelpSettings
<1>7. CASE EditDisk
  BY <1>7, <1>b DEF EditDisk
<1>8. CASE Poll \/ TrayReload
  BY <1>1, <1>8 DEF Poll, TrayReload
<1> QED BY <1>4, <1>5, <1>6, <1>7, <1>8

LEMMA OwnedStep == ASSUME WindowInv, OwnedInv, [LegacyNext]_legacy PROVE WindowInv' /\ OwnedInv'
<1>1. WindowInv'
  BY WindowStep
<1>2. ASSUME UNCHANGED legacy PROVE OwnedInv'
  <2>1. work' = work /\ ctl' = ctl /\ owned' = owned
    BY <1>2 DEF legacy
  <2> QED BY <2>1 DEF OwnedInv, FieldLeft
<1> QED BY <1>1, <1>2, GesturesOwn, HostOwns DEF LegacyNext

LEMMA OwnedStarts == ASSUME LegacyInit PROVE WindowInv /\ OwnedInv
<1>1. WindowInv /\ work \in Works
  BY WindowStarts DEF WindowInv, WindowHolds
<1>2. owned = {} /\ work = Fresh(disk) /\ ctl = Populated(disk) /\ disk \in LegacyConfigs
  BY DisksAssumption DEF LegacyInit
<1>3. work.cur = work.orig /\ ctl = Populated(work.cur)
  BY <1>2, FreshTypes
<1> QED BY <1>1, <1>2, <1>3, FreshIsLeft DEF OwnedInv

LEMMA OthersLeft == ASSUME WindowInv, OwnedInv PROVE OthersAreLeftAlone
<1> SUFFICES ASSUME win.open, NEW f \in WindowFields \ owned
             PROVE  \/ Overlaid(work, ctl)[f] = config[f]
                    \/ f = "look" /\ config.look \notin ComboLooks /\ ctl.look = "Auto"
  BY FieldNames DEF OthersAreLeftAlone
<1>1. work.orig = config /\ ctl \in LegacyConfigs /\ FieldLeft(work, ctl, f)
  BY DEF WindowInv, WindowHolds, OwnedInv
<1>2. Overlaid(work, ctl)[f] = IF f = "rest" THEN work.cur["rest"] ELSE ctl[f]
  BY <1>1, OverlaidAt
<1>3. CASE f # "look"
  BY <1>1, <1>2, <1>3 DEF FieldLeft, ReadAs
<1>4. CASE f = "look"
  <2>1. Overlaid(work, ctl)[f] = ReadsAs(config.look) /\ ctl.look = ReadsAs(config.look)
    BY <1>1, <1>2, <1>4 DEF FieldLeft, ReadAs
  <2> QED BY <1>4, <2>1 DEF ReadsAs
<1> QED BY <1>3, <1>4

LEMMA WindowIsHonest == ASSUME WindowInv, OwnedInv PROVE LegacyWindowIsHonest /\ LegacyTypeOK
<1>1. SaveButtonIsHonest /\ ErrorIsInSight /\ FocusIsInSight
  BY DEF WindowInv, WindowHolds, SaveFits, ErrorFits, FocusFits, SaveButtonIsHonest, ErrorIsInSight, FocusIsInSight
<1>2. BaselineIsRunning
  BY DEF WindowInv, WindowHolds, HostHolds, BaselineIsRunning
<1>3. LegacyTypeOK
  BY FieldNames DEF WindowInv, WindowHolds, HostHolds, CountsHold, LegacyTypeOK, Frames, Works, LegacyConfigs, OwnedInv
<1> QED BY <1>1, <1>2, <1>3, OthersLeft DEF LegacyWindowIsHonest, SaveIsHonest

\* The native settings window is honest (settings.rs, ui/settings.rs): Save is lit just while
\* draft and controls differ from the baseline, the error shown is the draft's and on its own
\* page (both but for what an Apply leaves that failed on the disk), the keyboard's focus is on
\* something that is there, the baseline is the config the host runs and the listener's (app.rs),
\* and that is the file until it is edited from outside.  An Apply would change only what the
\* user worked on, what a reload moved under a dirty draft, and a material that the combo box
\* does not list - however many gestures and failures.
THEOREM LegacyWindowStaysHonest == Spec => []LegacyWindowIsHonest
<1>1. Init => WindowInv /\ OwnedInv
  BY OwnedStarts DEF Init
<1>2. WindowInv /\ OwnedInv /\ [Next]_vars => (WindowInv /\ OwnedInv)'
  BY OwnedStep DEF Next, vars, legacy, OwnedInv
<1>3. WindowInv /\ OwnedInv => LegacyWindowIsHonest
  BY WindowIsHonest
<1> QED BY <1>1, <1>2, <1>3, PTL DEF Spec

-----------------------------------------------------------------------------
(* The liquid_glass surfaces.                                                *)

Panels == [tab : GlassTabs, draft : [theme : GlassThemes, step : Int], unsaved : BOOLEAN]
Confirmed == [percent : Percents, muted : BOOLEAN, hudUp : BOOLEAN, helpUp : BOOLEAN, theme : GlassThemes,
              list : SessionLists]
HudShapes == [up : BOOLEAN, percent : Percents, muted : BOOLEAN, note : BOOLEAN, age : Nat,
              limit : {HudTicks, NoteTicks}, fading : BOOLEAN]

\* The overlay: while it is up it has the volume of the host, and not more time than it should.
HudFits(h, a, u) ==
    /\ h.up /\ ~h.note /\ ~u => h.percent = a.percent /\ h.muted = a.muted
    /\ h.limit = IF h.note THEN NoteTicks ELSE HudTicks
    /\ h.up => h.age < h.limit + FadeTicks
\* The draft: an unsaved one is the user's.
PanelFits(p, a, w) ==
    /\ p.draft.theme = IF w = None THEN a.theme ELSE w
    /\ p.unsaved => w # None

GlassTypes == /\ app \in Confirmed /\ hud \in HudShapes /\ panel \in Panels
              /\ wanted \in GlassThemes \cup {None} /\ unseen \in BOOLEAN
AimHolds == sent.action \in {"toggle", "drag", "adjust"} => sent.row = sent.aimed \/ sent.stale
GlassInv == GlassTypes /\ HudFits(hud, app, unseen) /\ PanelFits(panel, app, wanted) /\ AimHolds

\* The nodes of a rail, and those of the mixer's card that are of none.
OnRail(node, kind, i, y) ==
    /\ node.id[1] = kind /\ node.id[2] = i /\ node.bounds.y = y /\ node.bounds.height = 24
    /\ node.parent = Root \/ node.parent = <<kind, i, "slider">>
OffRails(node) == node.id[1] \notin {"master", "row"} /\ node.id[3] = "" /\ node.parent = Root

LEMMA RailNodes ==
    ASSUME NEW kind, NEW i, NEW y, NEW percent, NEW mute, NEW node \in GlassRail(kind, i, y, percent, mute)
    PROVE  OnRail(node, kind, i, y)
  BY DEF GlassRail, Node, NodeId, Rect, OnRail

LEMMA MixerNodes ==
    ASSUME NEW percent, NEW mute, NEW levels, Len(levels) \in Nat, NEW node \in MixerScene(percent, mute, levels)
    PROVE  \/ OffRails(node) \/ OnRail(node, "master", 0, 12)
           \/ \E i \in 1..Len(levels) : OnRail(node, "row", i, RowY(i))
<1> DEFINE base == {RootOf(MixerWidth, MixerHeight),
                    Node(NodeId("search", 0, ""), Rect(16, 44, 368, 24), 1, Root, TRUE),
                    Node(NodeId("footer", 0, ""), Rect(16, 198, 368, 18), 1, Root, FALSE)}
           rail(i) == GlassRail("row", i, RowY(i), levels[i].percent, levels[i].muted)
           rails == {rail(i) : i \in RowsThatFit(Len(levels))}
<1>1. node \in base \/ node \in GlassRail("master", 0, 12, percent, mute) \/ node \in UNION rails
  BY DEF MixerScene
<1>2. CASE node \in base
  <2>1. OffRails(RootOf(MixerWidth, MixerHeight))
    BY DEF OffRails, RootOf, Node, NodeId, Root
  <2>2. OffRails(Node(NodeId("search", 0, ""), Rect(16, 44, 368, 24), 1, Root, TRUE))
    BY DEF OffRails, Node, NodeId
  <2>3. OffRails(Node(NodeId("footer", 0, ""), Rect(16, 198, 368, 18), 1, Root, FALSE))
    BY DEF OffRails, Node, NodeId
  <2> QED BY <1>2, <2>1, <2>2, <2>3, Zenon
<1>3. CASE node \in GlassRail("master", 0, 12, percent, mute)
  BY <1>3, RailNodes
<1>4. CASE node \in UNION rails
  <2>1. PICK list \in rails : node \in list
    BY <1>4, Zenon
  <2>2. PICK i \in RowsThatFit(Len(levels)) : list = rail(i)
    BY <2>1, Zenon
  <2>3. i \in 1..Len(levels)
    BY DEF RowsThatFit
  <2> QED BY <2>1, <2>2, <2>3, RailNodes
<1> QED BY <1>1, <1>2, <1>3, <1>4

\* A press on a part of a rail stays on that rail: whatever lies under the middle of a slider, a fill, a
\* label or a mute button and can be used is of the same rail (MixerSurface::draw, hit_test), however many
\* sessions there are.
LEMMA PressesStayOnTheirRail ==
    ASSUME NEW percent \in Percents, NEW mute \in BOOLEAN, NEW n \in Nat,
           NEW press \in Presses(SceneOf(<<percent, mute, n>>)), press[2][3] \in {"slider", "mute"}
    PROVE  press[2][1] = press[1][1] /\ press[2][2] = press[1][2]
<1> DEFINE levels == [i \in 1..n |-> [percent |-> 50, muted |-> FALSE]]
           scene == MixerScene(percent, mute, levels)
<1>1. SceneOf(<<percent, mute, n>>) = scene
  BY DEF SceneOf
<1>2. Len(levels) \in Nat
  OBVIOUS
<1>3. \A node \in scene : \/ OffRails(node) \/ OnRail(node, "master", 0, 12)
                          \/ \E i \in 1..Len(levels) : OnRail(node, "row", i, RowY(i))
  BY <1>2, MixerNodes
<1> HIDE DEF levels, scene
<1>4. PICK node \in scene, hit \in scene :
         /\ press = <<node.id, hit.id>> /\ node.id[1] \in {"master", "row"}
         /\ \E place \in Probes(node.bounds) : hit \in Hits(scene, place)
  BY <1>1 DEF Presses
<1>5. node.bounds.y + (node.bounds.height \div 2) \in hit.bounds.y..(hit.bounds.y + hit.bounds.height)
  <2>1. PICK place \in Probes(node.bounds) : hit \in Hits(scene, place)
    BY <1>4
  <2>2. place.y = node.bounds.y + (node.bounds.height \div 2)
    BY DEF Probes
  <2> QED BY <2>1, <2>2 DEF Hits, ContainsPoint
<1>8. ~OffRails(hit)
  BY <1>4 DEF OffRails
<1>9. OnRail(hit, "master", 0, 12) \/ \E j \in 1..Len(levels) : OnRail(hit, "row", j, RowY(j))
  BY <1>3, <1>8
<1>10. ~OffRails(node)
  BY <1>4 DEF OffRails
<1>11. OnRail(node, "master", 0, 12) \/ \E i \in 1..Len(levels) : OnRail(node, "row", i, RowY(i))
  BY <1>3, <1>10
<1>12. \A i \in 1..Len(levels) : RowY(i) \in Int /\ RowY(i) >= 76
  BY <1>2 DEF RowY
<1>13. \A i, j \in 1..Len(levels) : RowY(i) + 12 \in RowY(j)..(RowY(j) + 24) => i = j
  BY <1>2 DEF RowY
<1>14. hit.id[1] = node.id[1] /\ hit.id[2] = node.id[2]
  <2>1. 24 \div 2 = 12
    OBVIOUS
  <2>2. CASE OnRail(node, "master", 0, 12)
    <3>1. node.bounds.y + (node.bounds.height \div 2) = 24
      BY <2>1, <2>2 DEF OnRail
    <3>2. CASE OnRail(hit, "master", 0, 12)
      BY <2>2, <3>2 DEF OnRail
    <3>3. CASE \E j \in 1..Len(levels) : OnRail(hit, "row", j, RowY(j))
      <4>1. PICK j \in 1..Len(levels) : OnRail(hit, "row", j, RowY(j))
        BY <3>3
      <4>2. 24 \in RowY(j)..(RowY(j) + 24)
        BY <1>5, <3>1, <4>1 DEF OnRail
      <4>3. RowY(j) \in Int /\ RowY(j) >= 76
        BY <1>12
      <4> QED BY <4>2, <4>3
    <3> QED BY <1>9, <3>2, <3>3
  <2>3. CASE \E i \in 1..Len(levels) : OnRail(node, "row", i, RowY(i))
    <3>1. PICK i \in 1..Len(levels) : OnRail(node, "row", i, RowY(i))
      BY <2>3
    <3>2. node.bounds.y + (node.bounds.height \div 2) = RowY(i) + 12
      BY <2>1, <3>1 DEF OnRail
    <3>3. CASE OnRail(hit, "master", 0, 12)
      <4>1. hit.bounds.y + hit.bounds.height = 36
        BY <3>3 DEF OnRail
      <4>2. RowY(i) \in Int /\ RowY(i) >= 76
        BY <1>12
      <4> QED BY <1>5, <3>2, <4>1, <4>2
    <3>4. CASE \E j \in 1..Len(levels) : OnRail(hit, "row", j, RowY(j))
      <4>1. PICK j \in 1..Len(levels) : OnRail(hit, "row", j, RowY(j))
        BY <3>4
      <4>2. i = j
        BY <1>5, <1>13, <3>2, <4>1 DEF OnRail
      <4> QED BY <3>1, <4>1, <4>2 DEF OnRail
    <3> QED BY <1>9, <3>3, <3>4
  <2> QED BY <1>11, <2>2, <2>3
<1> QED BY <1>4, <1>14

\* Each theme is one, and none of them is None.
LEMMA ThemesAreThemes ==
    /\ GlassThemes = {"System", "Light", "Dark"} /\ None \notin GlassThemes
    /\ GlassSteps \subseteq Int
<1>1. 1..3 = {1, 2, 3}
  OBVIOUS
<1>2. Themes[1] = "System" /\ Themes[2] = "Light" /\ Themes[3] = "Dark"
  BY DEF Themes
<1>3. GlassThemes = {"System", "Light", "Dark"}
  BY <1>1, <1>2 DEF GlassThemes
<1>4. Steps[1] \in Int /\ Steps[2] \in Int /\ Steps[3] \in Int
  BY DEF Steps
<1>5. GlassSteps \subseteq Int
  BY <1>1, <1>4 DEF GlassSteps
<1> QED BY <1>3, <1>5, GlassAssumption

LEMMA GlassStarts ==
    ASSUME GlassInit
    PROVE  GlassInv
<1>1. app \in Confirmed /\ app.theme = "Dark"
  BY ThemesAreThemes DEF GlassInit, GlassStates, Confirmed, Percents
<1>2. hud \in HudShapes /\ HudFits(hud, app, unseen) /\ unseen \in BOOLEAN
  BY DEF GlassInit, HudShapes, HudFits, HudTicks, NoteTicks, FadeTicks, Percents
<1>3. panel \in Panels
  <2>1. panel = [tab |-> "General", draft |-> [theme |-> app.theme, step |-> 2], unsaved |-> FALSE]
    BY DEF GlassInit, DraftFrom
  <2>2. "General" \in GlassTabs
    <3>1. 1 \in DOMAIN Tabs /\ Tabs[1] = "General"
      BY DEF Tabs
    <3> QED BY <3>1 DEF GlassTabs
  <2> QED BY <1>1, <2>1, <2>2, ThemesAreThemes DEF Panels
<1>4. PanelFits(panel, app, wanted) /\ wanted = None
  BY DEF GlassInit, DraftFrom, PanelFits
<1>5. AimHolds
  BY DEF GlassInit, Nothing, AimHolds
<1> QED BY <1>1, <1>2, <1>3, <1>4, <1>5 DEF GlassInv, GlassTypes

\* A change of the host's state is of the kind it was.
LEMMA ChangesAreConfirmed ==
    ASSUME app \in Confirmed, NEW a \in Changes
    PROVE  a \in Confirmed
<1>1. CASE a \in {[app EXCEPT !.percent = p] : p \in Percents}
  BY <1>1 DEF Confirmed
<1>2. CASE a \in {[app EXCEPT !.muted = ~@]}
  BY <1>2 DEF Confirmed
<1>3. CASE a \in {[app EXCEPT !.hudUp = ~@], [app EXCEPT !.helpUp = ~@]}
  BY <1>3 DEF Confirmed
<1>4. CASE a \in {[app EXCEPT !.theme = t] : t \in GlassThemes}
  BY <1>4 DEF Confirmed
<1>5. CASE a \in {[app EXCEPT !.list = l] : l \in SessionLists}
  BY <1>5 DEF Confirmed
<1> QED BY <1>1, <1>2, <1>3, <1>4, <1>5 DEF Changes

LEMMA PublishKeeps ==
    ASSUME GlassInv, NEW a \in Changes, Publish(a)
    PROVE  GlassInv'
<1> USE DEF GlassInv, GlassTypes
<1>1. app' = a /\ a \in Confirmed
  BY ChangesAreConfirmed DEF Publish
<1>2. hud' \in HudShapes /\ unseen' \in BOOLEAN
  BY <1>1 DEF Publish, ShowHud, HudShapes, Confirmed
<1>3. HudFits(hud', app', unseen')
  BY <1>1 DEF Publish, ShowHud, HudShapes, Confirmed, HudFits, HudTicks, NoteTicks, FadeTicks
<1>4. panel' \in Panels
  BY <1>1, ThemesAreThemes DEF Publish, SyncConfirmed, DraftFrom, Panels, Confirmed
<1>5. PanelFits(panel', app', wanted') /\ wanted' \in GlassThemes \cup {None}
  BY <1>1 DEF Publish, SyncConfirmed, DraftFrom, Panels, PanelFits
<1>6. AimHolds'
  BY DEF Publish, AimHolds
<1> QED BY <1>1, <1>2, <1>3, <1>4, <1>5, <1>6

LEMMA HudKeeps ==
    ASSUME GlassInv, ShowNotification \/ Tick
    PROVE  GlassInv'
<1> USE DEF GlassInv, GlassTypes
<1>1. UNCHANGED <<app, panel, sent, wanted, unseen>>
  BY DEF ShowNotification, Tick
<1>2. hud' \in HudShapes /\ HudFits(hud', app, unseen)
  <2>1. CASE ShowNotification
    <3>1. hud' \in HudShapes /\ hud'.note /\ hud'.age = 0 /\ hud'.limit = NoteTicks
      BY <2>1 DEF ShowNotification, HudShapes
    <3> QED BY <3>1 DEF HudFits, HudTicks, NoteTicks, FadeTicks
  <2>2. CASE Tick
    <3> DEFINE older == [hud EXCEPT !.age = @ + 1]
    <3>1. older \in HudShapes /\ older.age = hud.age + 1 /\ older.limit = hud.limit /\ older.note = hud.note
          /\ older.percent = hud.percent /\ older.muted = hud.muted /\ older.up = hud.up
      BY DEF HudShapes
    <3>2. hud.limit \in Nat /\ hud.age \in Nat
      BY DEF HudShapes, HudTicks, NoteTicks
    <3>3. hud.up /\ hud' = IF older.age >= hud.limit + FadeTicks THEN [older EXCEPT !.up = FALSE]
                            ELSE [older EXCEPT !.fading = older.age >= hud.limit]
      BY <2>2 DEF Tick
    <3> HIDE DEF older
    <3>4. CASE older.age >= hud.limit + FadeTicks
      <4>1. hud' = [older EXCEPT !.up = FALSE]
        BY <3>3, <3>4
      <4> QED BY <4>1, <3>1 DEF HudShapes, HudFits
    <3>5. CASE ~(older.age >= hud.limit + FadeTicks)
      <4>1. hud' = [older EXCEPT !.fading = older.age >= hud.limit]
        BY <3>3, <3>5
      <4>2. older.age < hud.limit + FadeTicks
        BY <3>1, <3>2, <3>5 DEF FadeTicks
      <4>3. (older.age >= hud.limit) \in BOOLEAN
        OBVIOUS
      <4>4. hud' \in HudShapes
        BY <4>1, <4>3, <3>1 DEF HudShapes
      <4> QED BY <4>1, <4>2, <4>4, <3>1, <3>3 DEF HudShapes, HudFits
    <3> QED BY <3>4, <3>5
  <2> QED BY <2>1, <2>2
<1> QED BY <1>1, <1>2 DEF AimHolds

\* A gesture sent from an untouched list names the row that was drawn under it.
LEMMA EmitKeeps ==
    ASSUME GlassInv, NEW g, NEW aim, NEW id, id[1] = aim[1], id[2] = aim[2], Emit(g, aim, id)
    PROVE  GlassInv'
<1> USE DEF GlassInv, GlassTypes
<1>1. UNCHANGED <<app, hud, panel, wanted, unseen>>
  BY DEF Emit
<1>7. Filtered(seen.mixer) = Filtered(mixer) => RowAt(mixer, id) = RowAt(seen.mixer, aim)
  BY DEF RowAt, AtPosition
<1>8. \/ sent'.row = sent'.aimed
      \/ /\ sent'.row = RowAt(mixer, id) /\ sent'.aimed = RowAt(seen.mixer, aim)
         /\ sent'.stale = (Filtered(seen.mixer) # Filtered(mixer))
  BY DEF Emit, Nothing
<1>9. AimHolds'
  BY <1>7, <1>8 DEF AimHolds
<1> QED BY <1>1, <1>9 DEF HudFits, PanelFits

LEMMA PointKeeps ==
    ASSUME GlassInv, NEW drawn \in MixerPresses, drawn.key = SceneKey(seen.mixer),
           \/ \E press \in drawn.presses : PressRail(press[1], press[2])
           \/ \E id \in drawn.sliders : Adjust(id)
    PROVE  GlassInv'
<1>2. PICK key \in SceneKeys : drawn = [key |-> key, presses |-> Presses(SceneOf(key)), sliders |-> Sliders(SceneOf(key))]
  BY DEF MixerPresses
<1>3. PICK percent \in Percents, mute \in BOOLEAN, n \in 0..Cardinality(Rows) : key = <<percent, mute, n>>
  BY DEF SceneKeys
<1>4. n \in Nat
  BY GlassAssumption, FS_CardinalityType
<1>5. ASSUME NEW press \in drawn.presses, PressRail(press[1], press[2]) PROVE GlassInv'
  <2>1. CASE press[2][3] \in {"slider", "mute"}
    <3>1. press \in Presses(SceneOf(<<percent, mute, n>>))
      BY <1>2, <1>3, <1>5
    <3>2. press[2][1] = press[1][1] /\ press[2][2] = press[1][2]
      BY <1>4, <2>1, <3>1, PressesStayOnTheirRail
    <3>3. Emit(RailGesture(press[2][3]), press[1], press[2])
      BY <1>5, <2>1 DEF PressRail
    <3> QED BY <3>2, <3>3, EmitKeeps
  <2>2. CASE press[2][3] \notin {"slider", "mute"}
    <3>1. sent' = Nothing /\ UNCHANGED <<app, hud, panel, wanted, unseen>>
      BY <1>5, <2>2 DEF PressRail
    <3>2. AimHolds'
      BY <3>1 DEF Nothing, AimHolds
    <3> QED BY <3>1, <3>2 DEF GlassInv, GlassTypes, HudFits, PanelFits
  <2> QED BY <2>1, <2>2
<1>6. ASSUME NEW id \in drawn.sliders, Adjust(id) PROVE GlassInv'
  BY <1>6, EmitKeeps DEF Adjust
<1> QED BY <1>5, <1>6

LEMMA PanelKeeps ==
    ASSUME GlassInv,
           \/ \E tab \in GlassTabs : SelectTab(tab)
           \/ \E t \in GlassThemes : SetTheme(t)
           \/ \E s \in GlassSteps : SetStep(s)
           \/ SaveDraft \/ CancelDraft \/ ResetDefaults
           \/ \E kind \in {"check", "recommended", "clear"} : SendOnly(kind)
    PROVE  GlassInv'
<1> USE DEF GlassInv, GlassTypes
<1>1. UNCHANGED <<app, hud, unseen>>
  BY DEF SelectTab, SetTheme, SetStep, SaveDraft, CancelDraft, ResetDefaults, SendOnly, OnSettings
<1>2. panel.draft.theme \in GlassThemes /\ app.theme \in GlassThemes
  BY DEF Panels, Confirmed
<1> DEFINE Dirty(theme, step) == [tab |-> panel.tab, draft |-> [theme |-> theme, step |-> step], unsaved |-> TRUE]
           Clean(theme, step) == [tab |-> panel.tab, draft |-> [theme |-> theme, step |-> step], unsaved |-> FALSE]
<1>0. /\ \A theme \in GlassThemes, step \in Int :
            /\ Dirty(theme, step) \in Panels /\ Dirty(theme, step).draft.theme = theme
            /\ Clean(theme, step) \in Panels /\ Clean(theme, step).draft.theme = theme /\ ~Clean(theme, step).unsaved
      /\ panel.draft.step \in Int
  BY DEF Panels
<1>3. panel' \in Panels /\ PanelFits(panel', app, wanted') /\ wanted' \in GlassThemes \cup {None}
  <2>1. CASE \E tab \in GlassTabs : SelectTab(tab)
    BY <2>1 DEF SelectTab, Panels, PanelFits
  <2>2. CASE \E t \in GlassThemes : SetTheme(t)
    <3>1. PICK t \in GlassThemes : wanted' = t /\ panel' = [panel EXCEPT !.draft.theme = t, !.unsaved = TRUE]
      BY <2>2 DEF SetTheme
    <3>2. panel' = Dirty(t, panel.draft.step)
      BY <3>1 DEF Panels
    <3>3. wanted' = t /\ t # None
      BY <3>1, ThemesAreThemes, Zenon
    <3> HIDE DEF Dirty, Clean
    <3> QED BY <1>0, <3>2, <3>3 DEF PanelFits
  <2>3. CASE \E s \in GlassSteps : SetStep(s)
    <3>1. PICK s \in GlassSteps : /\ panel' = [panel EXCEPT !.draft.step = s, !.unsaved = TRUE]
                                 /\ wanted' = IF wanted = None THEN panel.draft.theme ELSE wanted
      BY <2>3 DEF SetStep
    <3>2. panel' = Dirty(panel.draft.theme, s) /\ s \in Int
      BY <3>1, ThemesAreThemes DEF Panels
    <3>3. wanted' \in GlassThemes /\ wanted' # None
      BY <1>2, <3>1, ThemesAreThemes, Zenon
    <3>4. panel.draft.theme = wanted'
      BY <3>1 DEF PanelFits
    <3> HIDE DEF Dirty, Clean
    <3> QED BY <1>0, <1>2, <3>2, <3>3, <3>4 DEF PanelFits
  <2>4. CASE SaveDraft
    <3>1. panel' = Clean(panel.draft.theme, panel.draft.step) /\ wanted' = panel.draft.theme
      BY <2>4 DEF SaveDraft, Panels
    <3> QED BY <1>0, <1>2, <3>1, ThemesAreThemes DEF PanelFits
  <2>5. CASE CancelDraft
    <3>1. panel' = Clean(app.theme, 2) /\ wanted' = None
      BY <2>5 DEF CancelDraft, DraftFrom, Panels
    <3> HIDE DEF Dirty, Clean
    <3> QED BY <1>0, <1>2, <3>1 DEF PanelFits
  <2>6. CASE ResetDefaults
    <3>1. panel' = Dirty("System", 2) /\ wanted' = "System"
      BY <2>6 DEF ResetDefaults, Panels
    <3> HIDE DEF Dirty, Clean
    <3> QED BY <1>0, <3>1, ThemesAreThemes DEF PanelFits
  <2>7. CASE \E kind \in {"check", "recommended", "clear"} : SendOnly(kind)
    BY <2>7 DEF SendOnly
  <2> QED BY <2>1, <2>2, <2>3, <2>4, <2>5, <2>6, <2>7
<1>4. AimHolds'
  BY DEF SelectTab, SetTheme, SetStep, SaveDraft, CancelDraft, ResetDefaults, SendOnly, Nothing, AimHolds
<1> QED BY <1>1, <1>3, <1>4 DEF HudFits

LEMMA GlassStep ==
    ASSUME GlassInv, GlassNext
    PROVE  GlassInv'
<1>1. CASE Tick
  BY <1>1, HudKeeps
<1>2. CASE Frame
  BY <1>2 DEF Frame, GlassInv, GlassTypes, AimHolds
<1>3. CASE \E q \in DOMAIN Matching : Search(q)
  BY <1>3 DEF Search, GlassInv, GlassTypes, AimHolds
<1>4. CASE HostOrUser
  BY <1>3, <1>4, PublishKeeps, HudKeeps, PointKeeps, PanelKeeps DEF HostOrUser
<1> QED BY <1>1, <1>2, <1>4 DEF GlassNext

LEMMA GlassRests ==
    ASSUME GlassInv, UNCHANGED glass
    PROVE  GlassInv'
  BY DEF glass, GlassInv, GlassTypes, HudFits, PanelFits, AimHolds

LEMMA GlassTells ==
    ASSUME GlassInv
    PROVE  GlassIsHonest
<1>1. hud.up => hud.age < (IF hud.note THEN NoteTicks ELSE HudTicks) + FadeTicks
  BY DEF GlassInv, HudFits
<1>2. /\ hud.up /\ ~hud.note /\ ~unseen => hud.percent = app.percent /\ hud.muted = app.muted
      /\ panel.draft.theme = IF wanted = None THEN app.theme ELSE wanted
  BY DEF GlassInv, HudFits, PanelFits
<1> QED BY <1>1, <1>2 DEF GlassInv, AimHolds, GlassIsHonest

\* The Glass surfaces are honest (liquid_glass's controller and surfaces): an action carries the row
\* that was aimed at, unless it was drawn before the list changed; the panel's theme is the user's
\* until it is saved, and the host's otherwise; the overlay has the volume published last and goes
\* within its time - whatever sessions, lists, searches, ticks and frames, in whatever order.
THEOREM GlassStaysHonest == Spec => []GlassIsHonest
<1>1. Init => GlassInv
  BY GlassStarts DEF Init
<1>2. GlassInv /\ [Next]_vars => GlassInv'
  BY GlassStep, GlassRests DEF Next, vars
<1>3. GlassInv => GlassIsHonest
  BY GlassTells
<1> QED BY <1>1, <1>2, <1>3, PTL DEF Spec

-----------------------------------------------------------------------------
(* The painted windows of the legacy host.                                   *)

Looks == [tokens : [dark : BOOLEAN, contrast : BOOLEAN], material : {"Opaque", "Blurred", "Translucent"}]
Rails == [heard : Heard \cup {NoRail.heard}, bounds : Bounds \cup {NoRail.bounds}]
CardConfigs == [theme : CardThemes, material : CardMaterials \cup {"Auto"}, bounds : Bounds, modifier : Chords]
CardRows == {<<>>} \cup {BuildRows(c, s) : c \in CardConfigs, s \in Statuses}
Rings == {None} \cup {"slider", "mute", "reset", "close", "edit", "settings"}

Flyouts == [open : BOOLEAN, look : Looks, rail : Rails, hover : BOOLEAN, armed : BOOLEAN, todo : SUBSET {"window", "cross"},
            seen : {None} \cup [look : Looks, rail : Rails, ring : Rings],
            cross : BOOLEAN, back : {"none", "auto", "transient"}, timer : BOOLEAN, young : BOOLEAN, wiped : BOOLEAN]
Capsules == [open : BOOLEAN, look : Looks, rail : Rails, toast : BOOLEAN, todo : BOOLEAN,
             seen : {None} \cup [look : Looks, rail : Rails, toast : BOOLEAN]]
HelpCards == [open : BOOLEAN, look : [dark : BOOLEAN, contrast : BOOLEAN], rows : CardRows, hover : BOOLEAN, armed : BOOLEAN,
              todo : BOOLEAN, seen : {None} \cup [look : [dark : BOOLEAN, contrast : BOOLEAN], rows : CardRows,
                                                  hover : BOOLEAN, ring : Rings],
              back : {"none", "auto", "transient"}, timer : BOOLEAN, young : BOOLEAN, wiped : BOOLEAN]

\* A window that owes no painting shows what it holds; under high contrast its timer outlives DWM's turn.
FlyoutFits(f, ring, at) ==
    /\ f.open /\ "window" \notin f.todo /\ ~f.wiped
         => f.seen.look = f.look /\ f.seen.rail = f.rail /\ f.seen.ring = ring
    /\ f.open /\ "window" \notin f.todo /\ "cross" \notin f.todo /\ ~f.wiped => f.cross = f.hover
    /\ f.open /\ f.hover /\ f.armed => at = "flyoutCross"
    /\ ~f.open => ~f.armed /\ ~f.wiped
    /\ f.young => f.timer
    /\ ~f.young /\ ~f.timer => f.back = ApplyBackdrop(f.look.material)
CapsuleFits(o) == o.open /\ ~o.todo => o.seen.look = o.look /\ o.seen.rail = o.rail /\ o.seen.toast = o.toast
CardFits(h, ring, at) ==
    /\ h.open /\ ~h.todo /\ ~h.wiped
         => h.seen.look = h.look /\ h.seen.rows = h.rows /\ h.seen.hover = h.hover /\ h.seen.ring = ring
    /\ h.open /\ h.hover /\ h.armed => at = "cardCross"
    /\ ~h.open => ~h.armed /\ ~h.wiped
    /\ h.young => h.timer
    /\ h.open /\ ~h.young /\ ~h.timer => h.back = "none"
FlyoutHolds ==
    flyout.open /\ unheard.flyout = {} => flyout.look = LookOf(chosen) /\ flyout.rail = [heard |-> told, bounds |-> chosen.bounds]
CardHolds ==
    helpCard.open /\ unheard.card = {} => helpCard.look = HelpLook(chosen) /\ helpCard.rows = BuildRows(chosen, registered)

WindowTypes == flyout \in Flyouts /\ capsule \in Capsules /\ helpCard \in HelpCards
HostTypes == /\ chosen \in CardConfigs /\ registered \in Statuses /\ told \in Heard /\ dusk \in BOOLEAN /\ caps \in Capabilities
             /\ focusOn \in Targets \cup {None} /\ unheard \in [flyout : SUBSET {"read", "config", "dusk"}, card : SUBSET {"config", "dusk"}]
CardsInv == /\ WindowTypes /\ HostTypes
            /\ FlyoutFits(flyout, RingIn("flyout"), pointer) /\ CapsuleFits(capsule)
            /\ CardFits(helpCard, RingIn("card"), pointer) /\ FlyoutHolds /\ CardHolds

LEMMA LooksAreLooks ==
    ASSUME dusk \in BOOLEAN, caps \in Capabilities, NEW c
    PROVE  LookOf(c) \in Looks /\ HelpLook(c) \in [dark : BOOLEAN, contrast : BOOLEAN]
<1>1. caps.contrast \in BOOLEAN
  <2>1. Capabilities \subseteq [contrast : BOOLEAN, compositor : BOOLEAN, plain : BOOLEAN]
    BY DEF Capabilities
  <2> QED BY <2>1
<1>2. TokensFor(c.theme) \in [dark : BOOLEAN, contrast : BOOLEAN]
  BY <1>1 DEF TokensFor
<1>3. ResolveMaterial(c.material) \in {"Opaque", "Blurred", "Translucent"}
  BY DEF ResolveMaterial
<1> QED BY <1>2, <1>3 DEF LookOf, HelpLook, Looks

LEMMA RingsAreRings ==
    ASSUME focusOn \in Targets \cup {None}, NEW surface
    PROVE  RingIn(surface) \in Rings
<1>1. \A i \in DOMAIN MixerStops : MixerStops[i] \in Rings
  BY DEF MixerStops, Rings
<1>2. \A i \in DOMAIN HelpStops : HelpStops[i] \in Rings
  BY DEF HelpStops, Rings
<1>3. focusOn # None /\ focusOn[2] # "window" => focusOn[2] \in Rings
  BY <1>1, <1>2 DEF Targets, Range
<1> QED BY <1>3 DEF RingIn, Rings

LEMMA BackdropsAreBackdrops ==
    ASSUME NEW m
    PROVE  ApplyBackdrop(m) \in {"none", "auto", "transient"}
  BY DEF ApplyBackdrop

LEMMA CardsStart ==
    ASSUME CardsInit
    PROVE  CardsInv
<1>1. NoRail \in Rails /\ PlainLook \in Looks
  BY DEF NoRail, Rails, PlainLook, Looks
<1>2. flyout \in Flyouts /\ FlyoutFits(flyout, RingIn("flyout"), pointer) /\ ~flyout.open
  BY <1>1 DEF CardsInit, NewFlyout, Flyouts, FlyoutFits, ApplyBackdrop, PlainLook
<1>3. capsule \in Capsules /\ CapsuleFits(capsule)
  BY <1>1 DEF CardsInit, NewCapsule, Capsules, CapsuleFits
<1>4. helpCard \in HelpCards /\ CardFits(helpCard, RingIn("card"), pointer) /\ ~helpCard.open
  BY DEF CardsInit, NewCard, HelpCards, CardFits, PlainLook, CardRows
<1>5. HostTypes
  <2>1. (CHOOSE b \in Bounds : TRUE) \in Bounds /\ (CHOOSE m \in Chords : TRUE) \in Chords /\ (CHOOSE h \in Heard : TRUE) \in Heard
    BY CardsAssumption
  <2>2. chosen \in CardConfigs
    BY <2>1 DEF CardsInit, CardConfigs, CardThemes
  <2> QED BY <2>1, <2>2 DEF CardsInit, HostTypes
<1> QED BY <1>2, <1>3, <1>4, <1>5 DEF CardsInv, WindowTypes, FlyoutHolds, CardHolds

\* What the operators on a window do to it.
LEMMA AppearanceFits ==
    ASSUME NEW f \in Flyouts, NEW look \in Looks, NEW ring, NEW at, FlyoutFits(f, ring, at)
    PROVE  /\ ApplyAppearance(f, look) \in Flyouts /\ FlyoutFits(ApplyAppearance(f, look), ring, at)
           /\ ApplyAppearance(f, look).look = look /\ ApplyAppearance(f, look).rail = f.rail
           /\ ApplyAppearance(f, look).open = f.open
<1>1. CASE f.look = look
  BY <1>1 DEF ApplyAppearance
<1>2. CASE f.look # look
  <2> DEFINE g == ApplyAppearance(f, look)
  <2>1. g = [f EXCEPT !.look = look, !.back = ApplyBackdrop(look.material), !.todo = f.todo \cup {"window"}]
    BY <1>2 DEF ApplyAppearance, Invalidated, Flyouts
  <2>2. f.todo \cup {"window"} \in SUBSET {"window", "cross"}
    BY DEF Flyouts
  <2>3. ApplyBackdrop(look.material) \in {"none", "auto", "transient"}
    BY BackdropsAreBackdrops
  <2>4. g \in Flyouts
    BY <2>1, <2>2, <2>3 DEF Flyouts
  <2>5. /\ g.look = look /\ g.rail = f.rail /\ g.open = f.open /\ "window" \in g.todo
        /\ g.hover = f.hover /\ g.armed = f.armed /\ g.wiped = f.wiped /\ g.young = f.young /\ g.timer = f.timer
        /\ g.back = ApplyBackdrop(look.material)
    BY <2>1 DEF Flyouts
  <2>6. FlyoutFits(g, ring, at)
    <3> HIDE DEF g
    <3> QED BY <2>5 DEF FlyoutFits
  <2> QED BY <2>4, <2>5, <2>6
<1> QED BY <1>1, <1>2

LEMMA ThresholdsFit ==
    ASSUME NEW f \in Flyouts, NEW b \in Bounds, NEW ring, NEW at, FlyoutFits(f, ring, at)
    PROVE  /\ SetThresholds(f, b) \in Flyouts /\ FlyoutFits(SetThresholds(f, b), ring, at)
           /\ SetThresholds(f, b).rail.bounds = b /\ SetThresholds(f, b).open = f.open
<1>1. CASE f.rail.bounds = b
  BY <1>1 DEF SetThresholds
<1>2. CASE f.rail.bounds # b
  <2> DEFINE g == SetThresholds(f, b)
             rail == [heard |-> f.rail.heard, bounds |-> b]
  <2>1. rail \in Rails /\ f.todo \cup {"window"} \in SUBSET {"window", "cross"}
    BY DEF Flyouts, Rails
  <2>2. g = [f EXCEPT !.rail = rail, !.todo = f.todo \cup {"window"}]
    <3>1. f.rail \in Rails
      BY DEF Flyouts
    <3>2. [f.rail EXCEPT !.bounds = b] = rail
      BY <3>1 DEF Rails
    <3>3. g = Invalidated([f EXCEPT !.rail.bounds = b])
      BY <1>2 DEF SetThresholds
    <3> HIDE DEF rail
    <3> QED BY <3>2, <3>3 DEF Invalidated, Flyouts
  <2>3. g \in Flyouts
    <3> HIDE DEF rail
    <3> QED BY <2>1, <2>2 DEF Flyouts
  <2>4. /\ g.rail = rail /\ g.look = f.look /\ g.open = f.open /\ "window" \in g.todo
        /\ g.hover = f.hover /\ g.armed = f.armed /\ g.wiped = f.wiped /\ g.young = f.young /\ g.timer = f.timer
        /\ g.back = f.back
    <3> HIDE DEF rail
    <3> QED BY <2>2 DEF Flyouts
  <2>5. FlyoutFits(g, ring, at)
    <3> HIDE DEF g
    <3> QED BY <2>4 DEF FlyoutFits
  <2> QED BY <2>3, <2>4, <2>5
<1> QED BY <1>1, <1>2

LEMMA SyncFits ==
    ASSUME NEW f \in Flyouts, NEW h \in Heard, NEW ring, NEW at, FlyoutFits(f, ring, at),
           dusk \in BOOLEAN, caps \in Capabilities
    PROVE  /\ SyncedFlyout(f, h) \in Flyouts /\ FlyoutFits(SyncedFlyout(f, h), ring, at)
           /\ SyncedFlyout(f, h).look = LookOf(chosen') /\ SyncedFlyout(f, h).open = f.open
           /\ SyncedFlyout(f, h).rail = [heard |-> h, bounds |-> f.rail.bounds]
<1> DEFINE a == ApplyAppearance(f, LookOf(chosen'))
           rail == [heard |-> h, bounds |-> f.rail.bounds]
           g == SyncedFlyout(f, h)
<1>1. LookOf(chosen') \in Looks
  BY LooksAreLooks
<1>2. /\ a \in Flyouts /\ FlyoutFits(a, ring, at) /\ a.look = LookOf(chosen') /\ a.rail = f.rail /\ a.open = f.open
  BY <1>1, AppearanceFits
<1>3. g = Invalidated([a EXCEPT !.rail.heard = h])
  BY DEF SyncedFlyout
<1> HIDE DEF a
<1>4. rail \in Rails /\ a.todo \cup {"window"} \in SUBSET {"window", "cross"}
  BY <1>2 DEF Flyouts, Rails
<1>5. g = [a EXCEPT !.rail = rail, !.todo = a.todo \cup {"window"}]
  <2>1. f.rail \in Rails
    BY DEF Flyouts
  <2> QED BY <1>2, <1>3, <2>1 DEF Invalidated, Flyouts, Rails
<1> HIDE DEF rail, g
<1>6. g \in Flyouts
  BY <1>2, <1>4, <1>5 DEF Flyouts
<1>7. /\ g.rail = rail /\ g.look = a.look /\ g.open = a.open /\ "window" \in g.todo
      /\ g.hover = a.hover /\ g.armed = a.armed /\ g.wiped = a.wiped /\ g.young = a.young /\ g.timer = a.timer
      /\ g.back = a.back
  BY <1>2, <1>5 DEF Flyouts
<1>8. FlyoutFits(g, ring, at)
  BY <1>2, <1>7 DEF FlyoutFits
<1> QED BY <1>2, <1>6, <1>7, <1>8 DEF g, rail

\* The mixer just shown: painted at once, or owing it; the highlight is the pointer's.
LEMMA OpenedFits ==
    ASSUME NEW f \in Flyouts, FlyoutFits(f, RingIn("flyout"), pointer), dusk \in BOOLEAN, caps \in Capabilities,
           focusOn \in Targets \cup {None}, NEW o \in FlyoutOpened(f)
    PROVE  /\ o.now \in Flyouts /\ FlyoutFits(o.now, RingIn("flyout"), pointer) /\ o.now.open
<1> DEFINE a == ApplyAppearance(f, LookOf(chosen'))
           g == Invalidated([a EXCEPT !.open = TRUE, !.timer = TRUE, !.young = caps.contrast])
           over(h) == [h EXCEPT !.hover = pointer = "flyoutCross"]
<1>1. a \in Flyouts
  BY LooksAreLooks, AppearanceFits
<1>2. o.now = over(FlyoutPainted(g)) \/ o.now = over(g)
  BY DEF FlyoutOpened
<1> HIDE DEF a
<1>3. a.todo \cup {"window"} \in SUBSET {"window", "cross"} /\ caps.contrast \in BOOLEAN
  <2>1. Capabilities \subseteq [contrast : BOOLEAN, compositor : BOOLEAN, plain : BOOLEAN]
    BY DEF Capabilities
  <2> QED BY <1>1, <2>1 DEF Flyouts
<1>4. g = [a EXCEPT !.open = TRUE, !.timer = TRUE, !.young = caps.contrast, !.todo = a.todo \cup {"window"}]
  BY <1>1 DEF Invalidated, Flyouts
<1> HIDE DEF g
<1>5. /\ g \in Flyouts /\ g.open /\ g.timer /\ "window" \in g.todo
  BY <1>1, <1>3, <1>4 DEF Flyouts
<1>6. CASE o.now = over(g)
  <2>1. o.now \in Flyouts
    BY <1>5, <1>6 DEF Flyouts
  <2>2. o.now.open /\ o.now.timer /\ "window" \in o.now.todo /\ o.now.hover = (pointer = "flyoutCross")
    BY <1>5, <1>6 DEF Flyouts
  <2> QED BY <2>1, <2>2 DEF FlyoutFits
<1>7. CASE o.now = over(FlyoutPainted(g))
  <2> DEFINE frame == [look |-> g.look, rail |-> g.rail, ring |-> RingIn("flyout")]
             p == FlyoutPainted(g)
  <2>1. frame \in [look : Looks, rail : Rails, ring : Rings]
    BY <1>5, RingsAreRings DEF Flyouts
  <2>2. p = [g EXCEPT !.todo = (@ \ {"window"}) \cup {"cross"}, !.wiped = FALSE, !.seen = frame]
    BY DEF FlyoutPainted
  <2> HIDE DEF frame, p
  <2>3. /\ p \in Flyouts /\ p.open /\ p.timer /\ "cross" \in p.todo /\ p.seen = frame /\ p.look = g.look /\ p.rail = g.rail
    BY <1>5, <2>1, <2>2 DEF Flyouts
  <2>4. o.now \in Flyouts
    BY <1>7, <2>3 DEF Flyouts, p
  <2>5. /\ o.now.open /\ o.now.timer /\ "cross" \in o.now.todo /\ o.now.hover = (pointer = "flyoutCross")
        /\ o.now.seen = frame /\ o.now.look = g.look /\ o.now.rail = g.rail
    BY <1>7, <2>3 DEF Flyouts, p
  <2>6. frame.look = g.look /\ frame.rail = g.rail /\ frame.ring = RingIn("flyout")
    BY DEF frame
  <2> QED BY <2>4, <2>5, <2>6 DEF FlyoutFits
<1> QED BY <1>2, <1>6, <1>7

\* What LookOf, HelpLook and BuildRows give depends on the config, the session and the system's darkness.
LEMMA LooksFollow ==
    ASSUME UNCHANGED <<dusk, caps>>
    PROVE  LookOf(chosen)' = LookOf(chosen') /\ HelpLook(chosen)' = HelpLook(chosen')
  BY DEF LookOf, HelpLook, TokensFor, ResolveMaterial

\* A confirmed state reaches the mixer and the overlay, or, when it cannot be read, is owed to them.
LEMMA PublishConfirmedKeeps ==
    ASSUME CardsInv, NEW f \in Flyouts, FlyoutFits(f, RingIn("flyout"), pointer), NEW o \in Capsules, CapsuleFits(o),
           NEW showing, NEW cost, NEW count, PublishConfirmed(f, o, showing, cost, count),
           chosen' \in CardConfigs, registered' \in Statuses, chosen' = chosen => registered' = registered,
           UNCHANGED <<helpCard, dusk, caps, pointer, focusOn>>
    PROVE  CardsInv'
<1> USE DEF CardsInv, WindowTypes, HostTypes
<1>1. RingIn("flyout")' = RingIn("flyout") /\ RingIn("card")' = RingIn("card")
  BY DEF RingIn
<1>2. /\ unheard' \in [flyout : SUBSET {"read", "config", "dusk"}, card : SUBSET {"config", "dusk"}]
      /\ unheard'.card = {} => unheard.card = {} /\ chosen' = chosen
  <2> DEFINE owed == IF chosen' = chosen THEN unheard.card ELSE unheard.card \cup {"config"}
  <2>1. unheard' = [flyout |-> {}, card |-> owed] \/ unheard' = [flyout |-> unheard.flyout \cup {"read"}, card |-> owed]
    BY DEF PublishConfirmed
  <2>2. owed \in SUBSET {"config", "dusk"} /\ (owed = {} => unheard.card = {} /\ chosen' = chosen)
    OBVIOUS
  <2> DEFINE missed == unheard.flyout \cup {"read"}
  <2>3. missed \in SUBSET {"read", "config", "dusk"}
    OBVIOUS
  <2>4. unheard' = [flyout |-> {}, card |-> owed] \/ unheard' = [flyout |-> missed, card |-> owed]
    BY <2>1
  <2> HIDE DEF owed, missed
  <2>5. unheard'.card = owed /\ unheard' \in [flyout : SUBSET {"read", "config", "dusk"}, card : SUBSET {"config", "dusk"}]
    BY <2>2, <2>3, <2>4
  <2> QED BY <2>2, <2>5
<1>3. CardHolds'
  <2>1. SUFFICES ASSUME helpCard.open, unheard'.card = {}
                 PROVE  helpCard.look = HelpLook(chosen)' /\ helpCard.rows = BuildRows(chosen, registered)'
    BY DEF CardHolds
  <2>2. chosen' = chosen /\ registered' = registered /\ unheard.card = {}
    BY <1>2, <2>1
  <2>3. HelpLook(chosen)' = HelpLook(chosen)
    BY <2>2 DEF HelpLook, TokensFor
  <2>4. BuildRows(chosen, registered)' = BuildRows(chosen, registered)
    BY <2>2 DEF BuildRows
  <2> QED BY <2>1, <2>2, <2>3, <2>4 DEF CardHolds
<1>4. CASE /\ flyout' = f /\ capsule' = o /\ UNCHANGED told /\ "read" \in unheard'.flyout
  BY <1>1, <1>2, <1>3, <1>4 DEF FlyoutHolds
<1>5. CASE \E h \in Heard :
             /\ told' = h
             /\ flyout' = IF f.open THEN SyncedFlyout(SetThresholds(f, chosen'.bounds), h) ELSE f
             /\ capsule' = IF showing THEN ShowVolume(h) ELSE o
  <2>1. PICK h \in Heard :
             /\ told' = h
             /\ flyout' = IF f.open THEN SyncedFlyout(SetThresholds(f, chosen'.bounds), h) ELSE f
             /\ capsule' = IF showing THEN ShowVolume(h) ELSE o
    BY <1>5
  <2> DEFINE g == SetThresholds(f, chosen'.bounds)
  <2>2. /\ g \in Flyouts /\ FlyoutFits(g, RingIn("flyout"), pointer) /\ g.rail.bounds = chosen'.bounds /\ g.open = f.open
    BY ThresholdsFit DEF CardConfigs
  <2>3. /\ SyncedFlyout(g, h) \in Flyouts /\ FlyoutFits(SyncedFlyout(g, h), RingIn("flyout"), pointer)
        /\ SyncedFlyout(g, h).look = LookOf(chosen') /\ SyncedFlyout(g, h).rail = [heard |-> h, bounds |-> g.rail.bounds]
    BY <2>2, SyncFits
  <2>4. flyout' \in Flyouts /\ FlyoutFits(flyout', RingIn("flyout"), pointer)
    BY <2>1, <2>3
  <2>5. flyout'.open => flyout'.look = LookOf(chosen') /\ flyout'.rail = [heard |-> told', bounds |-> chosen'.bounds]
    BY <2>1, <2>2, <2>3
  <2>6. FlyoutHolds'
    BY <2>5, LooksFollow DEF FlyoutHolds
  <2>7. capsule' \in Capsules /\ CapsuleFits(capsule')
    <3> DEFINE rail == [heard |-> h, bounds |-> chosen'.bounds]
    <3>1. rail \in Rails
      BY DEF Rails, CardConfigs
    <3>2. LookOf(chosen') \in Looks
      BY LooksAreLooks
    <3>3. ShowVolume(h) = [capsule EXCEPT !.rail = rail, !.toast = FALSE, !.open = TRUE, !.todo = TRUE, !.look = LookOf(chosen')]
      BY DEF ShowVolume, Present, Capsules
    <3> HIDE DEF rail
    <3>4. ShowVolume(h) \in Capsules /\ ShowVolume(h).todo
      BY <3>1, <3>2, <3>3 DEF Capsules
    <3> QED BY <2>1, <3>4 DEF CapsuleFits
  <2> QED BY <1>1, <1>2, <1>3, <2>1, <2>4, <2>6, <2>7
<1>6. QED BY <1>4, <1>5 DEF PublishConfirmed

LEMMA HostCardsKeep ==
    ASSUME CardsInv, HandleSound \/ ReloadConfig \/ PollHost \/ Toast \/ ShowMixer
    PROVE  CardsInv'
<1> USE DEF CardsInv, WindowTypes, HostTypes
<1>1. CASE HandleSound \/ PollHost
  BY <1>1, PublishConfirmedKeeps DEF HandleSound, PollHost
<1>2. ASSUME NEW c \in ChangedConfig, Choose(c)
      PROVE  chosen' \in CardConfigs /\ registered' \in Statuses /\ chosen' # chosen
  <2>1. c \in CardConfigs /\ c # chosen
    BY DEF ChangedConfig, CardConfigs
  <2> QED BY <1>2, <2>1 DEF Choose
<1>3. ShowText \in Capsules /\ ShowText.todo
  <2>1. LookOf(chosen') \in Looks
    BY LooksAreLooks
  <2>2. ShowText = [capsule EXCEPT !.toast = TRUE, !.open = TRUE, !.todo = TRUE, !.look = LookOf(chosen')]
    BY DEF ShowText, Present, Capsules
  <2> QED BY <2>1, <2>2 DEF Capsules
<1>4. CapsuleFits(ShowText)
  BY <1>3 DEF CapsuleFits
<1>5. CASE ReloadConfig
  <2>1. PICK c \in ChangedConfig : Choose(c)
    BY <1>5 DEF ReloadConfig
  <2>2. chosen' \in CardConfigs /\ registered' \in Statuses /\ chosen' # chosen
    BY <1>2, <2>1
  <2>3. UNCHANGED <<helpCard, dusk, caps, pointer, focusOn>>
    BY <1>5 DEF ReloadConfig
  <2>4. CASE \E showing \in BOOLEAN : PublishConfirmed(flyout, capsule, showing, 0, 1)
    BY <2>2, <2>3, <2>4, PublishConfirmedKeeps
  <2>5. CASE /\ capsule' = ShowText
             /\ unheard' = [w \in DOMAIN unheard |-> unheard[w] \cup {"config"}]
             /\ UNCHANGED <<flyout, told>>
    <3>1. /\ unheard' \in [flyout : SUBSET {"read", "config", "dusk"}, card : SUBSET {"config", "dusk"}]
          /\ "config" \in unheard'.flyout /\ "config" \in unheard'.card
      BY <2>5
    <3>2. RingIn("flyout")' = RingIn("flyout") /\ RingIn("card")' = RingIn("card")
      BY <2>3 DEF RingIn
    <3> QED BY <1>3, <1>4, <2>2, <2>3, <2>5, <3>1, <3>2 DEF FlyoutHolds, CardHolds
  <2> QED BY <1>5, <2>4, <2>5 DEF ReloadConfig
<1>6. CASE Toast
  <2>1. capsule' = ShowText /\ UNCHANGED <<chosen, flyout, helpCard, registered, told, dusk, caps, pointer, focusOn, unheard>>
    BY <1>6 DEF Toast
  <2>2. RingIn("flyout")' = RingIn("flyout") /\ RingIn("card")' = RingIn("card")
    BY <2>1 DEF RingIn
  <2>3. FlyoutHolds' /\ CardHolds'
    <3>1. LookOf(chosen)' = LookOf(chosen) /\ HelpLook(chosen)' = HelpLook(chosen)
      BY <2>1 DEF LookOf, HelpLook, TokensFor, ResolveMaterial
    <3>2. BuildRows(chosen, registered)' = BuildRows(chosen, registered)
      BY <2>1 DEF BuildRows
    <3> QED BY <2>1, <3>1, <3>2 DEF FlyoutHolds, CardHolds
  <2> QED BY <1>3, <1>4, <2>1, <2>2, <2>3
<1>7. CASE ShowMixer
  <2>1. UNCHANGED <<chosen, helpCard, registered, dusk, caps, pointer, focusOn>>
    BY <1>7 DEF ShowMixer
  <2>2. ASSUME NEW f \in Flyouts, FlyoutFits(f, RingIn("flyout"), pointer), NEW o \in FlyoutOpened(f), NEW cost,
               PublishConfirmed(o.now, capsule, FALSE, cost, 1)
        PROVE  CardsInv'
    <3>1. o.now \in Flyouts /\ FlyoutFits(o.now, RingIn("flyout"), pointer)
      BY <2>2, OpenedFits
    <3> QED BY <2>1, <2>2, <3>1, PublishConfirmedKeeps
  <2>3. \A h \in Heard : SyncedFlyout(flyout, h) \in Flyouts /\ FlyoutFits(SyncedFlyout(flyout, h), RingIn("flyout"), pointer)
    BY SyncFits
  <2> QED BY <1>7, <2>2, <2>3 DEF ShowMixer
<1> QED BY <1>1, <1>5, <1>6, <1>7

\* Nothing that FlyoutHolds and CardHolds tell of the host changes.
LEMMA HostUntouched ==
    ASSUME HostTypes, FlyoutHolds, CardHolds, UNCHANGED <<chosen, registered, told, dusk, caps, unheard>>,
           flyout'.open => flyout.open /\ flyout'.look = flyout.look /\ flyout'.rail = flyout.rail,
           helpCard'.open => helpCard.open /\ helpCard'.look = helpCard.look /\ helpCard'.rows = helpCard.rows
    PROVE  FlyoutHolds' /\ CardHolds'
<1>1. LookOf(chosen)' = LookOf(chosen) /\ HelpLook(chosen)' = HelpLook(chosen)
  BY DEF LookOf, HelpLook, TokensFor, ResolveMaterial
<1>2. BuildRows(chosen, registered)' = BuildRows(chosen, registered)
  BY DEF BuildRows
<1> QED BY <1>1, <1>2 DEF FlyoutHolds, CardHolds

LEMMA PaintCardsKeep ==
    ASSUME CardsInv, PaintFlyout \/ PaintCross \/ PaintCapsule \/ PaintCard
    PROVE  CardsInv'
<1> USE DEF CardsInv, WindowTypes, HostTypes
<1>1. UNCHANGED <<chosen, registered, told, dusk, caps, pointer, focusOn, unheard>>
  BY DEF PaintFlyout, PaintCross, PaintCapsule, PaintCard
<1>2. RingIn("flyout")' = RingIn("flyout") /\ RingIn("card")' = RingIn("card")
  BY <1>1 DEF RingIn
<1>3. RingIn("flyout") \in Rings /\ RingIn("card") \in Rings
  BY RingsAreRings
<1>4. /\ flyout' \in Flyouts /\ FlyoutFits(flyout', RingIn("flyout"), pointer)
      /\ flyout'.open = flyout.open /\ flyout'.look = flyout.look /\ flyout'.rail = flyout.rail
  <2>1. CASE flyout' = FlyoutPainted(flyout) /\ flyout.open
    <3> DEFINE frame == [look |-> flyout.look, rail |-> flyout.rail, ring |-> RingIn("flyout")]
    <3>1. frame \in [look : Looks, rail : Rails, ring : Rings]
      BY <1>3 DEF Flyouts
    <3>2. flyout' = [flyout EXCEPT !.todo = (@ \ {"window"}) \cup {"cross"}, !.wiped = FALSE, !.seen = frame]
      BY <2>1 DEF FlyoutPainted
    <3>3. frame.look = flyout.look /\ frame.rail = flyout.rail /\ frame.ring = RingIn("flyout")
      OBVIOUS
    <3> HIDE DEF frame
    <3> DEFINE owed == (flyout.todo \ {"window"}) \cup {"cross"}
    <3>4. owed \in SUBSET {"window", "cross"} /\ "cross" \in owed
      BY DEF Flyouts
    <3>5. flyout' = [flyout EXCEPT !.todo = owed, !.wiped = FALSE, !.seen = frame]
      BY <3>2 DEF Flyouts
    <3> HIDE DEF owed
    <3>6. flyout' \in Flyouts
      BY <3>1, <3>4, <3>5 DEF Flyouts
    <3>7. /\ flyout'.open = flyout.open /\ flyout'.todo = owed /\ flyout'.seen = frame
          /\ flyout'.look = flyout.look /\ flyout'.rail = flyout.rail /\ flyout'.hover = flyout.hover
          /\ flyout'.armed = flyout.armed /\ flyout'.young = flyout.young /\ flyout'.timer = flyout.timer
          /\ flyout'.back = flyout.back
      BY <3>5 DEF Flyouts
    <3> QED BY <2>1, <3>3, <3>4, <3>6, <3>7 DEF FlyoutFits
  <2>2. CASE flyout' = [flyout EXCEPT !.todo = @ \ {"cross"}, !.cross = flyout.hover]
    <3>1. /\ flyout' \in Flyouts /\ flyout'.open = flyout.open /\ flyout'.todo = flyout.todo \ {"cross"} /\ flyout'.seen = flyout.seen
          /\ flyout'.look = flyout.look /\ flyout'.rail = flyout.rail /\ flyout'.hover = flyout.hover /\ flyout'.cross = flyout.hover
          /\ flyout'.armed = flyout.armed /\ flyout'.young = flyout.young /\ flyout'.timer = flyout.timer
          /\ flyout'.back = flyout.back /\ flyout'.wiped = flyout.wiped
      BY <2>2 DEF Flyouts
    <3> QED BY <3>1 DEF FlyoutFits
  <2> QED BY <2>1, <2>2 DEF PaintFlyout, PaintCross, PaintCapsule, PaintCard
<1>5. capsule' \in Capsules /\ CapsuleFits(capsule')
  <2>1. CASE UNCHANGED capsule
    BY <2>1
  <2>2. CASE capsule' = [capsule EXCEPT !.todo = FALSE, !.seen = [look |-> capsule.look, rail |-> capsule.rail, toast |-> capsule.toast]]
    <3> DEFINE frame == [look |-> capsule.look, rail |-> capsule.rail, toast |-> capsule.toast]
    <3>1. frame \in [look : Looks, rail : Rails, toast : BOOLEAN]
      BY DEF Capsules
    <3>2. frame.look = capsule.look /\ frame.rail = capsule.rail /\ frame.toast = capsule.toast
      OBVIOUS
    <3> HIDE DEF frame
    <3>3. capsule' \in Capsules
      BY <2>2, <3>1 DEF Capsules, frame
    <3>4. capsule'.seen = frame /\ capsule'.look = capsule.look /\ capsule'.rail = capsule.rail /\ capsule'.toast = capsule.toast
      BY <2>2 DEF Capsules, frame
    <3> QED BY <3>2, <3>3, <3>4 DEF CapsuleFits
  <2> QED BY <2>1, <2>2 DEF PaintFlyout, PaintCross, PaintCapsule, PaintCard
<1>6. /\ helpCard' \in HelpCards /\ CardFits(helpCard', RingIn("card"), pointer)
      /\ helpCard'.open = helpCard.open /\ helpCard'.look = helpCard.look /\ helpCard'.rows = helpCard.rows
  <2>1. CASE UNCHANGED helpCard
    BY <2>1
  <2>2. CASE /\ helpCard.open
             /\ helpCard' = [helpCard EXCEPT !.todo = FALSE, !.wiped = FALSE,
                                !.seen = [look |-> helpCard.look, rows |-> helpCard.rows, hover |-> helpCard.hover, ring |-> RingIn("card")]]
    <3> DEFINE frame == [look |-> helpCard.look, rows |-> helpCard.rows, hover |-> helpCard.hover, ring |-> RingIn("card")]
    <3>1. frame \in [look : [dark : BOOLEAN, contrast : BOOLEAN], rows : CardRows, hover : BOOLEAN, ring : Rings]
      BY <1>3 DEF HelpCards
    <3>2. frame.look = helpCard.look /\ frame.rows = helpCard.rows /\ frame.hover = helpCard.hover /\ frame.ring = RingIn("card")
      OBVIOUS
    <3>0. helpCard' = [helpCard EXCEPT !.todo = FALSE, !.wiped = FALSE, !.seen = frame]
      BY <2>2
    <3> HIDE DEF frame
    <3>3. /\ helpCard' \in HelpCards /\ helpCard'.open = helpCard.open /\ helpCard'.seen = frame
          /\ helpCard'.look = helpCard.look /\ helpCard'.rows = helpCard.rows /\ helpCard'.hover = helpCard.hover
          /\ helpCard'.armed = helpCard.armed /\ helpCard'.young = helpCard.young /\ helpCard'.timer = helpCard.timer
          /\ helpCard'.back = helpCard.back
      BY <3>0, <3>1 DEF HelpCards
    <3> QED BY <2>2, <3>2, <3>3 DEF CardFits
  <2> QED BY <2>1, <2>2 DEF PaintFlyout, PaintCross, PaintCapsule, PaintCard
<1> QED BY <1>1, <1>2, <1>4, <1>5, <1>6, HostUntouched

\* The help card just shown holds the registrations of the moment and is about to be painted.
LEMMA ShowHelpKeeps ==
    ASSUME CardsInv, ShowHelp
    PROVE  CardsInv'
<1> USE DEF CardsInv, WindowTypes, HostTypes
<1>1. UNCHANGED <<chosen, flyout, capsule, registered, told, dusk, caps, pointer, focusOn>>
  BY DEF ShowHelp
<1>2. RingIn("flyout")' = RingIn("flyout") /\ RingIn("card")' = RingIn("card")
  BY <1>1 DEF RingIn
<1>3. LookOf(chosen)' = LookOf(chosen) /\ HelpLook(chosen)' = HelpLook(chosen)
  BY <1>1 DEF LookOf, HelpLook, TokensFor, ResolveMaterial
<1>4. BuildRows(chosen, registered)' = BuildRows(chosen, registered)
  BY <1>1 DEF BuildRows
<1> DEFINE look == HelpLook(chosen)
           list == BuildRows(chosen, registered)
<1>5. look \in [dark : BOOLEAN, contrast : BOOLEAN] /\ list \in CardRows /\ caps.contrast \in BOOLEAN
  <2>1. Capabilities \subseteq [contrast : BOOLEAN, compositor : BOOLEAN, plain : BOOLEAN]
    BY DEF Capabilities
  <2> QED BY <2>1, LooksAreLooks DEF CardRows
<1>6. helpCard' = [helpCard EXCEPT !.open = TRUE, !.look = look, !.rows = list, !.timer = TRUE, !.young = caps.contrast, !.todo = TRUE]
  BY DEF ShowHelp
<1>7. unheard' = [flyout |-> unheard.flyout, card |-> {}]
  BY DEF ShowHelp
<1> HIDE DEF look, list
<1>8. helpCard' \in HelpCards
  BY <1>5, <1>6 DEF HelpCards
<1>9. /\ helpCard'.open /\ helpCard'.look = look /\ helpCard'.rows = list /\ helpCard'.timer /\ helpCard'.todo
      /\ helpCard'.hover = helpCard.hover /\ helpCard'.armed = helpCard.armed
  BY <1>6 DEF HelpCards
<1>10. CardFits(helpCard', RingIn("card"), pointer)
  BY <1>9 DEF CardFits
<1>11. FlyoutHolds' /\ CardHolds'
  BY <1>1, <1>3, <1>4, <1>7, <1>9 DEF FlyoutHolds, CardHolds, look, list
<1>12. unheard' \in [flyout : SUBSET {"read", "config", "dusk"}, card : SUBSET {"config", "dusk"}]
  BY <1>7
<1> QED BY <1>1, <1>2, <1>8, <1>10, <1>11, <1>12

LEMMA TimersKeep ==
    ASSUME CardsInv, CapsuleTimer \/ FlyoutTimer \/ CardTimer \/ Overrides
    PROVE  CardsInv'
<1> USE DEF CardsInv, WindowTypes, HostTypes
<1>1. UNCHANGED <<chosen, registered, told, dusk, caps, pointer, focusOn, unheard>>
  BY DEF CapsuleTimer, FlyoutTimer, CardTimer, Overrides
<1>2. RingIn("flyout")' = RingIn("flyout") /\ RingIn("card")' = RingIn("card")
  BY <1>1 DEF RingIn
<1>3. capsule' \in Capsules /\ CapsuleFits(capsule')
  <2>1. CASE capsule' = [capsule EXCEPT !.open = FALSE, !.todo = FALSE, !.seen = None]
    BY <2>1 DEF Capsules, CapsuleFits
  <2> QED BY <2>1 DEF CapsuleTimer, FlyoutTimer, CardTimer, Overrides
<1>4. /\ flyout' \in Flyouts /\ FlyoutFits(flyout', RingIn("flyout"), pointer)
      /\ flyout'.open = flyout.open /\ flyout'.look = flyout.look /\ flyout'.rail = flyout.rail
  <2>1. CASE UNCHANGED flyout
    BY <2>1
  <2>2. CASE FlyoutTimer
    <3> DEFINE back == ApplyBackdrop(flyout.look.material)
    <3>1. ~flyout.young /\ flyout' = [flyout EXCEPT !.timer = FALSE, !.back = back] /\ back \in {"none", "auto", "transient"}
      BY <2>2, BackdropsAreBackdrops DEF FlyoutTimer
    <3> HIDE DEF back
    <3>2. flyout' \in Flyouts
      BY <3>1 DEF Flyouts
    <3>3. /\ flyout'.open = flyout.open /\ flyout'.todo = flyout.todo /\ flyout'.seen = flyout.seen /\ flyout'.back = back
          /\ flyout'.look = flyout.look /\ flyout'.rail = flyout.rail /\ flyout'.hover = flyout.hover /\ flyout'.cross = flyout.cross
          /\ flyout'.armed = flyout.armed /\ flyout'.young = flyout.young /\ flyout'.wiped = flyout.wiped
      BY <3>1 DEF Flyouts
    <3> QED BY <3>1, <3>2, <3>3 DEF FlyoutFits, back
  <2>3. CASE flyout.young /\ flyout' = [flyout EXCEPT !.young = FALSE, !.back = "auto", !.todo = @ \ {"window"},
                                                    !.wiped = flyout.open /\ (@ \/ "window" \in flyout.todo)]
    <3> DEFINE owed == flyout.todo \ {"window"}
               wiped == flyout.open /\ (flyout.wiped \/ "window" \in flyout.todo)
    <3>1. owed \in SUBSET {"window", "cross"} /\ wiped \in BOOLEAN
      BY DEF Flyouts
    <3>2. flyout' = [flyout EXCEPT !.young = FALSE, !.back = "auto", !.todo = owed, !.wiped = wiped]
      BY <2>3 DEF Flyouts
    <3>3. /\ ~wiped /\ flyout.open => ~flyout.wiped /\ "window" \notin flyout.todo
          /\ ~flyout.open => ~wiped
          /\ "cross" \notin owed => "cross" \notin flyout.todo
      OBVIOUS
    <3> HIDE DEF owed, wiped
    <3>4. flyout' \in Flyouts
      BY <3>1, <3>2 DEF Flyouts
    <3>5. /\ flyout'.open = flyout.open /\ flyout'.todo = owed /\ flyout'.seen = flyout.seen /\ flyout'.timer = flyout.timer
          /\ flyout'.look = flyout.look /\ flyout'.rail = flyout.rail /\ flyout'.hover = flyout.hover /\ flyout'.cross = flyout.cross
          /\ flyout'.armed = flyout.armed /\ ~flyout'.young /\ flyout'.wiped = wiped
      BY <3>1, <3>2 DEF Flyouts
    <3> QED BY <2>3, <3>3, <3>4, <3>5 DEF FlyoutFits
  <2> QED BY <2>1, <2>2, <2>3 DEF CapsuleTimer, FlyoutTimer, CardTimer, Overrides
<1>5. /\ helpCard' \in HelpCards /\ CardFits(helpCard', RingIn("card"), pointer)
      /\ helpCard'.open = helpCard.open /\ helpCard'.look = helpCard.look /\ helpCard'.rows = helpCard.rows
  <2>1. CASE UNCHANGED helpCard
    BY <2>1
  <2>2. CASE CardTimer
    <3>1. ~helpCard.young /\ helpCard' = [helpCard EXCEPT !.timer = FALSE, !.back = "none"]
      BY <2>2 DEF CardTimer, ApplyBackdrop
    <3>2. helpCard' \in HelpCards
      BY <3>1 DEF HelpCards
    <3>3. /\ helpCard'.open = helpCard.open /\ helpCard'.todo = helpCard.todo /\ helpCard'.seen = helpCard.seen /\ helpCard'.back = "none"
          /\ helpCard'.look = helpCard.look /\ helpCard'.rows = helpCard.rows /\ helpCard'.hover = helpCard.hover
          /\ helpCard'.armed = helpCard.armed /\ helpCard'.young = helpCard.young /\ helpCard'.wiped = helpCard.wiped
      BY <3>1 DEF HelpCards
    <3> QED BY <3>1, <3>2, <3>3 DEF CardFits
  <2>3. CASE helpCard.young /\ helpCard' = [helpCard EXCEPT !.young = FALSE, !.back = "auto", !.todo = FALSE,
                                                       !.wiped = helpCard.open /\ (@ \/ helpCard.todo)]
    <3> DEFINE wiped == helpCard.open /\ (helpCard.wiped \/ helpCard.todo)
    <3>1. wiped \in BOOLEAN
      BY DEF HelpCards
    <3>2. helpCard' = [helpCard EXCEPT !.young = FALSE, !.back = "auto", !.todo = FALSE, !.wiped = wiped]
      BY <2>3 DEF HelpCards
    <3>3. /\ ~wiped /\ helpCard.open => ~helpCard.wiped /\ ~helpCard.todo
          /\ ~helpCard.open => ~wiped
      OBVIOUS
    <3> HIDE DEF wiped
    <3>4. helpCard' \in HelpCards
      BY <3>1, <3>2 DEF HelpCards
    <3>5. /\ helpCard'.open = helpCard.open /\ helpCard'.seen = helpCard.seen /\ helpCard'.timer = helpCard.timer
          /\ helpCard'.look = helpCard.look /\ helpCard'.rows = helpCard.rows /\ helpCard'.hover = helpCard.hover
          /\ helpCard'.armed = helpCard.armed /\ ~helpCard'.young /\ helpCard'.wiped = wiped
      BY <3>1, <3>2 DEF HelpCards
    <3> QED BY <2>3, <3>3, <3>4, <3>5 DEF CardFits
  <2> QED BY <2>1, <2>2, <2>3 DEF CapsuleTimer, FlyoutTimer, CardTimer, Overrides
<1> QED BY <1>1, <1>2, <1>3, <1>4, <1>5, HostUntouched

\* The focus that leaves a closing window takes no ring from the other one.
LEMMA FocusLeaves ==
    ASSUME NEW surface, FocusLeft(surface), focusOn \in Targets \cup {None}, NEW other, other # surface
    PROVE  focusOn' \in Targets \cup {None} /\ RingIn(other)' = RingIn(other)
  BY DEF FocusLeft, RingIn

\* The pointer alters only what of the help card it may.
LEMMA CardAltered ==
    ASSUME NEW h \in HelpCards, NEW a \in BOOLEAN, NEW b \in BOOLEAN, NEW c \in BOOLEAN
    PROVE  [h EXCEPT !.armed = a, !.hover = b, !.todo = c] \in HelpCards
BY DEF HelpCards

\* A closed help card is a help card.
LEMMA CardClosed ==
    ASSUME NEW h \in HelpCards, NEW b \in BOOLEAN
    PROVE  [h EXCEPT !.open = FALSE, !.seen = None, !.wiped = FALSE, !.armed = FALSE, !.hover = b, !.todo = FALSE] \in HelpCards
BY DEF HelpCards

LEMMA ClosingKeeps ==
    ASSUME CardsInv, CloseMixer \/ CloseHelp
    PROVE  CardsInv'
<1> USE DEF CardsInv, WindowTypes, HostTypes
<1>1. UNCHANGED <<capsule, chosen, registered, told, dusk, caps, pointer, unheard>>
  BY DEF CloseMixer, CloseHelp
<1>2. CASE CloseMixer
  <2>1. PICK left \in BOOLEAN : flyout' = [HiddenWindow(flyout, left) EXCEPT !.todo = {}]
    BY <1>2 DEF CloseMixer
  <2> DEFINE hover == flyout.hover /\ ~left
  <2>2. flyout' = [flyout EXCEPT !.open = FALSE, !.seen = None, !.wiped = FALSE, !.armed = FALSE, !.hover = hover, !.todo = {}]
    BY <2>1 DEF HiddenWindow, Flyouts
  <2>3. hover \in BOOLEAN
    BY DEF Flyouts
  <2> HIDE DEF hover
  <2>4. flyout' \in Flyouts
    BY <2>2, <2>3 DEF Flyouts
  <2>5. /\ ~flyout'.open /\ ~flyout'.armed /\ ~flyout'.wiped /\ flyout'.young = flyout.young /\ flyout'.timer = flyout.timer
        /\ flyout'.back = flyout.back /\ flyout'.look = flyout.look
    BY <2>2 DEF Flyouts
  <2>6. FlyoutFits(flyout', RingIn("flyout")', pointer')
    BY <2>5 DEF FlyoutFits
  <2>7. UNCHANGED helpCard /\ FocusLeft("flyout")
    BY <1>2 DEF CloseMixer
  <2>8. focusOn' \in Targets \cup {None} /\ RingIn("card")' = RingIn("card")
    BY <2>7, FocusLeaves
  <2> QED BY <1>1, <2>4, <2>5, <2>6, <2>7, <2>8, HostUntouched
<1>3. CASE CloseHelp
  <2>1. PICK left \in BOOLEAN : helpCard' = [HiddenWindow(helpCard, left) EXCEPT !.todo = FALSE]
    BY <1>3 DEF CloseHelp
  <2> DEFINE hover == helpCard.hover /\ ~left
  <2>2. helpCard' = [helpCard EXCEPT !.open = FALSE, !.seen = None, !.wiped = FALSE, !.armed = FALSE, !.hover = hover, !.todo = FALSE]
    BY <2>1 DEF HiddenWindow, HelpCards
  <2>3. hover \in BOOLEAN
    BY DEF HelpCards
  <2> HIDE DEF hover
  <2>4. helpCard' \in HelpCards
    BY <2>2, <2>3, CardClosed
  <2>5. /\ ~helpCard'.open /\ ~helpCard'.armed /\ ~helpCard'.wiped /\ helpCard'.young = helpCard.young /\ helpCard'.timer = helpCard.timer
    BY <2>2 DEF HelpCards
  <2>6. CardFits(helpCard', RingIn("card")', pointer')
    BY <2>5 DEF CardFits
  <2>7. UNCHANGED flyout /\ FocusLeft("card")
    BY <1>3 DEF CloseHelp
  <2>8. focusOn' \in Targets \cup {None} /\ RingIn("flyout")' = RingIn("flyout")
    BY <2>7, FocusLeaves
  <2> QED BY <1>1, <2>4, <2>5, <2>6, <2>7, <2>8, HostUntouched
<1> QED BY <1>2, <1>3

\* The control next to one in the Tab order is one of the window's.
LEMMA NeighboursAreStops ==
    ASSUME NEW order \in {MixerStops, HelpStops}, NEW control \in Range(order) \cup {"window"}, NEW back \in BOOLEAN
    PROVE  Neighbour(order, control, back) \in Range(order)
<1>1. /\ DOMAIN order = 1..Len(order) /\ Len(order) \in {3, 4}
      /\ Range(order) = {order[i] : i \in 1..Len(order)}
  BY DEF MixerStops, HelpStops, Range
<1>2. CASE control = "window"
  <2>1. "window" \notin Range(order)
    BY DEF MixerStops, HelpStops, Range
  <2>2. Neighbour(order, control, back) = order[1]
    BY <1>2 DEF Neighbour
  <2> QED BY <1>1, <2>2
<1>3. CASE control # "window"
  <2> DEFINE i == CHOOSE k \in DOMAIN order : order[k] = control
             at == ((i - 1 + IF back THEN Len(order) - 1 ELSE 1) % Len(order)) + 1
  <2>1. \E k \in DOMAIN order : order[k] = control
    BY <1>1, <1>3
  <2>2. i \in 1..Len(order)
    BY <1>1, <2>1
  <2> HIDE DEF i
  <2>3. at \in 1..Len(order)
    <3>1. CASE Len(order) = 3
      BY <2>2, <3>1
    <3>2. CASE Len(order) = 4
      BY <2>2, <3>2
    <3> QED BY <1>1, <3>1, <3>2
  <2>4. Neighbour(order, control, back) = order[at]
    BY <1>3 DEF Neighbour, i
  <2> HIDE DEF at
  <2> QED BY <1>1, <2>3, <2>4
<1> QED BY <1>2, <1>3

\* Where the focus moves, the rings it leaves and enters are painted again.
LEMMA MoveFocusKeeps ==
    ASSUME CardsInv, NEW t \in Targets \cup {None}, MoveFocus(t)
    PROVE  CardsInv'
<1> USE DEF CardsInv, WindowTypes, HostTypes
<1>1. UNCHANGED <<capsule, chosen, registered, told, dusk, caps, pointer, unheard>> /\ focusOn' = t
  BY DEF MoveFocus
<1>2. /\ flyout' \in Flyouts /\ FlyoutFits(flyout', RingIn("flyout")', pointer)
      /\ flyout'.open = flyout.open /\ flyout'.look = flyout.look /\ flyout'.rail = flyout.rail
  <2>1. CASE ~Shows(focusOn, "flyout") /\ ~Shows(t, "flyout")
    <3>1. RingIn("flyout")' = RingIn("flyout")
      BY <1>1, <2>1 DEF RingIn, Shows
    <3> QED BY <2>1, <3>1 DEF MoveFocus
  <2>2. CASE Shows(focusOn, "flyout") \/ Shows(t, "flyout")
    <3> DEFINE owed == flyout.todo \cup {"window"}
    <3>1. flyout' = [flyout EXCEPT !.todo = owed] /\ owed \in SUBSET {"window", "cross"} /\ "window" \in owed
      BY <2>2 DEF MoveFocus, Invalidated, Flyouts
    <3> HIDE DEF owed
    <3>2. flyout' \in Flyouts
      BY <3>1 DEF Flyouts
    <3>3. /\ flyout'.open = flyout.open /\ flyout'.todo = owed
          /\ flyout'.look = flyout.look /\ flyout'.rail = flyout.rail /\ flyout'.hover = flyout.hover
          /\ flyout'.armed = flyout.armed /\ flyout'.young = flyout.young /\ flyout'.timer = flyout.timer
          /\ flyout'.back = flyout.back /\ flyout'.wiped = flyout.wiped
      BY <3>1 DEF Flyouts
    <3> QED BY <3>1, <3>2, <3>3 DEF FlyoutFits
  <2> QED BY <2>1, <2>2
<1>3. /\ helpCard' \in HelpCards /\ CardFits(helpCard', RingIn("card")', pointer)
      /\ helpCard'.open = helpCard.open /\ helpCard'.look = helpCard.look /\ helpCard'.rows = helpCard.rows
  <2>1. CASE ~Shows(focusOn, "card") /\ ~Shows(t, "card")
    <3>1. RingIn("card")' = RingIn("card")
      BY <1>1, <2>1 DEF RingIn, Shows
    <3> QED BY <2>1, <3>1 DEF MoveFocus
  <2>2. CASE Shows(focusOn, "card") \/ Shows(t, "card")
    <3>1. helpCard' = [helpCard EXCEPT !.todo = TRUE]
      BY <2>2 DEF MoveFocus
    <3>2. helpCard' \in HelpCards
      BY <3>1 DEF HelpCards
    <3>3. /\ helpCard'.open = helpCard.open /\ helpCard'.todo
          /\ helpCard'.look = helpCard.look /\ helpCard'.rows = helpCard.rows /\ helpCard'.hover = helpCard.hover
          /\ helpCard'.armed = helpCard.armed /\ helpCard'.young = helpCard.young /\ helpCard'.timer = helpCard.timer
          /\ helpCard'.back = helpCard.back /\ helpCard'.wiped = helpCard.wiped
      BY <3>1 DEF HelpCards
    <3> QED BY <3>2, <3>3 DEF CardFits
  <2> QED BY <2>1, <2>2
<1> QED BY <1>1, <1>2, <1>3, HostUntouched

LEMMA FocusKeeps ==
    ASSUME CardsInv, Focus \/ TabKey
    PROVE  CardsInv'
<1>1. CASE Focus
  BY <1>1, MoveFocusKeeps DEF Focus
<1>2. CASE TabKey
  <2>1. focusOn \in Targets
    BY <1>2 DEF TabKey, CardsInv, HostTypes
  <2>2. PICK back \in BOOLEAN :
           MoveFocus(<<focusOn[1], Neighbour(IF focusOn[1] = "flyout" THEN MixerStops ELSE HelpStops, focusOn[2], back)>>)
    BY <1>2 DEF TabKey
  <2>3. CASE focusOn[1] = "flyout" /\ focusOn[2] \in Range(MixerStops) \cup {"window"}
    <3>1. Neighbour(MixerStops, focusOn[2], back) \in Range(MixerStops)
      BY <2>3, NeighboursAreStops
    <3>2. <<"flyout", Neighbour(MixerStops, focusOn[2], back)>> \in Targets
      BY <3>1 DEF Targets
    <3> QED BY <2>2, <2>3, <3>2, MoveFocusKeeps
  <2>4. CASE focusOn[1] = "card" /\ focusOn[2] \in Range(HelpStops) \cup {"window"}
    <3>1. Neighbour(HelpStops, focusOn[2], back) \in Range(HelpStops)
      BY <2>4, NeighboursAreStops
    <3>2. <<"card", Neighbour(HelpStops, focusOn[2], back)>> \in Targets
      BY <3>1 DEF Targets
    <3> QED BY <2>2, <2>4, <3>2, MoveFocusKeeps
  <2> QED BY <2>1, <2>3, <2>4 DEF Targets
<1> QED BY <1>1, <1>2

\* Wherever Windows says the pointer is, a cross that is highlighted has it, and is painted so.
LEMMA PointerKeeps ==
    ASSUME CardsInv, PointerMoves
    PROVE  CardsInv'
<1> USE DEF CardsInv, WindowTypes, HostTypes
<1>1. UNCHANGED <<capsule, chosen, registered, told, dusk, caps, focusOn, unheard>>
  BY DEF PointerMoves
<1>2. RingIn("flyout")' = RingIn("flyout") /\ RingIn("card")' = RingIn("card")
  BY <1>1 DEF RingIn
<1>3. flyout' = OverFlyout(pointer') /\ helpCard' = OverCard(pointer')
  BY DEF PointerMoves
<1>4. /\ flyout' \in Flyouts /\ FlyoutFits(flyout', RingIn("flyout"), pointer')
      /\ flyout'.open = flyout.open /\ flyout'.look = flyout.look /\ flyout'.rail = flyout.rail
  <2> DEFINE owed == flyout.todo \cup {"cross"}
             left == IF flyout.hover THEN owed ELSE flyout.todo
  <2>1. /\ owed \in SUBSET {"window", "cross"} /\ "cross" \in owed /\ ("window" \in owed <=> "window" \in flyout.todo)
        /\ left \in SUBSET {"window", "cross"} /\ (flyout.hover => "cross" \in left) /\ (~flyout.hover => left = flyout.todo)
        /\ ("window" \in left <=> "window" \in flyout.todo)
    BY DEF Flyouts
  <2>2. CASE pointer' = "flyoutCross" /\ flyout.open /\ ~flyout.hover
    <3>1. flyout' = [flyout EXCEPT !.hover = TRUE, !.armed = TRUE, !.todo = owed]
      BY <1>3, <2>2 DEF OverFlyout, Flyouts
    <3> HIDE DEF owed, left
    <3>2. flyout' \in Flyouts
      BY <2>1, <3>1 DEF Flyouts
    <3>3. /\ flyout'.open = flyout.open /\ flyout'.todo = owed /\ flyout'.seen = flyout.seen /\ flyout'.hover /\ flyout'.armed
          /\ flyout'.look = flyout.look /\ flyout'.rail = flyout.rail /\ flyout'.young = flyout.young
          /\ flyout'.timer = flyout.timer /\ flyout'.back = flyout.back /\ flyout'.wiped = flyout.wiped
      BY <3>1 DEF Flyouts
    <3> QED BY <2>1, <2>2, <3>2, <3>3 DEF FlyoutFits
  <2>3. CASE pointer' # "flyoutCross" /\ flyout.armed
    <3>1. flyout' = [flyout EXCEPT !.hover = FALSE, !.armed = FALSE, !.todo = left]
      BY <1>3, <2>3 DEF OverFlyout, Flyouts
    <3> HIDE DEF owed, left
    <3>2. flyout' \in Flyouts
      BY <2>1, <3>1 DEF Flyouts
    <3>3. /\ flyout'.open = flyout.open /\ flyout'.todo = left /\ flyout'.seen = flyout.seen /\ flyout'.hover = FALSE
          /\ flyout'.armed = FALSE /\ flyout'.cross = flyout.cross
          /\ flyout'.look = flyout.look /\ flyout'.rail = flyout.rail /\ flyout'.young = flyout.young
          /\ flyout'.timer = flyout.timer /\ flyout'.back = flyout.back /\ flyout'.wiped = flyout.wiped
      BY <3>1 DEF Flyouts
    <3>4. flyout.hover \in BOOLEAN
      BY DEF Flyouts
    <3> QED BY <2>1, <2>3, <3>2, <3>3, <3>4 DEF FlyoutFits
  <2>4. CASE flyout' = flyout /\ (pointer' = "flyoutCross" \/ ~flyout.armed)
    BY <2>4 DEF FlyoutFits
  <2> QED BY <1>3, <2>2, <2>3, <2>4 DEF OverFlyout
<1>5. /\ helpCard' \in HelpCards /\ CardFits(helpCard', RingIn("card"), pointer')
      /\ helpCard'.open = helpCard.open /\ helpCard'.look = helpCard.look /\ helpCard'.rows = helpCard.rows
  <2> DEFINE on == pointer' = "cardCross"
             in == pointer' \in {"card", "cardCross"} /\ helpCard.open
             hover == IF in \/ helpCard.armed THEN in /\ on ELSE helpCard.hover
             todo == helpCard.todo \/ ((in \/ helpCard.armed) /\ helpCard.hover # (in /\ on))
  <2>1. helpCard' = [helpCard EXCEPT !.armed = in, !.hover = hover, !.todo = todo]
    BY <1>3 DEF OverCard, HelpCards
  <2>2. in \in BOOLEAN /\ hover \in BOOLEAN /\ todo \in BOOLEAN
    BY DEF HelpCards
  <2>3. /\ in /\ hover => pointer' = "cardCross"
        /\ in => helpCard.open
        /\ ~todo => ~helpCard.todo /\ hover = helpCard.hover
    OBVIOUS
  <2> HIDE DEF on, in, hover, todo
  <2>4. helpCard' \in HelpCards
    BY <2>1, <2>2, CardAltered
  <2>5. /\ helpCard'.open = helpCard.open /\ helpCard'.todo = todo /\ helpCard'.seen = helpCard.seen
        /\ helpCard'.hover = hover /\ helpCard'.armed = in
        /\ helpCard'.look = helpCard.look /\ helpCard'.rows = helpCard.rows /\ helpCard'.young = helpCard.young
        /\ helpCard'.timer = helpCard.timer /\ helpCard'.back = helpCard.back /\ helpCard'.wiped = helpCard.wiped
    BY <2>1 DEF HelpCards
  <2> QED BY <2>2, <2>3, <2>4, <2>5 DEF CardFits
<1> QED BY <1>1, <1>2, <1>4, <1>5, HostUntouched

\* Nobody tells the windows that the system turned dark: what they owe is recorded.
LEMMA DuskKeeps ==
    ASSUME CardsInv, DuskFalls
    PROVE  CardsInv'
<1> USE DEF CardsInv, WindowTypes, HostTypes
<1>1. /\ UNCHANGED <<flyout, capsule, helpCard, chosen, registered, told, caps, pointer, focusOn>>
      /\ dusk' = ~dusk /\ unheard' = [w \in DOMAIN unheard |-> unheard[w] \cup {"dusk"}]
  BY DEF DuskFalls
<1>2. /\ unheard' \in [flyout : SUBSET {"read", "config", "dusk"}, card : SUBSET {"config", "dusk"}]
      /\ "dusk" \in unheard'.flyout /\ "dusk" \in unheard'.card
  BY <1>1
<1>3. RingIn("flyout")' = RingIn("flyout") /\ RingIn("card")' = RingIn("card")
  BY <1>1 DEF RingIn
<1> QED BY <1>1, <1>2, <1>3 DEF FlyoutHolds, CardHolds

LEMMA CardsStep ==
    ASSUME CardsInv, CardsNext
    PROVE  CardsInv'
  BY HostCardsKeep, PaintCardsKeep, ShowHelpKeeps, TimersKeep, ClosingKeeps, FocusKeeps, PointerKeeps, DuskKeeps DEF CardsNext

LEMMA CardsRest ==
    ASSUME CardsInv, UNCHANGED cards
    PROVE  CardsInv'
<1>1. UNCHANGED <<flyout, capsule, helpCard, chosen, registered, told, dusk, caps, pointer, focusOn, unheard>>
  BY DEF cards
<1>2. RingIn("flyout")' = RingIn("flyout") /\ RingIn("card")' = RingIn("card")
  BY <1>1 DEF RingIn
<1> QED BY <1>1, <1>2, HostUntouched DEF CardsInv, WindowTypes, HostTypes

\* A level of 0..100 fills a track of 368 to a place on it, and the marker stays six inside.
LEMMA RailsAgreeAlways == RailsAgree
<1> SUFFICES ASSUME NEW h \in Heard, NEW b \in Bounds
             PROVE  LET g == RailGeometry([heard |-> h, bounds |-> b], FlyoutTrack) IN
                    g.colour = VolumeColour(h, b) /\ g.fill \in 16..384 /\ g.marker.at \in 22..378
  BY DEF RailsAgree
<1>1. h.level \in 0..100
  BY CardsAssumption
<1> DEFINE fill == 16 + (368 * h.level) \div 100
           g == RailGeometry([heard |-> h, bounds |-> b], FlyoutTrack)
<1>2. fill \in 16..384
  BY <1>1
<1>3. g.fill = fill /\ g.marker.at = ClampCenter(fill, 22, 378) /\ g.colour = FillColour([heard |-> h, bounds |-> b])
  BY DEF RailGeometry, FlyoutTrack
<1>4. ClampCenter(fill, 22, 378) \in 22..378
  <2> HIDE DEF fill
  <2> QED BY <1>2 DEF ClampCenter
<1>5. FillColour([heard |-> h, bounds |-> b]) = VolumeColour(h, b)
  BY DEF FillColour, VolumeColour
<1> HIDE DEF fill, g
<1>6. g.colour = VolumeColour(h, b) /\ g.fill \in 16..384 /\ g.marker.at \in 22..378
  BY <1>2, <1>3, <1>4, <1>5
<1> QED BY <1>6 DEF g

\* A picture is of the look, the rail and the rows: two windows that hold the same have the same.
LEMMA PicturesFollow ==
    ASSUME CardsInv
    PROVE  PicturesAreCurrent
<1> USE DEF CardsInv
<1>1. capsule.open /\ ~capsule.todo => CapsulePicture(capsule.seen) = CapsulePicture(capsule)
  BY DEF CapsuleFits, CapsulePicture
<1>2. ASSUME helpCard.open, ~helpCard.todo, ~helpCard.wiped
      PROVE  CardPicture(helpCard.seen) = CardPicture(helpCard) /\ helpCard.seen.ring = RingIn("card")
  <2>1. /\ helpCard.seen.look = helpCard.look /\ helpCard.seen.rows = helpCard.rows
        /\ helpCard.seen.hover = helpCard.hover /\ helpCard.seen.ring = RingIn("card")
    BY <1>2 DEF CardFits
  <2>2. CalloutPicture(helpCard.seen) = CalloutPicture(helpCard)
    BY <2>1, Zenon DEF CalloutPicture
  <2> QED BY <2>1, <2>2, Zenon DEF CardPicture
<1>3. flyout.open /\ flyout.todo = {} /\ ~flyout.wiped => flyout.cross = flyout.hover
  BY DEF FlyoutFits
<1>4. flyout.open /\ "window" \notin flyout.todo /\ ~flyout.wiped
         => FlyoutPicture(flyout.seen) = FlyoutPicture(flyout) /\ flyout.seen.ring = RingIn("flyout")
  <2> SUFFICES ASSUME flyout.open, "window" \notin flyout.todo, ~flyout.wiped
               PROVE  FlyoutPicture(flyout.seen) = FlyoutPicture(flyout) /\ flyout.seen.ring = RingIn("flyout")
    OBVIOUS
  <2>1. flyout.seen.look = flyout.look /\ flyout.seen.rail = flyout.rail /\ flyout.seen.ring = RingIn("flyout")
    BY DEF FlyoutFits
  <2> QED BY <2>1, Zenon DEF FlyoutPicture
<1> QED BY <1>1, <1>2, <1>3, <1>4, Zenon DEF PicturesAreCurrent

LEMMA CardsTell ==
    ASSUME CardsInv
    PROVE  HeldIsConfirmed /\ HighlightIsThePointers /\ BackdropSettles
  BY DEF CardsInv, FlyoutFits, CardFits, FlyoutHolds, CardHolds, HeldIsConfirmed, HighlightIsThePointers, BackdropSettles

\* The painted windows of the native Windows program are honest (mixer.rs, overlay.rs, help.rs,
\* ui/signal_rail.rs): an open window shows what it holds unless a painting is owed, or DWM took it
\* for painted; it holds what was last read under the running config, and the registrations it was
\* opened with; a lit close button has the pointer on it, where Windows tells of its leaving; the
\* backdrop settles; and the rail has core's colour - whatever sounds, thresholds, modifiers and
\* registrations, and however many inputs and failed paints.
THEOREM CardsStayHonest == Spec => []CardsAreHonest
<1>1. Init => CardsInv
  BY CardsStart DEF Init
<1>2. CardsInv /\ [Next]_vars => CardsInv'
  BY CardsStep, CardsRest DEF Next, vars
<1>3. CardsInv => CardsAreHonest
  BY PicturesFollow, CardsTell, RailsAgreeAlways DEF CardsAreHonest
<1> QED BY <1>1, <1>2, <1>3, PTL DEF Spec

-----------------------------------------------------------------------------
(* The settings window of the egui host.                                    *)

\* The folds below unfold as FoldFacts says: a drained queue, the windows of a desktop.
Draining == INSTANCE FoldFacts WITH Step <- Handle
Visiting == INSTANCE FoldFacts WITH Step <- Visit

Events == [kind : {"overlay"}, config : Configs] \cup {OpenEvent, CloseEvent, OtherEvent}
WindowStates == [mirror : Configs, draft : Drafts, baseline : Configs, shown : BOOLEAN,
                 recorder : BOOLEAN, error : {"none", "field", "config"}]

CopiesTyped == core \in Configs /\ file \in Configs /\ edited \in BOOLEAN
WindowTyped ==
    /\ mirror \in Configs /\ baseline \in Configs /\ draft \in Drafts /\ pending \in Presets \cup {None}
    /\ shown \in BOOLEAN /\ recorder \in BOOLEAN /\ error \in {"none", "field", "config"}
FrameTyped ==
    /\ pc \in {"idle", "poll", "wheel", "updates", "tray", "view"} /\ queue \in Seq(Events)
    /\ inputs \in 0..MaxInputs /\ faults \in 0..MaxFaults /\ late \in BOOLEAN
EguiTyped == CopiesTyped /\ WindowTyped /\ FrameTyped

\* No overlay in q speaks after position i.
LastWord(q, i) == q[i].kind = "overlay" /\ \A j \in DOMAIN q : j > i => q[j].kind # "overlay"
\* What the events of q leave in the mirror, m before them, is c.
Tells(q, m, c) ==
    /\ \A i \in DOMAIN q : LastWord(q, i) => q[i].config = c
    /\ (\A i \in DOMAIN q : q[i].kind # "overlay") => m = c
\* The mirror follows once the queue is drained; a window that is asked to close is closed.
QueueTells == ~late => Tells(queue, mirror, core)
ClosedAtOnce == shown => \A i \in DOMAIN queue : queue[i].kind # "close"
\* A download is of the release the card names, unless a check replaced that.
LabelHolds == download # None => relabelled \/ release = download.of

CardInv == CardTypeOK /\ LabelHolds /\ OfferIsOnDisk
EguiInv == EguiTyped /\ QueueTells /\ ClosedAtOnce /\ CardInv

-----------------------------------------------------------------------------
(* The card. *)

LEMMA CardStarts == ASSUME CardInit PROVE CardInv
<1> USE NewestAssumption, NoneIsNoRelease DEF CardInit
<1>1. CardTypeOK
  <2>1. card \in [phase : Phases, version : (0..Newest) \cup {None}]
    BY DEF Card, Phases
  <2>2. check \in [state : {"none", "running", "failed", "found"}, found : 0..Newest]
    BY DEF NoCheck, Check
  <2>3. quitting \in BOOLEAN /\ relabelled \in BOOLEAN
    BY Zenon
  <2> QED BY <2>1, <2>2, <2>3 DEF CardTypeOK
<1> QED BY <1>1 DEF CardInv, LabelHolds, OfferIsOnDisk, Card

LEMMA CardRests == ASSUME CardInv, UNCHANGED cardVars PROVE CardInv'
BY DEF CardInv, CardTypeOK, LabelHolds, OfferIsOnDisk, cardVars, Phases

CardStep ==
    \/ CheckThread \/ DownloadThread \/ CheckFound \/ CheckFailed \/ DownloadReady \/ DownloadFailed
    \/ StartCheck \/ CheckUpdates \/ DownloadUpdate \/ InstallUpdate \/ DismissUpdate

LEMMA NewerIsRelease == ASSUME NEW n \in 0..Newest PROVE Newer(n) \in (1..Newest) \cup {None}
BY NewestAssumption DEF Newer

LEMMA CardSteps == ASSUME CardInv, CardStep PROVE CardInv'
<1> USE NewestAssumption, NoneIsNoRelease
<1>0. CardTypeOK /\ LabelHolds /\ OfferIsOnDisk
  BY DEF CardInv
<1>1. CASE CheckThread
  <2>1. check' \in [state : {"none", "running", "failed", "found"}, found : 0..Newest]
    BY <1>1 DEF CheckThread, Check
  <2> QED BY <1>0, <1>1, <2>1 DEF CheckThread, CardInv, CardTypeOK, LabelHolds, OfferIsOnDisk
<1>2. CASE DownloadThread
  <2>1. download \in [of : 1..Newest, done : BOOLEAN, ok : BOOLEAN]
    BY <1>0, <1>2 DEF DownloadThread, CardTypeOK
  <2>2. download' \in [of : 1..Newest, done : BOOLEAN, ok : BOOLEAN] /\ download'.of = download.of
    BY <1>2, <2>1 DEF DownloadThread
  <2> QED BY <1>0, <1>2, <2>1, <2>2 DEF DownloadThread, CardInv, CardTypeOK, LabelHolds, OfferIsOnDisk
<1>3. CASE CheckFound
  <2>1. check.found \in 0..Newest
    BY <1>0 DEF CardTypeOK
  <2>2. Newer(check.found) \in (1..Newest) \cup {None}
    BY <2>1, NewerIsRelease
  <2>3. card' \in [phase : Phases, version : (0..Newest) \cup {None}] /\ card'.phase # "ready"
    BY <1>3, <2>1 DEF CheckFound, Card, Phases
  <2>4. check' \in [state : {"none", "running", "failed", "found"}, found : 0..Newest]
    BY <1>3 DEF CheckFound, NoCheck, Check
  <2>5. relabelled' \in BOOLEAN /\ LabelHolds'
    BY <1>0, <1>3 DEF CheckFound, LabelHolds, CardTypeOK
  <2> QED BY <1>0, <1>3, <2>2, <2>3, <2>4, <2>5 DEF CheckFound, CardInv, CardTypeOK, OfferIsOnDisk
<1>4. CASE CheckFailed
  <2>1. check' \in [state : {"none", "running", "failed", "found"}, found : 0..Newest]
    BY <1>4 DEF CheckFailed, NoCheck, Check
  <2>2. card' \in [phase : Phases, version : (0..Newest) \cup {None}] /\ card'.phase # "ready"
    BY <1>4 DEF CheckFailed, Card, Phases
  <2> QED BY <1>0, <1>4, <2>1, <2>2 DEF CheckFailed, CardInv, CardTypeOK, LabelHolds, OfferIsOnDisk
<1>5. CASE DownloadReady
  <2>1. download.of \in 1..Newest /\ download.of # None
    BY <1>0, <1>5 DEF DownloadReady, CardTypeOK
  <2>2. card' \in [phase : Phases, version : (0..Newest) \cup {None}]
    BY <1>0, <1>5 DEF DownloadReady, CardTypeOK, Card, Phases
  <2>3. relabelled \/ release = download.of
    BY <1>0, <1>5 DEF DownloadReady, LabelHolds
  <2>4. card'.version = release
    BY <1>5 DEF DownloadReady, Card
  <2> QED BY <1>0, <1>5, <2>1, <2>2, <2>3, <2>4 DEF DownloadReady, CardInv, CardTypeOK, LabelHolds, OfferIsOnDisk
<1>6. CASE DownloadFailed
  <2>1. card' \in [phase : Phases, version : (0..Newest) \cup {None}] /\ card'.phase # "ready"
    BY <1>6 DEF DownloadFailed, Card, Phases
  <2> QED BY <1>0, <1>6, <2>1 DEF DownloadFailed, CardInv, CardTypeOK, LabelHolds, OfferIsOnDisk
<1>7. CASE StartCheck
  <2>1. check' \in [state : {"none", "running", "failed", "found"}, found : 0..Newest]
    BY <1>7 DEF StartCheck, Check
  <2>2. card' \in [phase : Phases, version : (0..Newest) \cup {None}] /\ card'.phase # "ready"
    BY <1>7 DEF StartCheck, Card, Phases
  <2> QED BY <1>0, <1>7, <2>1, <2>2 DEF StartCheck, CardInv, CardTypeOK, LabelHolds, OfferIsOnDisk
<1>8. CASE DownloadUpdate
  <2>1. release \in 1..Newest
    BY <1>0, <1>8 DEF DownloadUpdate, CardTypeOK
  <2>2. download' \in [of : 1..Newest, done : BOOLEAN, ok : BOOLEAN] /\ download'.of = release
    BY <1>8, <2>1 DEF DownloadUpdate
  <2>3. card' \in [phase : Phases, version : (0..Newest) \cup {None}] /\ card'.phase # "ready"
    BY <1>8 DEF DownloadUpdate, Card, Phases
  <2> QED BY <1>0, <1>8, <2>2, <2>3 DEF DownloadUpdate, CardInv, CardTypeOK, LabelHolds, OfferIsOnDisk
<1>9. CASE InstallUpdate
  <2>1. card' \in [phase : Phases, version : (0..Newest) \cup {None}] /\ card'.phase # "ready"
    BY <1>0, <1>9 DEF InstallUpdate, CardTypeOK, Card, Phases
  <2>2. quitting' \in BOOLEAN
    BY <1>0, <1>9 DEF InstallUpdate, CardTypeOK
  <2> QED BY <1>0, <1>9, <2>1, <2>2 DEF InstallUpdate, CardInv, CardTypeOK, LabelHolds, OfferIsOnDisk
<1>10. CASE DismissUpdate
  <2>1. card' \in [phase : Phases, version : (0..Newest) \cup {None}] /\ card'.phase # "ready"
    BY <1>10 DEF DismissUpdate, Card, Phases
  <2> QED BY <1>0, <1>10, <2>1 DEF DismissUpdate, CardInv, CardTypeOK, LabelHolds, OfferIsOnDisk
<1>11. CheckUpdates => StartCheck
  BY DEF CheckUpdates
<1> QED BY <1>1, <1>2, <1>3, <1>4, <1>5, <1>6, <1>7, <1>8, <1>9, <1>10, <1>11 DEF CardStep

-----------------------------------------------------------------------------
(* The queue. *)

LEMMA EventShapes ==
    ASSUME NEW e \in Events
    PROVE  /\ e.kind \in {"overlay", "open", "close", "other"}
           /\ e.kind = "overlay" => e.config \in Configs
           /\ (e.kind = "open" => e = OpenEvent) /\ (e.kind = "other" => e = OtherEvent)
BY DEF Events, OpenEvent, CloseEvent, OtherEvent

LEMMA QueueHas == ASSUME NEW q \in Seq(Events), NEW i \in DOMAIN q PROVE q[i] \in Events
OBVIOUS

\* Events behind the others speak last.
LEMMA AppendTells ==
    ASSUME NEW q \in Seq(Events), NEW e \in Events, NEW m, NEW c
    PROVE  /\ e.kind = "overlay" /\ e.config = c => Tells(Append(q, e), m, c)
           /\ e.kind = "overlay" /\ Tells(Append(q, e), m, c) => e.config = c
           /\ e.kind # "overlay" => (Tells(q, m, c) <=> Tells(Append(q, e), m, c))
<1> DEFINE n == Len(q)
           r == Append(q, e)
<1>1. /\ n \in Nat /\ DOMAIN q = 1..n /\ DOMAIN r = 1..(n + 1)
      /\ r[n + 1] = e /\ \A i \in 1..n : r[i] = q[i]
  OBVIOUS
<1> HIDE DEF n, r
<1>2. LastWord(r, n + 1) <=> e.kind = "overlay"
  BY <1>1 DEF LastWord
<1>3. ASSUME e.kind = "overlay" PROVE Tells(r, m, c) <=> e.config = c
  <2>1. \A i \in DOMAIN r : LastWord(r, i) => i = n + 1
    BY <1>1, <1>3 DEF LastWord
  <2>2. n + 1 \in DOMAIN r
    BY <1>1
  <2> QED BY <1>1, <1>2, <1>3, <2>1, <2>2 DEF Tells
<1>4. ASSUME e.kind # "overlay" PROVE Tells(q, m, c) <=> Tells(r, m, c)
  <2>1. \A i \in 1..n : LastWord(q, i) <=> LastWord(r, i)
    BY <1>1, <1>4 DEF LastWord
  <2>2. ~ LastWord(r, n + 1)
    BY <1>1, <1>4 DEF LastWord
  <2>3. (\A i \in DOMAIN q : LastWord(q, i) => q[i].config = c)
        <=> (\A i \in DOMAIN r : LastWord(r, i) => r[i].config = c)
    BY <1>1, <2>1, <2>2
  <2>4. (\A i \in DOMAIN q : q[i].kind # "overlay") <=> (\A i \in DOMAIN r : r[i].kind # "overlay")
    BY <1>1, <1>4
  <2> QED BY <2>3, <2>4 DEF Tells
<1> QED BY <1>3, <1>4 DEF r

LEMMA NothingTells == ASSUME NEW m, NEW c PROVE Tells(<<>>, m, c) <=> m = c
BY DEF Tells

LEMMA EventsTyped ==
    /\ OpenEvent \in Events /\ CloseEvent \in Events /\ OtherEvent \in Events
    /\ OpenEvent.kind = "open" /\ CloseEvent.kind = "close" /\ OtherEvent.kind = "other"
    /\ \A c \in Configs : Overlay(c) \in Events /\ Overlay(c).kind = "overlay" /\ Overlay(c).config = c
BY DEF Events, OpenEvent, CloseEvent, OtherEvent, Overlay

LEMMA DraftFits == ASSUME NEW c \in Configs PROVE DraftOf(c) \in Drafts
BY DEF DraftOf, Drafts, Configs

\* The draft of t is the one of s, or it was rebased.
Rebased(s, t) == t.draft = s.draft \/ t.draft = DraftOf(t.baseline)

LEMMA HandleTyped ==
    ASSUME NEW s \in WindowStates, NEW e \in Events
    PROVE  /\ Handle(s, e) \in WindowStates
           /\ Handle(s, e).mirror = (IF e.kind = "overlay" THEN e.config ELSE s.mirror)
           /\ \/ Handle(s, e).draft = s.draft /\ Handle(s, e).baseline = s.baseline
              \/ Handle(s, e).draft = DraftOf(Handle(s, e).baseline)
           /\ s.shown => Handle(s, e).draft = s.draft
           /\ e.kind # "open" => Handle(s, e).draft = s.draft
           /\ s.shown /\ e.kind \in {"overlay", "open"} => Handle(s, e).shown
<1>1. e.kind \in {"overlay", "open", "close", "other"} /\ (e.kind = "overlay" => e.config \in Configs)
  BY EventShapes
<1>2. CASE e.kind = "overlay"
  <2>1. Handle(s, e) = [s EXCEPT !.mirror = e.config]
    BY <1>2 DEF Handle
  <2> QED BY <1>1, <1>2, <2>1 DEF WindowStates
<1>3. CASE e.kind = "open"
  <2>1. Handle(s, e) = IF s.shown THEN s ELSE ReopenRebases(s)
    BY <1>3 DEF Handle, Opened
  <2>2. s.mirror \in Configs /\ DraftOf(s.mirror) \in Drafts
    BY DraftFits DEF WindowStates
  <2>3. /\ ReopenRebases(s) \in WindowStates /\ ReopenRebases(s).mirror = s.mirror
        /\ ReopenRebases(s).draft = DraftOf(s.mirror) /\ ReopenRebases(s).baseline = s.mirror
        /\ ReopenRebases(s).shown
    BY <2>2 DEF ReopenRebases, WindowStates
  <2>4. CASE s.shown
    BY <1>3, <2>1, <2>4
  <2>5. CASE ~s.shown
    BY <1>3, <2>1, <2>3, <2>5
  <2> QED BY <2>4, <2>5
<1>4. CASE e.kind \in {"close", "other"}
  <2>1. Handle(s, e) = [s EXCEPT !.shown = FALSE]
    BY <1>4 DEF Handle, Withdrawn
  <2> QED BY <1>4, <2>1 DEF WindowStates
<1> QED BY <1>1, <1>2, <1>3, <1>4

\* In q the mixer or the help takes the place of the settings, and they come back.
ReopenedIn(q) == \E i, j \in DOMAIN q : i < j /\ q[i] = OtherEvent /\ q[j] = OpenEvent
\* A window that is open before q finds nothing in it to lose its draft to.
Spares(q, s) == s.shown /\ ~ReopenedIn(q) /\ \A i \in DOMAIN q : q[i].kind # "close"
HidIn(q) == \E i \in DOMAIN q : q[i] = OtherEvent

LEMMA AppendSpares ==
    ASSUME NEW p \in Seq(Events), NEW e \in Events, NEW s
    PROVE  Spares(Append(p, e), s) => /\ Spares(p, s) /\ e.kind # "close"
                                      /\ e.kind = "open" => ~HidIn(p)
                                      /\ ~HidIn(Append(p, e)) => ~HidIn(p) /\ e.kind # "other"
<1> DEFINE n == Len(p)
           r == Append(p, e)
<1>1. /\ n \in Nat /\ DOMAIN p = 1..n /\ DOMAIN r = 1..(n + 1)
      /\ r[n + 1] = e /\ \A i \in 1..n : r[i] = p[i]
  OBVIOUS
<1>2. (e.kind = "open" => e = OpenEvent) /\ (e.kind = "other" => e = OtherEvent)
  BY EventShapes
<1> HIDE DEF n, r
<1>3. ReopenedIn(p) => ReopenedIn(r)
  BY <1>1 DEF ReopenedIn
<1>4. HidIn(p) /\ e = OpenEvent => ReopenedIn(r)
  <2> SUFFICES ASSUME NEW i \in DOMAIN p, p[i] = OtherEvent, e = OpenEvent PROVE ReopenedIn(r)
    BY DEF HidIn
  <2>1. i \in DOMAIN r /\ n + 1 \in DOMAIN r /\ i < n + 1 /\ r[i] = OtherEvent /\ r[n + 1] = OpenEvent
    BY <1>1
  <2> QED BY <2>1 DEF ReopenedIn
<1>5. ~HidIn(r) => ~HidIn(p) /\ e # OtherEvent
  BY <1>1 DEF HidIn
<1>6. (\A i \in DOMAIN r : r[i].kind # "close") => e.kind # "close" /\ \A i \in DOMAIN p : p[i].kind # "close"
  BY <1>1
<1> QED BY <1>2, <1>3, <1>4, <1>5, <1>6 DEF Spares, r

\* Whatever was queued, draining it leaves the window typed, the mirror as told, and the
\* draft as it was or rebased; an open window keeps it if the queue spares it.
LEMMA DrainFollows ==
    ASSUME NEW s \in WindowStates, NEW q \in Seq(Events), NEW c
    PROVE  LET t == FoldLeft(Handle, s, q)
           IN  /\ t \in WindowStates
               /\ Tells(q, s.mirror, c) => t.mirror = c
               /\ Rebased(s, t)
               /\ Spares(q, s) => t.draft = s.draft
<1> DEFINE DraftKept(t) == (t.draft = s.draft /\ t.baseline = s.baseline) \/ t.draft = DraftOf(t.baseline)
           R == {r \in Seq(Events) \X WindowStates :
                    /\ Tells(r[1], s.mirror, c) => r[2].mirror = c
                    /\ DraftKept(r[2])
                    /\ Spares(r[1], s) => r[2].draft = s.draft /\ (HidIn(r[1]) \/ r[2].shown)}
<1>1. <<<<>>, s>> \in R
  <2>1. <<>> \in Seq(Events) /\ (Tells(<<>>, s.mirror, c) => s.mirror = c)
    BY NothingTells
  <2>2. <<<<>>, s>> \in Seq(Events) \X WindowStates
    BY <2>1
  <2>3. Spares(<<>>, s) => s.shown
    BY DEF Spares
  <2> QED BY <2>1, <2>2, <2>3
<1>2. ASSUME NEW p \in Seq(Events), NEW e \in Events, NEW a, <<p, a>> \in R
      PROVE  <<Append(p, e), Handle(a, e)>> \in R
  <2> DEFINE b == Handle(a, e)
             r == Append(p, e)
  <2>1. a \in WindowStates /\ (Tells(p, s.mirror, c) => a.mirror = c) /\ DraftKept(a)
        /\ (Spares(p, s) => a.draft = s.draft /\ (HidIn(p) \/ a.shown))
    BY <1>2
  <2>2. /\ b \in WindowStates /\ b.mirror = (IF e.kind = "overlay" THEN e.config ELSE a.mirror)
        /\ (b.draft = a.draft /\ b.baseline = a.baseline) \/ b.draft = DraftOf(b.baseline)
        /\ a.shown => b.draft = a.draft
        /\ e.kind # "open" => b.draft = a.draft
        /\ a.shown /\ e.kind \in {"overlay", "open"} => b.shown
    BY <2>1, HandleTyped
  <2>3. r \in Seq(Events)
    OBVIOUS
  <2>4. /\ e.kind = "overlay" /\ Tells(r, s.mirror, c) => e.config = c
        /\ e.kind # "overlay" => (Tells(p, s.mirror, c) <=> Tells(r, s.mirror, c))
    BY AppendTells
  <2>5. Spares(r, s) => /\ Spares(p, s) /\ e.kind # "close"
                        /\ e.kind = "open" => ~HidIn(p)
                        /\ ~HidIn(r) => ~HidIn(p) /\ e.kind # "other"
    BY AppendSpares
  <2>6. e.kind \in {"overlay", "open", "close", "other"}
    BY EventShapes
  <2> HIDE DEF b, r
  <2>7. Tells(r, s.mirror, c) => b.mirror = c
    BY <2>1, <2>2, <2>4
  <2>8. DraftKept(b)
    BY <2>1, <2>2
  <2>9. Spares(r, s) => b.draft = s.draft /\ (HidIn(r) \/ b.shown)
    BY <2>1, <2>2, <2>5, <2>6
  <2>10. <<r, b>> \in Seq(Events) \X WindowStates
    BY <2>2, <2>3
  <2> QED BY <2>7, <2>8, <2>9, <2>10 DEF b, r
<1>3. \A p \in Seq(Events), e \in Events : \A a : <<p, a>> \in R => <<Append(p, e), Handle(a, e)>> \in R
  BY <1>2
<1> HIDE DEF R
<1>4. <<q, Draining!Fold(s, q)>> \in R
  BY <1>1, <1>3, Draining!FoldFollows, Zenon
<1>5. FoldLeft(Handle, s, q) = Draining!Fold(s, q)
  BY DEF FoldLeft, MapThenFoldSet, Max, Draining!Fold, Draining!Top
<1> QED BY <1>4, <1>5 DEF R, Rebased

-----------------------------------------------------------------------------
(* The frames. *)

EguiQueueInv == QueueTells /\ ClosedAtOnce

LEMMA QueueRests ==
    ASSUME EguiQueueInv, UNCHANGED <<queue, core, mirror>>, late' = late, shown' => shown
    PROVE  EguiQueueInv'
BY DEF EguiQueueInv, QueueTells, ClosedAtOnce, Tells, LastWord

\* An event behind the others, which tells the configuration the core has now, or nothing.
LEMMA AppendKeepsClosed ==
    ASSUME queue \in Seq(Events), ClosedAtOnce, NEW e \in Events, queue' = Append(queue, e),
           shown' => shown, e.kind = "close" => ~shown'
    PROVE  queue' \in Seq(Events) /\ ClosedAtOnce'
<1>1. /\ queue' \in Seq(Events) /\ Len(queue) \in Nat /\ DOMAIN queue = 1..Len(queue)
      /\ DOMAIN queue' = 1..(Len(queue) + 1)
      /\ queue'[Len(queue) + 1] = e /\ \A i \in DOMAIN queue : queue'[i] = queue[i]
  OBVIOUS
<1>2. ClosedAtOnce'
  <2> SUFFICES ASSUME shown', NEW i \in DOMAIN queue' PROVE queue'[i].kind # "close"
    BY DEF ClosedAtOnce
  <2>1. CASE i = Len(queue) + 1
    BY <1>1, <2>1
  <2>2. CASE i \in DOMAIN queue
    BY <1>1, <2>2 DEF ClosedAtOnce
  <2> QED BY <1>1, <2>1, <2>2
<1> QED BY <1>1, <1>2

LEMMA OverlayTells ==
    ASSUME queue \in Seq(Events), EguiQueueInv, core' \in Configs, shown' => shown,
           queue' = Append(queue, Overlay(core'))
    PROVE  queue' \in Seq(Events) /\ EguiQueueInv'
<1>1. Overlay(core') \in Events /\ Overlay(core').kind = "overlay" /\ Overlay(core').config = core'
  BY EventsTyped
<1>2. queue' \in Seq(Events) /\ ClosedAtOnce'
  BY <1>1, AppendKeepsClosed DEF EguiQueueInv
<1>3. Tells(queue', mirror', core')
  BY <1>1, AppendTells
<1> QED BY <1>2, <1>3 DEF EguiQueueInv, QueueTells

LEMMA OtherEventTells ==
    ASSUME queue \in Seq(Events), EguiQueueInv, NEW e \in {OpenEvent, CloseEvent, OtherEvent},
           UNCHANGED <<core, mirror, late>>, shown' => shown, e = CloseEvent => ~shown',
           queue' = Append(queue, e)
    PROVE  queue' \in Seq(Events) /\ EguiQueueInv'
<1>1. e \in Events /\ e.kind # "overlay" /\ (e.kind = "close" => e = CloseEvent)
  BY EventsTyped
<1>2. queue' \in Seq(Events) /\ ClosedAtOnce'
  BY <1>1, AppendKeepsClosed DEF EguiQueueInv
<1>3. QueueTells'
  BY <1>1, AppendTells DEF EguiQueueInv, QueueTells
<1> QED BY <1>2, <1>3 DEF EguiQueueInv

\* A save that leaves no older overlay in the queue.
LEMMA SaveTells ==
    ASSUME queue \in Seq(Events), EguiQueueInv, UNCHANGED <<queue, shown>>, mirror' = core',
           late' = (late \/ Stale(core'))
    PROVE  EguiQueueInv'
<1>1. ASSUME ~late' PROVE Tells(queue, core', core')
  <2>1. \A i \in 1..Len(queue) : queue[i].kind = "overlay" => queue[i].config = core'
    BY <1>1 DEF Stale
  <2>2. DOMAIN queue = 1..Len(queue)
    OBVIOUS
  <2> QED BY <2>1, <2>2 DEF Tells, LastWord
<1> QED BY <1>1 DEF EguiQueueInv, QueueTells, ClosedAtOnce

FramePolls == \/ Drain \/ PollVolume \/ ReloadChanged \/ PollTray \/ RaiseMixer \/ Polled
              \/ PollUpdates \/ Threads \/ \E c \in Edits : EditFile(c)
FrameViews == \/ \E v \in Items \cup {"bad"} : EditField(v)
              \/ \E m \in Presets : Preset(m)
              \/ Record \/ Capture \/ Escape \/ CloseWindow \/ Reset \/ Cancel
              \/ Rejected \/ SaveFails \/ Save \/ CardButton \/ OtherWindow \/ NoGesture

EguiHolds == EguiTyped /\ EguiQueueInv

LEMMA InputCounts == ASSUME EguiTyped, Input PROVE inputs' \in 0..MaxInputs
BY BoundsAssumption DEF EguiTyped, FrameTyped, Input

LEMMA EditsFit == Edits \subseteq Configs
BY DEF Edits, Configs, Default, Presets, Items

LEMMA DrainHolds ==
    ASSUME EguiHolds, Drain
    PROVE  EguiHolds' /\ DraftIsKept
<1> DEFINE t == FoldLeft(Handle, State, queue)
<1>1. /\ State \in WindowStates /\ State.mirror = mirror
      /\ State.shown = shown /\ State.draft = draft
  BY DEF State, WindowStates, EguiHolds, EguiTyped, WindowTyped
<1>2. queue \in Seq(Events)
  BY DEF EguiHolds, EguiTyped, FrameTyped
<1>3. /\ t \in WindowStates /\ (Tells(queue, mirror, core) => t.mirror = core)
      /\ Rebased(State, t) /\ (Spares(queue, State) => t.draft = draft)
  BY <1>1, <1>2, DrainFollows, Zenon
<1>4. /\ mirror' = t.mirror /\ draft' = t.draft /\ baseline' = t.baseline
      /\ shown' = t.shown /\ recorder' = t.recorder /\ error' = t.error
  BY Zenon DEF Drain
<1> HIDE DEF t
<1>5. /\ pc' = "poll" /\ queue' = <<>>
      /\ UNCHANGED <<copies, pending, inputs, faults, late>>
  BY Zenon DEF Drain
<1>6. CopiesTyped'
  BY <1>5 DEF EguiHolds, EguiTyped, CopiesTyped, copies
<1>7. WindowTyped'
  BY <1>3, <1>4, <1>5 DEF EguiHolds, EguiTyped, WindowTyped, WindowStates
<1>8. FrameTyped'
  BY <1>5 DEF EguiHolds, EguiTyped, FrameTyped
<1>9. QueueTells'
  <2>1. ~late => mirror' = core
    BY <1>3, <1>4 DEF EguiHolds, EguiQueueInv, QueueTells
  <2> QED BY <1>5, <2>1, NothingTells DEF QueueTells, copies
<1>10. ClosedAtOnce'
  BY <1>5 DEF ClosedAtOnce
<1>11. DraftIsKept
  <2>1. draft' = draft \/ draft' = DraftOf(baseline')
    BY <1>1, <1>3, <1>4 DEF Rebased
  <2>2. shown /\ ~Reopened => Spares(queue, State)
    BY <1>1 DEF Spares, Reopened, ReopenedIn, EguiHolds, EguiQueueInv, ClosedAtOnce
  <2> QED BY <1>3, <1>4, <2>1, <2>2 DEF DraftIsKept
<1> QED BY <1>6, <1>7, <1>8, <1>9, <1>10, <1>11 DEF EguiHolds, EguiTyped, EguiQueueInv

LEMMA PollsHold ==
    ASSUME EguiHolds, FramePolls
    PROVE  EguiHolds' /\ DraftIsKept
<1> USE DEF copies, window, settings
<1>1. EguiTyped /\ EguiQueueInv /\ CopiesTyped /\ WindowTyped /\ FrameTyped /\ queue \in Seq(Events)
  BY DEF EguiHolds, EguiTyped, FrameTyped
<1>0. draft' = draft => DraftIsKept
  BY DEF DraftIsKept
<1>2. CASE Drain
  BY <1>2, DrainHolds
<1>3. CASE PollVolume
  <2>1. queue' \in Seq(Events) /\ EguiQueueInv'
    BY <1>1, <1>3, OverlayTells DEF PollVolume, CopiesTyped
  <2>2. inputs' \in 0..MaxInputs
    BY <1>1, <1>3, InputCounts DEF PollVolume
  <2>3. FrameTyped'
    BY <1>1, <1>3, <2>1, <2>2 DEF PollVolume, FrameTyped
  <2>4. CopiesTyped' /\ WindowTyped' /\ draft' = draft
    BY <1>1, <1>3 DEF PollVolume, CopiesTyped, WindowTyped
  <2> QED BY <1>0, <2>1, <2>3, <2>4 DEF EguiHolds, EguiTyped
<1>4. CASE ReloadChanged
  <2>1. core' \in Configs /\ queue' = Append(queue, Overlay(core')) /\ shown' = shown
    BY <1>1, <1>4 DEF ReloadChanged, CopiesTyped
  <2>2. queue' \in Seq(Events) /\ EguiQueueInv'
    BY <1>1, <2>1, OverlayTells
  <2>3. FrameTyped'
    BY <1>1, <1>4, <2>2 DEF ReloadChanged, FrameTyped
  <2>4. CopiesTyped' /\ WindowTyped' /\ draft' = draft
    BY <1>1, <1>4 DEF ReloadChanged, CopiesTyped, WindowTyped
  <2> QED BY <1>0, <2>2, <2>3, <2>4 DEF EguiHolds, EguiTyped
<1>5. CASE PollTray
  <2>1. /\ inputs' \in 0..MaxInputs /\ pc' = pc
        /\ UNCHANGED <<mirror, window, faults, late>>
    BY <1>1, <1>5, InputCounts DEF PollTray
  <2>2. CopiesTyped' /\ WindowTyped'
    BY <1>1, <1>5, <2>1 DEF PollTray, CopiesTyped, WindowTyped
  <2>3. queue' \in Seq(Events) /\ EguiQueueInv'
    <3>1. CASE queue' \in {Append(queue, OpenEvent), Append(queue, OtherEvent)} /\ UNCHANGED copies
      <4>1. OpenEvent # CloseEvent /\ OtherEvent # CloseEvent
        BY EventsTyped
      <4> QED BY <1>1, <2>1, <3>1, <4>1, OtherEventTells
    <3>2. CASE queue' = Append(queue, Overlay(core)) /\ UNCHANGED copies
      BY <1>1, <2>1, <3>2, OverlayTells DEF CopiesTyped
    <3>3. CASE core' = file /\ queue' = queue \o <<Overlay(file), Overlay(file)>>
      <4> DEFINE o == Overlay(file)
                 r == Append(queue, o)
      <4>1. file \in Configs
        BY <1>1 DEF CopiesTyped
      <4>2. o \in Events /\ o.kind = "overlay" /\ o.config = core'
        BY <3>3, <4>1, EventsTyped
      <4>3. queue' = Append(r, o) /\ r \in Seq(Events)
        <5> HIDE DEF o
        <5>1. o \in Events
          BY <4>2
        <5>2. queue' = queue \o <<o, o>>
          BY <3>3 DEF o
        <5> QED BY <1>1, <5>1, <5>2
      <4> HIDE DEF o
      <4>4. \A i \in DOMAIN queue' : queue'[i].kind = "close" => i \in DOMAIN queue /\ queue[i].kind = "close"
        BY <1>1, <4>2, <4>3
      <4>5. Tells(queue', mirror', core')
        BY <4>2, <4>3, AppendTells
      <4>6. queue' \in Seq(Events)
        BY <4>2, <4>3
      <4>7. ClosedAtOnce'
        BY <1>1, <2>1, <4>4 DEF EguiQueueInv, ClosedAtOnce
      <4> QED BY <4>5, <4>6, <4>7 DEF EguiQueueInv, QueueTells
    <3> QED BY <1>5, <3>1, <3>2, <3>3 DEF PollTray
  <2>4. FrameTyped'
    BY <1>1, <2>1, <2>3 DEF FrameTyped
  <2> QED BY <1>0, <2>1, <2>2, <2>3, <2>4 DEF EguiHolds, EguiTyped
<1>10. CASE RaiseMixer
  <2>1. /\ inputs' \in 0..MaxInputs /\ shown' = FALSE
        /\ UNCHANGED <<pc, copies, mirror, draft, baseline, pending, recorder, error, queue, faults, late>>
    BY <1>1, <1>10, InputCounts DEF RaiseMixer
  <2>2. EguiQueueInv'
    BY <1>1, <2>1, QueueRests
  <2>3. CopiesTyped' /\ WindowTyped' /\ FrameTyped'
    BY <1>1, <2>1 DEF CopiesTyped, WindowTyped, FrameTyped
  <2> QED BY <1>0, <2>1, <2>2, <2>3 DEF EguiHolds, EguiTyped
<1>6. CASE Polled
  <2>1. EguiQueueInv'
    BY <1>1, <1>6, QueueRests DEF Polled
  <2>2. CopiesTyped' /\ WindowTyped' /\ FrameTyped' /\ draft' = draft
    BY <1>1, <1>6 DEF Polled, CopiesTyped, WindowTyped, FrameTyped
  <2> QED BY <1>0, <2>1, <2>2 DEF EguiHolds, EguiTyped
<1>7. CASE PollUpdates
  <2>1. UNCHANGED <<pc, settings, inputs, faults, late>>
    BY <1>7 DEF PollUpdates
  <2>2. queue' \in Seq(Events) /\ EguiQueueInv'
    <3>1. CASE queue' = Append(queue, Overlay(core))
      BY <1>1, <2>1, <3>1, OverlayTells DEF CopiesTyped
    <3>2. CASE queue' = queue
      BY <1>1, <2>1, <3>2, QueueRests
    <3> QED BY <1>7, <3>1, <3>2 DEF PollUpdates
  <2>3. CopiesTyped' /\ WindowTyped' /\ FrameTyped' /\ draft' = draft
    BY <1>1, <2>1, <2>2 DEF CopiesTyped, WindowTyped, FrameTyped
  <2> QED BY <1>0, <2>2, <2>3 DEF EguiHolds, EguiTyped
<1>8. CASE Threads
  <2>1. UNCHANGED <<pc, settings, queue, inputs, faults, late>>
    BY <1>8 DEF Threads
  <2>2. EguiQueueInv'
    BY <1>1, <2>1, QueueRests
  <2>3. CopiesTyped' /\ WindowTyped' /\ FrameTyped' /\ draft' = draft
    BY <1>1, <2>1 DEF CopiesTyped, WindowTyped, FrameTyped
  <2> QED BY <1>0, <2>2, <2>3 DEF EguiHolds, EguiTyped
<1>9. ASSUME NEW c \in Edits, EditFile(c) PROVE EguiHolds' /\ DraftIsKept
  <2>1. UNCHANGED <<pc, core, mirror, window, queue, faults, late>> /\ file' \in Configs /\ edited' = TRUE
    BY <1>9, EditsFit DEF EditFile
  <2>2. EguiQueueInv'
    BY <1>1, <2>1, QueueRests
  <2>3. inputs' \in 0..MaxInputs
    BY <1>1, <1>9, InputCounts DEF EditFile
  <2>4. CopiesTyped' /\ WindowTyped' /\ FrameTyped' /\ draft' = draft
    BY <1>1, <2>1, <2>3 DEF CopiesTyped, WindowTyped, FrameTyped
  <2> QED BY <1>0, <2>2, <2>4 DEF EguiHolds, EguiTyped
<1> QED BY <1>2, <1>3, <1>4, <1>5, <1>6, <1>7, <1>8, <1>9, <1>10 DEF FramePolls

LEMMA AppliedFits ==
    ASSUME EguiTyped, draft.item # "bad"
    PROVE  Applied \in Configs /\ (pending # None => WithModifier(Applied) \in Configs)
<1>1. core \in Configs /\ draft.item \in Items /\ draft.keys \in Presets \cup {"custom"}
  BY DEF EguiTyped, CopiesTyped, WindowTyped, Drafts
<1>2. Applied \in Configs
  BY <1>1 DEF Applied, Configs
<1>3. ASSUME pending # None PROVE WithModifier(Applied) \in Configs
  <2>1. pending \in Presets
    BY <1>3 DEF EguiTyped, WindowTyped
  <2> HIDE DEF Applied
  <2> QED BY <1>2, <2>1 DEF WithModifier, Configs
<1> QED BY <1>2, <1>3

LEMMA ViewsHold == ASSUME EguiHolds, FrameViews PROVE EguiHolds' /\ pc = "view"
<1> USE DEF copies, window, settings
<1>1. EguiTyped /\ EguiQueueInv /\ CopiesTyped /\ WindowTyped /\ FrameTyped /\ queue \in Seq(Events)
  BY DEF EguiHolds, EguiTyped, FrameTyped
<1>2. pc = "view" /\ pc' = "idle" /\ (inputs' \in 0..MaxInputs) /\ (shown' => shown)
  <2>1. Gesture \/ OtherWindow \/ (NoGesture /\ inputs' = inputs)
    BY DEF FrameViews, EditField, Preset, Record, Capture, Escape, CloseWindow, Reset, Cancel,
           CanSave, Rejected, SaveFails, Save, CardButton, OtherWindow, NoGesture
  <2>2. CASE Gesture
    BY <1>1, <2>2, InputCounts DEF Gesture
  <2>3. CASE NoGesture /\ inputs' = inputs
    BY <1>1, <2>3 DEF NoGesture, FrameTyped
  <2>4. CASE OtherWindow
    BY <1>1, <2>4, InputCounts DEF OtherWindow
  <2> QED BY <2>1, <2>2, <2>3, <2>4 DEF Gesture
<1>3. ASSUME NEW v \in Items \cup {"bad"}, EditField(v) PROVE EguiHolds'
  <2>1. draft' \in Drafts
    BY <1>1, <1>3 DEF EditField, WindowTyped, Drafts
  <2>2. EguiQueueInv'
    BY <1>1, <1>3, QueueRests DEF EditField
  <2> QED BY <1>1, <1>2, <1>3, <2>1, <2>2 DEF EditField, EguiHolds, EguiTyped, CopiesTyped, WindowTyped, FrameTyped
<1>4. ASSUME NEW m \in Presets, Preset(m) PROVE EguiHolds'
  <2>1. draft' \in Drafts
    BY <1>1, <1>4 DEF Preset, WindowTyped, Drafts
  <2>2. EguiQueueInv'
    BY <1>1, <1>4, QueueRests DEF Preset
  <2> QED BY <1>1, <1>2, <1>4, <2>1, <2>2 DEF Preset, EguiHolds, EguiTyped, CopiesTyped, WindowTyped, FrameTyped
<1>5. CASE Record
  <2>1. EguiQueueInv'
    BY <1>1, <1>5, QueueRests DEF Record
  <2> QED BY <1>1, <1>2, <1>5, <2>1 DEF Record, EguiHolds, EguiTyped, CopiesTyped, WindowTyped, FrameTyped
<1>6. CASE Capture
  <2>1. draft' \in Drafts
    BY <1>1, <1>6 DEF Capture, WindowTyped, Drafts
  <2>2. EguiQueueInv'
    BY <1>1, <1>6, QueueRests DEF Capture
  <2> QED BY <1>1, <1>2, <1>6, <2>1, <2>2 DEF Capture, EguiHolds, EguiTyped, CopiesTyped, WindowTyped, FrameTyped
<1>7. CASE Escape
  <2>1. queue' \in Seq(Events) /\ EguiQueueInv'
    BY <1>1, <1>7, OtherEventTells DEF Escape
  <2> QED BY <1>1, <1>2, <1>7, <2>1 DEF Escape, EguiHolds, EguiTyped, CopiesTyped, WindowTyped, FrameTyped
<1>8. CASE CloseWindow
  <2>1. EguiQueueInv'
    BY <1>1, <1>8, QueueRests DEF CloseWindow
  <2> QED BY <1>1, <1>2, <1>8, <2>1 DEF CloseWindow, EguiHolds, EguiTyped, CopiesTyped, WindowTyped, FrameTyped
<1>9. CASE Reset
  <2>1. draft' \in Drafts
    BY <1>1, <1>9, DraftFits DEF Reset, WindowTyped
  <2>2. EguiQueueInv'
    BY <1>1, <1>9, QueueRests DEF Reset
  <2> QED BY <1>1, <1>2, <1>9, <2>1, <2>2 DEF Reset, EguiHolds, EguiTyped, CopiesTyped, WindowTyped, FrameTyped
<1>10. CASE Cancel
  <2>1. core' = file /\ file \in Configs /\ queue' = Append(queue, Overlay(core')) /\ draft' \in Drafts
    BY <1>1, <1>10, DraftFits DEF Cancel, CopiesTyped, Rebase
  <2>2. queue' \in Seq(Events) /\ EguiQueueInv'
    BY <1>1, <1>2, <2>1, OverlayTells
  <2> QED BY <1>1, <1>2, <1>10, <2>1, <2>2 DEF Cancel, Rebase, EguiHolds, EguiTyped, CopiesTyped, WindowTyped, FrameTyped
<1>11. CASE Rejected
  <2>1. EguiQueueInv'
    BY <1>1, <1>11, QueueRests DEF Rejected
  <2> QED BY <1>1, <1>2, <1>11, <2>1 DEF Rejected, EguiHolds, EguiTyped, CopiesTyped, WindowTyped, FrameTyped
<1>12. CASE SaveFails
  <2>1. core' = core /\ mirror' = core /\ late' \in BOOLEAN /\ faults' \in 0..MaxFaults
    BY <1>1, <1>12, BoundsAssumption DEF SaveFails, Undone, FrameTyped
  <2>2. late' = (late \/ Stale(core')) /\ UNCHANGED <<queue, shown>>
    BY <1>12, <2>1 DEF SaveFails, Undone
  <2>3. EguiQueueInv'
    BY <1>1, <2>1, <2>2, SaveTells
  <2> QED BY <1>1, <1>2, <1>12, <2>1, <2>3 DEF SaveFails, EguiHolds, EguiTyped, CopiesTyped, WindowTyped, FrameTyped
<1>13. CASE Save
  <2>1. core' \in Configs
    BY <1>1, <1>13, AppliedFits DEF Save
  <2>2. /\ late' = (late \/ Stale(core')) /\ UNCHANGED <<queue, shown, recorder>> /\ mirror' = core'
        /\ file' = core' /\ edited' = FALSE /\ draft' = DraftOf(core') /\ baseline' = core'
        /\ pending' = None /\ error' = "none"
    BY <1>13 DEF Save, Rebase
  <2>3. EguiQueueInv'
    BY <1>1, <2>2, SaveTells
  <2>4. faults' \in 0..MaxFaults /\ late' \in BOOLEAN
    <3>1. faults' = faults \/ (faults < MaxFaults /\ faults' = faults + 1)
      BY <1>13 DEF Save
    <3>2. late' \in BOOLEAN
      BY <1>1, <2>2 DEF FrameTyped
    <3> QED BY <1>1, <3>1, <3>2, BoundsAssumption DEF FrameTyped
  <2>5. draft' \in Drafts
    BY <2>1, <2>2, DraftFits
  <2>6. WindowTyped' /\ CopiesTyped' /\ FrameTyped'
    BY <1>1, <1>2, <2>1, <2>2, <2>4, <2>5 DEF CopiesTyped, WindowTyped, FrameTyped
  <2>7. EguiTyped'
    BY <2>6, Zenon DEF EguiTyped
  <2> QED BY <1>2, <2>3, <2>7 DEF EguiHolds
<1>14. CASE CardButton
  <2>1. EguiQueueInv'
    BY <1>1, <1>14, QueueRests DEF CardButton
  <2> QED BY <1>1, <1>2, <1>14, <2>1 DEF CardButton, EguiHolds, EguiTyped, CopiesTyped, WindowTyped, FrameTyped
<1>15. CASE NoGesture
  <2>1. EguiQueueInv'
    BY <1>1, <1>15, QueueRests DEF NoGesture
  <2> QED BY <1>1, <1>2, <1>15, <2>1 DEF NoGesture, EguiHolds, EguiTyped, CopiesTyped, WindowTyped, FrameTyped
<1>16. CASE OtherWindow
  <2>1. OpenEvent # CloseEvent /\ OtherEvent # CloseEvent
    BY EventsTyped
  <2>2. /\ queue' \in {Append(queue, OpenEvent), Append(queue, OtherEvent)}
        /\ UNCHANGED <<settings, faults, late>>
    BY <1>16 DEF OtherWindow
  <2>3. queue' \in Seq(Events) /\ EguiQueueInv'
    BY <1>1, <2>1, <2>2, OtherEventTells
  <2> QED BY <1>1, <1>2, <2>2, <2>3 DEF EguiHolds, EguiTyped, CopiesTyped, WindowTyped, FrameTyped
<1> QED BY <1>2, <1>3, <1>4, <1>5, <1>6, <1>7, <1>8, <1>9, <1>10, <1>11, <1>12, <1>13, <1>14, <1>15, <1>16 DEF FrameViews

\* A save has the fields of the draft, and the keys of it or of the pending preset.
LEMMA SavesSayWhat == ASSUME EguiTyped, EguiNext PROVE DraftIsSaved
<1>1. file' = file \/ edited' \/ Save
  BY Zenon DEF EguiNext, Drain, PollVolume, ReloadChanged, PollTray, RaiseMixer, Polled, EditFile, EditField,
     Preset, Record, Capture, Escape, CloseWindow, Reset, Cancel, Rejected, SaveFails, CardButton,
     OtherWindow, NoGesture, PollUpdates, Threads, settings, copies
<1>2. CASE Save
  <2>1. /\ core \in Configs /\ draft.item \in Items /\ draft.keys \in Presets \cup {"custom"}
        /\ pending \in Presets \cup {None}
    BY <1>2 DEF Save, EguiTyped, CopiesTyped, WindowTyped, Drafts
  <2>2. Applied \in Configs /\ Applied.item = draft.item /\ Applied.keys = draft.keys
    BY <2>1 DEF Applied, Configs
  <2>3. WithModifier(Applied).item = draft.item /\ WithModifier(Applied).keys = pending
    <3> HIDE DEF Applied
    <3> QED BY <2>2 DEF WithModifier, Configs
  <2>4. file' = core' /\ (core' = Applied \/ (pending # None /\ core' = WithModifier(Applied)))
    BY <1>2 DEF Save
  <2> QED BY <2>2, <2>3, <2>4 DEF DraftIsSaved
<1> QED BY <1>1, <1>2 DEF DraftIsSaved

LEMMA EguiStarts == ASSUME EguiInit PROVE EguiInv
<1>1. Default \in Configs
  BY DEF Default, Configs, Presets, Items
<1>2. EguiTyped
  <2>1. CopiesTyped
    BY <1>1 DEF EguiInit, CopiesTyped
  <2>2. WindowTyped
    BY <1>1, DraftFits DEF EguiInit, WindowTyped
  <2>3. inputs \in 0..MaxInputs /\ faults \in 0..MaxFaults
    BY BoundsAssumption DEF EguiInit
  <2>5. late \in BOOLEAN /\ pc = "idle" /\ queue = <<>>
    BY Zenon DEF EguiInit
  <2>6. <<>> \in Seq(Events)
    OBVIOUS
  <2>4. FrameTyped
    BY <2>3, <2>5, <2>6 DEF FrameTyped
  <2> QED BY <2>1, <2>2, <2>4 DEF EguiTyped
<1>3. QueueTells /\ ClosedAtOnce
  BY NothingTells DEF EguiInit, QueueTells, ClosedAtOnce
<1>4. CardInv
  BY CardStarts DEF EguiInit
<1> QED BY <1>2, <1>3, <1>4 DEF EguiInv

LEMMA CardFollowsFrames == ASSUME CardInv, EguiNext PROVE CardInv'
<1>1. CardStep \/ UNCHANGED cardVars
  BY Zenon DEF EguiNext, CardStep, Drain, PollVolume, ReloadChanged, PollTray, RaiseMixer, Polled, EditFile, EditField,
     Preset, Record, Capture, Escape, CloseWindow, Reset, Cancel, Rejected, SaveFails, Save, CardButton,
     OtherWindow, NoGesture, PollUpdates, Threads
<1> QED BY <1>1, CardSteps, CardRests

LEMMA EguiSteps ==
    ASSUME EguiInv, EguiNext
    PROVE  EguiInv' /\ DraftIsKept /\ DraftIsSaved
<1>1. CardInv' /\ EguiHolds
  BY CardFollowsFrames DEF EguiInv, EguiHolds, EguiQueueInv
<1>2. FramePolls \/ FrameViews
  BY Zenon DEF EguiNext, FramePolls, FrameViews
<1>3. EguiHolds' /\ DraftIsKept
  BY <1>1, <1>2, PollsHold, ViewsHold DEF DraftIsKept
<1>4. DraftIsSaved
  BY SavesSayWhat DEF EguiInv
<1> QED BY <1>1, <1>3, <1>4 DEF EguiInv, EguiHolds, EguiQueueInv

LEMMA EguiRests == ASSUME EguiInv, UNCHANGED egui PROVE EguiInv'
<1>1. CardInv'
  BY CardRests DEF EguiInv, egui
<1>2. EguiQueueInv'
  BY QueueRests DEF EguiInv, EguiQueueInv, egui, settings, copies, window
<1> QED BY <1>1, <1>2 DEF EguiInv, EguiQueueInv, EguiTyped, CopiesTyped, WindowTyped, FrameTyped,
                         egui, settings, copies, window

LEMMA EguiInvMeans == ASSUME EguiInv PROVE CopiesAgree
BY NothingTells DEF EguiInv, QueueTells, CopiesAgree, MirrorFollowsConfig, CardInv

\* The copies the egui settings window works from agree (VolumeControlApp::drain_events, poll_core,
\* save_settings, poll_updates): with no event pending its mirror is the configuration the core runs
\* with, unless an overlay older than a save was still queued; and the card offers to install the
\* package that is on disk, unless a check replaced the release while the download ran - whatever
\* configurations and releases there are, however many edits, failed saves and queued events.
THEOREM CopiesStayTogether == Spec => []CopiesAgree
<1>1. Init => EguiInv
  BY EguiStarts DEF Init
<1>2. EguiInv /\ [Next]_vars => EguiInv'
  BY EguiSteps, EguiRests DEF Next, vars
<1>3. EguiInv => CopiesAgree
  BY EguiInvMeans
<1> QED BY <1>1, <1>2, <1>3, PTL DEF Spec

\* The draft of a settings window is changed by its user only, in the view of a frame: no event
\* that is drained, no poll and no reloaded file alters it while the window is open, but a queue in
\* which the mixer or the help takes its place and the settings come back, and then it is the
\* draft of the mirror (VolumeControlApp::drain_events, show_surface_exclusive, poll_core); and a save
\* writes it, but for the keys of a preset that is still pending (save_settings).
THEOREM DraftsStayTheUsers == Spec => DraftIsTheUsers
<1>1. Init => EguiInv
  BY EguiStarts DEF Init
<1>2. EguiInv /\ [Next]_vars => EguiInv'
  BY EguiSteps, EguiRests DEF Next, vars
<1>3. EguiInv /\ [Next]_vars => [DraftIsKept /\ DraftIsSaved]_egui
  BY EguiSteps DEF Next, vars
<1> QED BY <1>1, <1>2, <1>3, PTL DEF Spec, DraftIsTheUsers

-----------------------------------------------------------------------------
(* Blacklist, gate and picker.                                              *)

\* An entry as the core stores it.
TidyEntry(os, n) == n \in ProgramNames /\ ~n.rough /\ (os # "linux" => EndsIn(n, Suffix[os]))

ShellTyped == Os \in Systems /\ (shell.window = "legacy" => Os = "windows")
DeskTyped ==
    /\ desk \in Seq(Windows) /\ focused \in 0..Len(desk)
ListsTidy ==
    /\ entries \subseteq ProgramNames
    /\ \A e \in saved : TidyEntry(Os, e)
    /\ \A r \in ToSet(picker) : TidyEntry("windows", r.process) /\ Os = "windows"
BlockInv == ShellTyped /\ DeskTyped /\ ListsTidy

LEMMA PlainTyped == ASSUME NEW n \in ProgramNames PROVE Plain(n) \in ProgramNames /\ ~Plain(n).rough
                                     /\ Plain(n).exts = n.exts /\ Plain(n).stem = n.stem
BY DEF Plain, ProgramNames

LEMMA EndsAreExtensions ==
    ASSUME NEW x \in Seq(Extensions), x # <<>>
    PROVE  Last(x) \in Extensions /\ Front(x) \in Seq(Extensions) /\ x = Append(Front(x), Last(x))
<1>1. Len(x) \in Nat \ {0} /\ DOMAIN x = 1..Len(x)
  OBVIOUS
<1>2. Last(x) \in Extensions
  BY <1>1 DEF Last
<1>3. Front(x) \in Seq(Extensions) /\ Len(Front(x)) = Len(x) - 1
      /\ \A i \in 1..(Len(x) - 1) : Front(x)[i] = x[i]
  BY <1>1 DEF Front
<1>4. x = Append(Front(x), Last(x))
  <2> DEFINE y == Append(Front(x), Last(x))
  <2>1. y \in Seq(Extensions) /\ Len(y) = Len(x) /\ y[Len(x)] = Last(x)
        /\ \A i \in 1..(Len(x) - 1) : y[i] = x[i]
    <3> DEFINE z == Front(x)
               e == Last(x)
    <3> HIDE DEF z, e
    <3>1. z \in Seq(Extensions) /\ e \in Extensions /\ Len(z) = Len(x) - 1
          /\ \A i \in 1..(Len(x) - 1) : z[i] = x[i]
      BY <1>2, <1>3 DEF z, e
    <3>2. Append(z, e) \in Seq(Extensions) /\ Len(Append(z, e)) = Len(x) /\ Append(z, e)[Len(x)] = e
          /\ \A i \in 1..(Len(x) - 1) : Append(z, e)[i] = z[i]
      <4>1. /\ Append(z, e) \in Seq(Extensions) /\ Len(Append(z, e)) = Len(z) + 1
            /\ Append(z, e)[Len(z) + 1] = e /\ \A i \in 1..Len(z) : Append(z, e)[i] = z[i]
        BY <3>1
      <4>2. Len(z) = Len(x) - 1 /\ Len(z) + 1 = Len(x)
        BY <1>1, <3>1
      <4> QED BY <4>1, <4>2
    <3>3. \A i \in 1..(Len(x) - 1) : Append(z, e)[i] = x[i]
      BY <3>1, <3>2
    <3> QED BY <3>2, <3>3 DEF z, e
  <2>2. x[Len(x)] = Last(x)
    BY DEF Last
  <2> HIDE DEF y
  <2>3. \A i \in 1..Len(x) : y[i] = x[i]
    BY <1>1, <2>1, <2>2
  <2>4. x \in Seq(Extensions) /\ Len(x) = Len(y)
    BY <2>1
  <2>5. x = y
    BY <2>1, <2>3, <2>4, SeqEqual
  <2> QED BY <2>5 DEF y
<1> QED BY <1>2, <1>3, <1>4

LEMMA AppendEnds ==
    ASSUME NEW x \in Seq(Extensions), NEW y \in Extensions
    PROVE  Append(x, y) \in Seq(Extensions) /\ Append(x, y) # <<>> /\ Last(Append(x, y)) = y /\ Front(Append(x, y)) = x
<1> DEFINE z == Append(x, y)
<1>1. z \in Seq(Extensions) /\ Len(z) = Len(x) + 1 /\ z[Len(x) + 1] = y /\ (\A i \in 1..Len(x) : z[i] = x[i])
      /\ Len(x) \in Nat
  OBVIOUS
<1> HIDE DEF z
<1>2. z # <<>> /\ Last(z) = y
  BY <1>1 DEF Last
<1>3. Front(z) \in Seq(Extensions) /\ Len(Front(z)) = Len(x) /\ \A i \in 1..Len(x) : Front(z)[i] = x[i]
  BY <1>1 DEF Front
<1>4. Front(z) = x
  BY <1>1, <1>3, SeqEqual
<1> QED BY <1>1, <1>2, <1>4 DEF z

LEMMA SuffixesFit ==
    /\ Suffix["windows"] \in Extensions /\ Suffix["macos"] \in Extensions /\ Suffix["linux"] = None
    /\ None \notin Extensions
    /\ \A os \in Systems : os # "linux" => Suffix[os] \in Extensions
<1>1. "exe" \in Extensions /\ "app" \in Extensions /\ None \notin Extensions
  BY BlockAssumption
<1>2. Suffix["windows"] = "exe" /\ Suffix["macos"] = "app" /\ Suffix["linux"] = None
  BY DEF Suffix
<1> QED BY <1>1, <1>2 DEF Systems

LEMMA NormalTidy ==
    ASSUME NEW os \in Systems, NEW n \in ProgramNames
    PROVE  TidyEntry(os, NormalizeEntry(os, n)) /\ NormalizeEntry(os, n).stem = n.stem
<1> DEFINE p == Plain(n)
<1>1. p \in ProgramNames /\ ~p.rough /\ p.exts = n.exts /\ p.stem = n.stem /\ n.exts \in Seq(Extensions)
  BY PlainTyped DEF ProgramNames
<1>2. CASE os = "linux" \/ EndsIn(n, Suffix[os])
  <2>1. NormalizeEntry(os, n) = p
    BY <1>2 DEF NormalizeEntry
  <2> HIDE DEF p
  <2> QED BY <1>1, <1>2, <2>1 DEF TidyEntry, EndsIn
<1>3. CASE ~(os = "linux" \/ EndsIn(n, Suffix[os]))
  <2> DEFINE q == [p EXCEPT !.exts = Append(@, Suffix[os])]
  <2>1. NormalizeEntry(os, n) = q
    BY <1>3 DEF NormalizeEntry
  <2>2. Suffix[os] \in Extensions
    BY <1>3, SuffixesFit
  <2>3. Append(p.exts, Suffix[os]) \in Seq(Extensions) /\ Append(p.exts, Suffix[os]) # <<>>
        /\ Last(Append(p.exts, Suffix[os])) = Suffix[os]
    BY <1>1, <2>2, AppendEnds
  <2> HIDE DEF p
  <2>4. q \in ProgramNames /\ ~q.rough /\ q.exts = Append(p.exts, Suffix[os]) /\ q.stem = p.stem
    BY <1>1, <2>3 DEF ProgramNames
  <2> HIDE DEF q
  <2> QED BY <1>1, <2>1, <2>3, <2>4 DEF TidyEntry, EndsIn
<1> QED BY <1>2, <1>3

\* The name without its suffix is the same before and after.
LEMMA StripNormal ==
    ASSUME NEW os \in Systems, NEW n \in ProgramNames
    PROVE  Stripped(NormalizeEntry(os, n), Suffix[os]) = Stripped(Plain(n), Suffix[os])
<1> DEFINE p == Plain(n)
<1>1. p \in ProgramNames /\ ~p.rough /\ p.exts = n.exts /\ n.exts \in Seq(Extensions)
  BY PlainTyped DEF ProgramNames
<1>2. CASE os = "linux" \/ EndsIn(n, Suffix[os])
  <2>1. NormalizeEntry(os, n) = p
    BY <1>2 DEF NormalizeEntry
  <2> QED BY <2>1
<1>3. CASE ~(os = "linux" \/ EndsIn(n, Suffix[os]))
  <2> DEFINE q == [p EXCEPT !.exts = Append(@, Suffix[os])]
  <2>1. NormalizeEntry(os, n) = q
    BY <1>3 DEF NormalizeEntry
  <2>2. Suffix[os] \in Extensions
    BY <1>3, SuffixesFit
  <2>3. LET z == Append(p.exts, Suffix[os])
        IN  z \in Seq(Extensions) /\ z # <<>> /\ Last(z) = Suffix[os] /\ Front(z) = p.exts
    BY <1>1, <2>2, AppendEnds
  <2> HIDE DEF p
  <2>4. q.exts = Append(p.exts, Suffix[os]) /\ [q EXCEPT !.exts = p.exts] = p
    BY <1>1 DEF ProgramNames
  <2>5. Stripped(q, Suffix[os]) = [q EXCEPT !.exts = Front(q.exts)]
    <3> HIDE DEF q
    <3> QED BY <2>3, <2>4 DEF Stripped, EndsIn
  <2>6. Stripped(q, Suffix[os]) = p
    BY <2>3, <2>4, <2>5
  <2>7. Stripped(p, Suffix[os]) = p
    BY <1>1, <1>3 DEF Stripped, EndsIn
  <2> QED BY <2>1, <2>6, <2>7 DEF p
<1> QED BY <1>2, <1>3

\* Two names with their suffix are one if they are without.
LEMMA StripTells ==
    ASSUME NEW os \in Systems, os # "linux", NEW m, NEW n, TidyEntry(os, m), TidyEntry(os, n),
           Stripped(m, Suffix[os]) = Stripped(n, Suffix[os])
    PROVE  m = n
<1> DEFINE x == Suffix[os]
<1>1. m \in ProgramNames /\ n \in ProgramNames /\ EndsIn(m, x) /\ EndsIn(n, x) /\ ~m.rough /\ ~n.rough
  BY DEF TidyEntry
<1>2. m.exts \in Seq(Extensions) /\ m.exts # <<>> /\ Last(m.exts) = x
      /\ n.exts \in Seq(Extensions) /\ n.exts # <<>> /\ Last(n.exts) = x
  BY <1>1 DEF EndsIn, ProgramNames
<1>3. Stripped(m, x) = [m EXCEPT !.exts = Front(m.exts)] /\ Stripped(n, x) = [n EXCEPT !.exts = Front(n.exts)]
  BY <1>1 DEF Stripped
<1> HIDE DEF x
<1>4. m.stem = n.stem /\ Front(m.exts) = Front(n.exts)
  <2>1. [m EXCEPT !.exts = Front(m.exts)] = [n EXCEPT !.exts = Front(n.exts)]
    BY <1>3 DEF x
  <2> QED BY <1>1, <2>1 DEF ProgramNames
<1>5. m.exts = n.exts
  BY <1>2, <1>4, EndsAreExtensions
<1> QED BY <1>1, <1>4, <1>5 DEF ProgramNames

LEMMA TidyIsPlain == ASSUME NEW os \in Systems, NEW n, TidyEntry(os, n) PROVE Plain(n) = n /\ n \in ProgramNames
BY DEF TidyEntry, Plain, ProgramNames

LEMMA LinuxKeeps == ASSUME NEW n \in ProgramNames PROVE Stripped(n, Suffix["linux"]) = n
<1>1. n.exts \in Seq(Extensions) /\ (n.exts # <<>> => Last(n.exts) \in Extensions)
  BY EndsAreExtensions DEF ProgramNames
<1> QED BY <1>1, SuffixesFit DEF Stripped, EndsIn

-----------------------------------------------------------------------------
(* Blacklist: the gate. *)

\* What the foreground process is taken for, its program can be told from.
LEMMA ProcessIsTheProgram ==
    ASSUME BlockInv, ForegroundProcess # None
    PROVE  /\ focused \in DOMAIN desk /\ desk[focused].program \in ProgramNames
           /\ LET front == desk[focused].program
              IN  /\ Os = "linux" /\ Comm(front) = front => ForegroundProcess = Plain(front)
                  /\ Os # "linux" => ForegroundProcess \in {Plain(front), NormalizeEntry(Os, front)}
<1>1. Os \in Systems /\ (shell.window = "legacy" => Os = "windows")
  BY DEF BlockInv, ShellTyped
<1>2. focused # 0
  BY DEF ForegroundProcess
<1>3. focused \in DOMAIN desk /\ desk[focused] \in Windows
  BY <1>2 DEF BlockInv, DeskTyped
<1>4. desk[focused].program \in ProgramNames
  BY <1>3, BlockAssumption
<1> DEFINE front == desk[focused].program
<1>5. CASE Os = "linux"
  <2>1. ForegroundProcess = ForegroundOnLinux(desk[focused])
    BY <1>2, <1>5 DEF ForegroundProcess
  <2>2. ForegroundProcess = NormalizeEntry("linux", Comm(front))
    BY <2>1 DEF ForegroundOnLinux
  <2> QED BY <1>3, <1>4, <1>5, <2>2 DEF NormalizeEntry
<1>6. CASE Os = "macos"
  <2>1. ForegroundProcess = NormalizeEntry("macos", front)
    BY <1>2, <1>6 DEF ForegroundProcess
  <2> QED BY <1>3, <1>4, <1>6, <2>1
<1>7. CASE Os = "windows"
  <2>1. ForegroundProcess = ProcessBaseName(desk[focused])
    BY <1>2, <1>7 DEF ForegroundProcess
  <2> QED BY <1>3, <1>4, <1>7, <2>1 DEF ProcessBaseName
<1> QED BY <1>1, <1>5, <1>6, <1>7 DEF Systems

LEMMA BlacklistIsNames ==
    ASSUME NEW l, NEW os \in Systems, NEW n \in ProgramNames, NEW p, os = Os,
           \A e \in l : TidyEntry(os, e),
           os = "linux" => p = Plain(n),
           os # "linux" => p \in {Plain(n), NormalizeEntry(os, n)}
    PROVE  IsBlacklisted(os, l, p) <=> Names(l, n)
<1> DEFINE x == Suffix[os]
<1>1. \A e \in l : Plain(e) = e /\ e \in ProgramNames
  BY TidyIsPlain
<1>2. Stripped(p, x) = Stripped(Plain(n), x)
  BY StripNormal
<1>3. Names(l, n) <=> \E e \in l : Stripped(e, x) = Stripped(p, x)
  BY <1>1, <1>2 DEF Names, SameProgram
<1>4. CASE os = "linux"
  <2>1. p \in ProgramNames
    BY <1>4, PlainTyped
  <2>2. Names(l, n) <=> \E e \in l : e = p
    BY <1>1, <1>3, <1>4, <2>1, LinuxKeeps
  <2> QED BY <1>4, <2>2 DEF IsBlacklisted
<1>5. CASE os # "linux"
  <2>1. \A e \in l : EndsIn(e, x)
    BY <1>5 DEF TidyEntry
  <2> QED BY <1>3, <1>5, <2>1 DEF IsBlacklisted
<1> QED BY <1>4, <1>5

LEMMA GateHolds == ASSUME BlockInv PROVE GateIsTheList
<1> DEFINE front == desk[focused].program
<1>1. SUFFICES ASSUME ForegroundProcess # None, Os = "linux" => Comm(front) = front,
                      NEW a \in {"VolumeUp"} \cup Opening
               PROVE  Silenced(a) <=> a \notin Opening /\ Names(saved, front)
  BY Zenon DEF GateIsTheList
<1>2. /\ front \in ProgramNames /\ Os \in Systems
      /\ Os = "linux" => ForegroundProcess = Plain(front)
      /\ Os # "linux" => ForegroundProcess \in {Plain(front), NormalizeEntry(Os, front)}
  BY <1>1, ProcessIsTheProgram DEF BlockInv, ShellTyped
<1>3. \A e \in saved : TidyEntry(Os, e)
  BY DEF BlockInv, ListsTidy
<1> HIDE DEF front
<1>4. IsBlacklisted(Os, saved, ForegroundProcess) <=> Names(saved, front)
  BY <1>2, <1>3, BlacklistIsNames
<1> QED BY <1>1, <1>4, Zenon DEF Silenced

LEMMA CheckedHolds == ASSUME BlockInv PROVE CheckedIsBlocked
<1> SUFFICES ASSUME ~AsTyped, NEW r \in ToSet(picker) PROVE Checked(r) <=> Names(entries, r.process)
  BY DEF CheckedIsBlocked
<1> DEFINE p == r.process
<1>1. Os \in Systems /\ Os = "windows" /\ TidyEntry(Os, p) /\ entries \subseteq ProgramNames
  BY DEF BlockInv, ShellTyped, ListsTidy
<1>2. \A e \in entries : TidyEntry(Os, e)
  BY <1>1, NormalTidy DEF AsTyped
<1>3. Plain(p) = p /\ \A e \in entries : Plain(e) = e
  BY <1>1, <1>2, TidyIsPlain
<1> HIDE DEF p
<1>4. Names(entries, p) <=> \E e \in entries : Stripped(e, Suffix[Os]) = Stripped(p, Suffix[Os])
  BY <1>3 DEF Names, SameProgram
<1>5. \A e \in entries : Stripped(e, Suffix[Os]) = Stripped(p, Suffix[Os]) => e = p
  BY <1>1, <1>2, StripTells
<1>6. Names(entries, p) <=> p \in entries
  BY <1>4, <1>5
<1> QED BY <1>6 DEF p, Checked

-----------------------------------------------------------------------------
(* Blacklist: the picker. *)

PickerRows == [process : {NormalizeEntry("windows", w.program) : w \in Windows},
         title : {w.title : w \in Windows}, name : {DisplayName(w.version) : w \in Windows}]

\* Each program has one row, and each window of those seen so far has one that tells its title.
OneEach(apps) == \A i, j \in DOMAIN apps : apps[i].process = apps[j].process => i = j
HasRow(w, apps) ==
    \E i \in DOMAIN apps : /\ apps[i].process = NormalizeEntry("windows", w.program)
                           /\ w.title # "" => apps[i].title # ""
RowsTold(soFar, apps) == OneEach(apps) /\ \A k \in DOMAIN soFar : Picked(soFar[k]) => HasRow(soFar[k], apps)

LEMMA RowFits == ASSUME NEW w \in Windows PROVE RowOf(w) \in PickerRows
BY DEF RowOf, Row, PickerRows

LEMMA OneMoreSeen ==
    ASSUME NEW soFar \in Seq(Windows), NEW w \in Windows, NEW b, OneEach(b), Picked(w) => HasRow(w, b),
           \A k \in DOMAIN soFar : Picked(soFar[k]) => HasRow(soFar[k], b)
    PROVE  RowsTold(Append(soFar, w), b)
<1> DEFINE z == Append(soFar, w)
           n == Len(soFar)
<1>1. n \in Nat /\ DOMAIN soFar = 1..n /\ DOMAIN z = 1..(n + 1) /\ z[n + 1] = w /\ \A k \in 1..n : z[k] = soFar[k]
  OBVIOUS
<1> HIDE DEF z, n
<1>2. ASSUME NEW k \in DOMAIN z, Picked(z[k]) PROVE HasRow(z[k], b)
  <2>1. k = n + 1 \/ k \in DOMAIN soFar
    BY <1>1
  <2>2. k \in DOMAIN soFar => z[k] = soFar[k]
    BY <1>1
  <2>3. CASE k = n + 1
    <3>1. z[k] = w
      BY <1>1, <2>3
    <3> QED BY <1>2, <3>1
  <2> QED BY <1>2, <2>1, <2>2, <2>3
<1> QED BY <1>2 DEF RowsTold, z

LEMMA VisitMerges ==
    ASSUME NEW soFar \in Seq(Windows), NEW w \in Windows, NEW apps \in Seq(PickerRows), RowsTold(soFar, apps)
    PROVE  Visit(apps, w) \in Seq(PickerRows) /\ RowsTold(Append(soFar, w), Visit(apps, w))
<1> DEFINE b == Visit(apps, w)
           m == Len(apps)
<1>1. OneEach(apps) /\ \A k \in DOMAIN soFar : Picked(soFar[k]) => HasRow(soFar[k], apps)
  BY DEF RowsTold
<1>4. m \in Nat /\ DOMAIN apps = 1..m /\ \A i \in 1..m : apps[i] \in PickerRows
  OBVIOUS
<1> SUFFICES b \in Seq(PickerRows) /\ OneEach(b) /\ (Picked(w) => HasRow(w, b))
             /\ \A k \in DOMAIN soFar : Picked(soFar[k]) => HasRow(soFar[k], b)
  BY OneMoreSeen
<1> HIDE DEF b, m
<1>2. CASE ~Picked(w)
  <2>1. b = apps
    BY <1>2 DEF b, Visit
  <2> QED BY <1>1, <1>2, <2>1
<1>3. CASE Picked(w)
  <2> DEFINE r == RowOf(w)
  <2>0. r \in PickerRows /\ r.process = NormalizeEntry("windows", w.program) /\ r.title = w.title
    BY RowFits DEF RowOf, Row
  <2>1. b = MergeRunningApp(apps, r)
    BY <1>3 DEF b, Visit
  <2> HIDE DEF r
  <2>3. CASE \A i \in DOMAIN apps : apps[i].process # r.process
    <3>1. b = Append(apps, r)
      BY <2>1, <2>3 DEF MergeRunningApp
    <3>2. b \in Seq(PickerRows) /\ DOMAIN b = 1..(m + 1) /\ b[m + 1] = r /\ \A i \in 1..m : b[i] = apps[i]
      BY <2>0, <3>1 DEF m
    <3>3. OneEach(b)
      <4> SUFFICES ASSUME NEW i \in DOMAIN b, NEW j \in DOMAIN b, b[i].process = b[j].process PROVE i = j
        BY DEF OneEach
      <4>0. i \in 1..(m + 1) /\ j \in 1..(m + 1) /\ (i # m + 1 => i \in DOMAIN apps) /\ (j # m + 1 => j \in DOMAIN apps)
        BY <1>4, <3>2
      <4>1. CASE i = m + 1 /\ j # m + 1
        BY <1>4, <2>3, <3>2, <4>0, <4>1
      <4>2. CASE j = m + 1 /\ i # m + 1
        BY <1>4, <2>3, <3>2, <4>0, <4>2
      <4>3. CASE i # m + 1 /\ j # m + 1
        <5>1. b[i] = apps[i] /\ b[j] = apps[j]
          BY <1>4, <3>2, <4>0, <4>3
        <5> QED BY <1>1, <4>0, <4>3, <5>1 DEF OneEach
      <4> QED BY <4>1, <4>2, <4>3
    <3>4. ASSUME NEW k \in DOMAIN soFar, Picked(soFar[k]) PROVE HasRow(soFar[k], b)
      <4>1. PICK i \in DOMAIN apps : /\ apps[i].process = NormalizeEntry("windows", soFar[k].program)
                                     /\ soFar[k].title # "" => apps[i].title # ""
        BY <1>1, <3>4 DEF HasRow
      <4>2. i \in DOMAIN b /\ b[i] = apps[i]
        BY <1>4, <3>2
      <4> QED BY <4>1, <4>2 DEF HasRow
    <3>5. m + 1 \in DOMAIN b
      BY <1>4, <3>2
    <3>6. HasRow(w, b)
      BY <2>0, <3>2, <3>5 DEF HasRow
    <3> QED BY <3>2, <3>3, <3>4, <3>6
  <2>4. CASE ~(\A i \in DOMAIN apps : apps[i].process # r.process)
    <3>1. b = [i \in DOMAIN apps |-> IF apps[i].process = r.process /\ apps[i].title = ""
                                      THEN [apps[i] EXCEPT !.title = r.title] ELSE apps[i]]
      BY <2>1, <2>4 DEF MergeRunningApp
    <3>2. ASSUME NEW i \in DOMAIN apps
          PROVE  /\ b[i] \in PickerRows /\ b[i].process = apps[i].process
                 /\ apps[i].title # "" => b[i].title = apps[i].title
                 /\ apps[i].title = "" /\ apps[i].process = r.process => b[i].title = r.title
      <4>1. apps[i] \in PickerRows
        BY <1>4, <3>2
      <4>2. b[i] = IF apps[i].process = r.process /\ apps[i].title = ""
                   THEN [apps[i] EXCEPT !.title = r.title] ELSE apps[i]
        BY <3>1, <3>2
      <4> QED BY <2>0, <4>1, <4>2 DEF PickerRows
    <3>3. DOMAIN b = DOMAIN apps
      BY <3>1
    <3>8. b \in Seq(PickerRows)
      <4>1. b = [i \in 1..m |-> b[i]]
        BY <1>4, <3>1
      <4>2. b \in [1..m -> PickerRows]
        BY <1>4, <3>2, <4>1
      <4> QED BY <1>4, <4>2, SeqDef
    <3>4. OneEach(b)
      BY <1>1, <3>2, <3>3 DEF OneEach
    <3>5. ASSUME NEW k \in DOMAIN soFar, Picked(soFar[k]) PROVE HasRow(soFar[k], b)
      <4>1. PICK i \in DOMAIN apps : /\ apps[i].process = NormalizeEntry("windows", soFar[k].program)
                                     /\ soFar[k].title # "" => apps[i].title # ""
        BY <1>1, <3>5 DEF HasRow
      <4> QED BY <3>2, <3>3, <4>1 DEF HasRow
    <3>6. HasRow(w, b)
      BY <2>0, <2>4, <3>2, <3>3 DEF HasRow
    <3> QED BY <3>4, <3>5, <3>6, <3>8
  <2> QED BY <2>3, <2>4
<1> QED BY <1>2, <1>3

LEMMA AppsAreRows ==
    ASSUME BlockInv, Os = "windows"
    PROVE  RunningApps \in Seq(PickerRows) /\ RowsTold(desk, RunningApps)
<1> DEFINE R == {p \in Seq(Windows) \X Seq(PickerRows) : RowsTold(p[1], p[2])}
<1>1. <<<<>>, <<>>>> \in R
  <2>1. RowsTold(<<>>, <<>>)
    BY DEF RowsTold, OneEach
  <2>2. <<>> \in Seq(Windows) /\ <<>> \in Seq(PickerRows)
    OBVIOUS
  <2>3. <<<<>>, <<>>>> \in Seq(Windows) \X Seq(PickerRows)
    BY <2>2, Zenon
  <2> QED BY <2>1, <2>3
<1>2. ASSUME NEW p \in Seq(Windows), NEW w \in Windows, NEW a, <<p, a>> \in R
      PROVE  <<Append(p, w), Visit(a, w)>> \in R
  <2>1. a \in Seq(PickerRows) /\ RowsTold(p, a)
    BY <1>2
  <2>2. Visit(a, w) \in Seq(PickerRows) /\ RowsTold(Append(p, w), Visit(a, w)) /\ Append(p, w) \in Seq(Windows)
    BY <2>1, VisitMerges
  <2> QED BY <2>2
<1>3. \A p \in Seq(Windows), w \in Windows : \A a : <<p, a>> \in R => <<Append(p, w), Visit(a, w)>> \in R
  BY <1>2
<1>4. desk \in Seq(Windows)
  BY DEF BlockInv, DeskTyped
<1> HIDE DEF R
<1>5. <<desk, Visiting!Fold(<<>>, desk)>> \in R
  BY <1>1, <1>3, <1>4, Visiting!FoldFollows, Zenon
<1>6. FoldLeft(Visit, <<>>, desk) = Visiting!Fold(<<>>, desk)
  BY DEF FoldLeft, MapThenFoldSet, Max, Visiting!Fold, Visiting!Top
<1>7. RunningApps = Visiting!Fold(<<>>, desk)
  BY <1>6, Zenon DEF RunningApps
<1> QED BY <1>5, <1>7 DEF R

LEMMA NamesTell == ASSUME NEW v PROVE DisplayName(v) \notin {None, "generic"}
<1>1. FriendlyExecutableName(v) = None \/ FriendlyExecutableName(v) \notin {None, "generic"}
  BY Zenon DEF FriendlyExecutableName, Telling
<1>2. FriendlyProcessName \notin {None, "generic"}
  BY BlockAssumption DEF FriendlyProcessName
<1> QED BY <1>1, <1>2 DEF DisplayName

LEMMA AppsNamed ==
    ASSUME BlockInv
    PROVE  \A r \in ToSet(RunningApps) : TidyEntry("windows", r.process) /\ Os = "windows" /\ r.name \notin {None, "generic"}
<1>1. CASE Os # "windows"
  <2>1. RunningApps = <<>>
    BY <1>1 DEF RunningApps
  <2> QED BY <2>1 DEF ToSet
<1>2. CASE Os = "windows"
  <2>1. RunningApps \in Seq(PickerRows)
    BY <1>2, AppsAreRows
  <2>2. \A r \in ToSet(RunningApps) : r \in PickerRows
    BY <2>1 DEF ToSet
  <2>3. ASSUME NEW r \in PickerRows PROVE TidyEntry("windows", r.process) /\ r.name \notin {None, "generic"}
    <3>1. PICK w \in Windows : r.process = NormalizeEntry("windows", w.program)
      BY DEF PickerRows
    <3>2. PICK w2 \in Windows : r.name = DisplayName(w2.version)
      BY DEF PickerRows
    <3>3. w.program \in ProgramNames /\ "windows" \in Systems
      BY BlockAssumption DEF Systems
    <3>4. TidyEntry("windows", r.process)
      BY <3>1, <3>3, NormalTidy
    <3> QED BY <3>2, <3>4, NamesTell
  <2> QED BY <1>2, <2>2, <2>3
<1> QED BY <1>1, <1>2

\* Where resolve_apps finds the row of a program.
PlaceOf(s, x) == SelectInSeq(s, LAMBDA r : r.process = x)

LEMMA FirstFound ==
    ASSUME NEW s \in Seq(PickerRows), NEW x, PlaceOf(s, x) # 0 PROVE PlaceOf(s, x) \in DOMAIN s
<1> DEFINE t == {k \in 1..Len(s) : s[k].process = x}
           i == PlaceOf(s, x)
<1>1. i = IF t # {} THEN Min(t) ELSE 0
  BY DEF PlaceOf, SelectInSeq
<1>0. i # 0
  OBVIOUS
<1> HIDE DEF i
<1>2. t # {} /\ i = Min(t) /\ t \subseteq Nat /\ t \subseteq DOMAIN s
  BY <1>0, <1>1
<1> HIDE DEF t
<1>3. \E k \in t : \A m \in t : k <= m
  BY <1>2, Visiting!LeastNumber
<1>4. Min(t) \in t
  BY <1>3 DEF Min
<1> QED BY <1>2, <1>4 DEF i

LEMMA RowsHold == ASSUME BlockInv PROVE RowsAreThePrograms
<1>1. \A r, s \in ToSet(RunningApps) : r.process = s.process => r = s
  <2>1. CASE Os = "windows"
    BY <2>1, AppsAreRows DEF RowsTold, OneEach, ToSet
  <2>2. CASE Os # "windows"
    BY <2>2 DEF RunningApps, ToSet
  <2> QED BY <2>1, <2>2
<1>2. ASSUME Os = "windows", NEW i \in DOMAIN desk, Picked(desk[i])
      PROVE  \E r \in ToSet(RunningApps) : /\ r.process = NormalizeEntry(Os, desk[i].program)
                                           /\ desk[i].title # "" => r.title # ""
  BY <1>2, AppsAreRows DEF RowsTold, HasRow, ToSet
<1>3. ASSUME NEW e, NEW c PROVE ResolvedRow(e, c) \in ToSet(RunningApps) \/ ResolvedRow(e, c).name \notin {None, "generic"}
  <2> DEFINE x == NormalizeEntry("windows", e)
             i == SelectInSeq(RunningApps, LAMBDA r : r.process = x)
  <2>1. CASE Os # "windows"
    <3>1. ResolvedRow(e, c) = Row(e, "", FriendlyProcessName)
      BY <2>1 DEF ResolvedRow
    <3>2. FriendlyProcessName \notin {None, "generic"}
      BY BlockAssumption DEF FriendlyProcessName
    <3>3. Row(e, "", FriendlyProcessName).name = FriendlyProcessName
      BY Zenon DEF Row
    <3> QED BY <3>1, <3>2, <3>3, Zenon
  <2>2. CASE Os = "windows" /\ i # 0
    <3>1. ResolvedRow(e, c) = RunningApps[i]
      BY <2>2 DEF ResolvedRow
    <3>2. RunningApps \in Seq(PickerRows)
      BY <2>2, AppsAreRows
    <3>3. i \in DOMAIN RunningApps
      <4>1. i = PlaceOf(RunningApps, x)
        BY Zenon DEF PlaceOf
      <4> HIDE DEF i, x
      <4> QED BY <2>2, <3>2, <4>1, FirstFound
    <3> HIDE DEF i
    <3> QED BY <3>1, <3>3 DEF ToSet
  <2>3. CASE Os = "windows" /\ i = 0
    <3>1. ResolvedRow(e, c) = Row(x, "", DisplayName(InstalledExecutable(c)))
      BY <2>3 DEF ResolvedRow
    <3> HIDE DEF x
    <3>3. \A n : Row(x, "", n).name = n
      BY DEF Row
    <3>2. ResolvedRow(e, c).name = DisplayName(InstalledExecutable(c))
      BY <3>1, <3>3, Zenon
    <3> QED BY <3>2, NamesTell
  <2> QED BY <2>1, <2>2, <2>3
<1>4. \A r \in ResolveApps(saved, <<None, None>>) \cup ToSet(RunningApps) : r.name \notin {None, "generic"}
  BY <1>3, AppsNamed, Zenon DEF ResolveApps
<1> QED BY <1>1, <1>2, <1>4, Zenon DEF RowsAreThePrograms

-----------------------------------------------------------------------------
(* Blacklist: the steps. *)

LEMMA BlockStarts == ASSUME BlockInit PROVE BlockInv
<1>1. ShellTyped
  BY BlockAssumption DEF BlockInit, ShellTyped, Os, Systems
<1>2. DeskTyped
  <2>1. desk = <<>> /\ focused = 0
    BY DEF BlockInit
  <2>2. <<>> \in Seq(Windows) /\ Len(<<>>) = 0
    OBVIOUS
  <2>3. desk \in Seq(Windows) /\ Len(desk) = 0
    BY <2>1, <2>2
  <2> QED BY <2>1, <2>3 DEF DeskTyped
<1>3. ListsTidy
  <2>1. entries = {} /\ saved = {} /\ picker = <<>>
    BY DEF BlockInit
  <2>2. ToSet(picker) = {}
    BY <2>1 DEF ToSet
  <2> QED BY <2>1, <2>2 DEF ListsTidy
<1> QED BY <1>1, <1>2, <1>3 DEF BlockInv

LEMMA NormalizedTidy ==
    ASSUME NEW os \in Systems, NEW l, l \subseteq ProgramNames
    PROVE  Normalized(os, l) \subseteq ProgramNames /\ \A e \in Normalized(os, l) : TidyEntry(os, e)
BY NormalTidy DEF Normalized, TidyEntry

LEMMA BlockSteps == ASSUME BlockInv, BlockNext PROVE BlockInv'
<1>1. ShellTyped /\ DeskTyped /\ ListsTidy /\ Os \in Systems
  BY DEF BlockInv, ShellTyped
<1>2. entries \subseteq ProgramNames /\ saved \subseteq ProgramNames /\ TypedNames \subseteq ProgramNames
      /\ \A l \in RecommendedLists[Os] : l \subseteq ProgramNames
  BY <1>1, BlockAssumption DEF ListsTidy, TidyEntry
<1>3. ASSUME DraftOnly, entries' \subseteq ProgramNames PROVE BlockInv'
  <2>1. UNCHANGED <<shell, saved, desk, focused, picker>>
    BY <1>3 DEF DraftOnly
  <2> QED BY <1>1, <1>3, <2>1 DEF BlockInv, ShellTyped, DeskTyped, ListsTidy, Os
<1>4. ASSUME NEW n \in TypedNames, TypeEntry(n) PROVE BlockInv'
  <2>1. Kept(n) \in ProgramNames
    BY <1>1, <1>2, PlainTyped, NormalTidy DEF Kept, TidyEntry
  <2> QED BY <1>2, <1>3, <1>4, <2>1 DEF TypeEntry, With
<1>5. ASSUME NEW n, RemoveFromList(n) PROVE BlockInv'
  BY <1>2, <1>3, <1>5 DEF RemoveFromList, Without
<1>6. ASSUME NEW r \in ToSet(picker), ToggleRow(r) PROVE BlockInv'
  <2>1. r.process \in ProgramNames
    BY <1>1 DEF ListsTidy, TidyEntry
  <2> QED BY <1>2, <1>3, <1>6, <2>1 DEF ToggleRow, With, Without
<1>7. CASE ClearList
  BY <1>3, <1>7 DEF ClearList
<1>8. CASE RefreshPicker
  <2>1. picker' = RunningApps /\ UNCHANGED <<shell, entries, saved, desk, focused>>
    BY <1>8 DEF RefreshPicker
  <2>2. \A r \in ToSet(picker') : TidyEntry("windows", r.process) /\ Os = "windows"
    BY <2>1, AppsNamed
  <2> QED BY <1>1, <2>1, <2>2 DEF BlockInv, ShellTyped, DeskTyped, ListsTidy, Os
<1>9. CASE RebaseList
  BY <1>2, <1>3, <1>9 DEF RebaseList
<1>10. CASE SaveList
  <2>1. saved' = Normalized(Os, entries) /\ entries' \in {entries, Normalized(Os, entries)}
        /\ UNCHANGED <<shell, desk, focused, picker>>
    BY <1>10 DEF SaveList
  <2>2. Normalized(Os, entries) \subseteq ProgramNames /\ \A e \in Normalized(Os, entries) : TidyEntry(Os, e)
    BY <1>1, <1>2, NormalizedTidy
  <2> QED BY <1>1, <1>2, <2>1, <2>2 DEF BlockInv, ShellTyped, DeskTyped, ListsTidy, Os
<1>11. ASSUME NEW l \in RecommendedLists[Os], MergeLists(l) \/ ReplaceDefaults(l) PROVE BlockInv'
  <2>1. Normalized(Os, l) \subseteq ProgramNames
    BY <1>1, <1>2, NormalizedTidy
  <2> QED BY <1>2, <1>3, <1>11, <2>1 DEF MergeLists, ReplaceDefaults
<1>12. ASSUME NEW n \in TypedNames, EditList({n}) PROVE BlockInv'
  <2>1. saved' = Normalized(Os, {n}) /\ entries' = saved' /\ UNCHANGED <<shell, desk, focused, picker>>
    BY <1>12 DEF EditList
  <2>2. Normalized(Os, {n}) \subseteq ProgramNames /\ \A e \in Normalized(Os, {n}) : TidyEntry(Os, e)
    BY <1>1, <1>2, NormalizedTidy
  <2> QED BY <1>1, <2>1, <2>2 DEF BlockInv, ShellTyped, DeskTyped, ListsTidy, Os
<1>13. ASSUME NEW d \in Desktops[Os], NEW f \in 0..Len(d), DeskChanges(d, f) PROVE BlockInv'
  <2>1. d \in Seq(Windows)
    BY <1>1, BlockAssumption
  <2>2. desk' = d /\ focused' = f /\ UNCHANGED <<shell, entries, saved, picker>>
    BY <1>13 DEF DeskChanges
  <2> QED BY <1>1, <2>1, <2>2 DEF BlockInv, ShellTyped, DeskTyped, ListsTidy, Os
<1> QED BY <1>4, <1>5, <1>6, <1>7, <1>8, <1>9, <1>10, <1>11, <1>12, <1>13 DEF BlockNext

LEMMA BlockRests == ASSUME BlockInv, UNCHANGED block PROVE BlockInv'
BY DEF BlockInv, ShellTyped, DeskTyped, ListsTidy, Os, block

\* What is told to be silenced is (settings/blacklist.rs, host_core.rs, AppCore::apply_hotkey): a
\* shortcut is kept from exactly the programs of the saved list, a row of the picker is checked
\* exactly if saving would silence its program, and each program of the desktop has one row, with
\* a name - whatever names, suffixes, desktops and recommended lists there are.
THEOREM BlockingStaysHonest == Spec => []BlockingIsHonest
<1>1. Init => BlockInv
  BY BlockStarts DEF Init
<1>2. BlockInv /\ [Next]_vars => BlockInv'
  BY BlockSteps, BlockRests DEF Next, vars
<1>3. BlockInv => BlockingIsHonest
  BY GateHolds, CheckedHolds, RowsHold DEF BlockingIsHonest
<1> QED BY <1>1, <1>2, <1>3, PTL DEF Spec

=============================================================================
