-------------------------- MODULE TauriHost_proofs --------------------------
(***************************************************************************)
(* Theorems about the Tauri host: its threads and their windows, for any    *)
(* number of inputs and posted calls; its update manager with the card, for *)
(* any number of install commands, releases, checks and failures; and how   *)
(* it and the egui host start and end, for any number of processes, failing *)
(* calls and crashes; and its webview pages, for any streams, volumes,      *)
(* modifiers and number of inputs.  The four are state machines of their    *)
(* own, each with its specification: Spec, UpdateSpec, LaunchSpec and       *)
(* PagesSpec.                                                               *)
(***************************************************************************)
EXTENDS TauriHost, UpdateManager, Launches, WebviewPages, FiniteSetTheorems, SequenceTheorems, TLAPS

-----------------------------------------------------------------------------
(* The threads and the windows.                                             *)

\* What ActiveIsWindow and NoStackedSurfaces say, of any state of the window manager.
Agree(w) ==
    /\ \A s \in Surfaces : (w.win[s] \in Live => s \in w.active) /\ (s \in w.active => w.win[s] # "none")
    /\ ~(w.win["mixer"] \in Live /\ w.win["help"] \in Live)

\* A window operation may post one call more that nobody waits for.
Grown(q, r) == r = q \/ \E c \in CallSet : r = Append(q, By(c, None))

LEMMA StageFacts == "dying" \notin Live /\ "none" \notin Live /\ "new" \in Live /\ "shown" \in Live /\ "booted" \in Live
  BY DEF Live

LEMMA PostTypes == \A c \in CallSet, t \in Polls \cup {None} : By(c, t) \in Posts /\ By(c, t).by = t
  BY DEF Posts, By

LEMMA DestroyCalls == \A s \in Surfaces : Call("destroy", s) \in CallSet /\ Call("close", s) \in CallSet /\ Call("open", s) \in CallSet
  BY DEF CallSet, Operations, Ops, Call

LEMMA GrownTypes ==
    ASSUME NEW q \in Seq(Posts), NEW r, Grown(q, r)
    PROVE  r \in Seq(Posts)
  BY PostTypes DEF Grown

LEMMA CloseLemma ==
    ASSUME NEW w \in Windows, NEW s \in Surfaces
    PROVE  /\ CloseImpl(w, s) \in Windows
           /\ Agree(w) => Agree(CloseImpl(w, s))
           /\ CloseImpl(w, s).win[s] \notin Live
           /\ \A r \in Surfaces : r # s => CloseImpl(w, s).win[r] = w.win[r]
           /\ Grown(w.posted, CloseImpl(w, s).posted)
  <1> DEFINE v == CloseImpl(w, s)
  <1>1. /\ v.win = [w.win EXCEPT ![s] = IF w.win[s] \in Live THEN "dying" ELSE w.win[s]]
        /\ v.active = w.active \ {s} /\ v.heard = w.heard
        /\ v.posted = IF w.win[s] \in Live THEN Append(w.posted, By(Call("destroy", s), None)) ELSE w.posted
        /\ v = [win |-> v.win, active |-> v.active, posted |-> v.posted, heard |-> v.heard]
    <2>1. v = [w EXCEPT !.active = @ \ {s},
                        !.win[s] = IF @ \in Live THEN "dying" ELSE @,
                        !.posted = IF w.win[s] \in Live THEN Append(@, By(Call("destroy", s), None)) ELSE @]
      BY DEF CloseImpl
    <2> HIDE DEF v
    <2> QED BY <2>1 DEF Windows
  <1>2. Grown(w.posted, v.posted)
    BY <1>1, DestroyCalls DEF Grown
  <1>3. v.posted \in Seq(Posts)
    BY <1>2, GrownTypes DEF Windows
  <1>4. v.win \in [Surfaces -> Stages]
    BY <1>1 DEF Windows, Stages
  <1>5. v \in Windows
    <2> HIDE DEF v
    <2> QED BY <1>1, <1>3, <1>4 DEF Windows
  <1>6. v.win[s] \notin Live /\ \A r \in Surfaces : r # s => v.win[r] = w.win[r]
    BY <1>1, StageFacts DEF Windows
  <1>7. Agree(w) => Agree(v)
    <2> HIDE DEF v
    <2> QED BY <1>1, <1>6 DEF Agree, Surfaces
  <1> QED BY <1>2, <1>5, <1>6, <1>7

\* What an open displaces is gone before the window comes.
LEMMA ClearLemma ==
    ASSUME NEW w \in Windows, NEW s \in Surfaces
    PROVE  /\ ClearedFor(w, s) \in Windows
           /\ Agree(w) => /\ Agree(ClearedFor(w, s))
                          /\ \A r \in ClosesBeforeOpening(s) : ClearedFor(w, s).win[r] \notin Live
           /\ Grown(w.posted, ClearedFor(w, s).posted)
  <1> DEFINE rivals == ClosesBeforeOpening(s) \cap w.active
  <1>1. CASE rivals = {}
    <2>1. ClearedFor(w, s) = w
      BY <1>1 DEF ClearedFor
    <2>2. ClosesBeforeOpening(s) \subseteq Surfaces
      BY DEF ClosesBeforeOpening, Surfaces
    <2> QED BY <1>1, <2>1, <2>2 DEF Agree, Grown
  <1>2. CASE rivals # {}
    <2>1. PICK r \in rivals : ClearedFor(w, s) = CloseImpl(w, r)
      BY <1>2 DEF ClearedFor
    <2>2. r \in Surfaces /\ ClosesBeforeOpening(s) = {r}
      BY <2>1 DEF ClosesBeforeOpening, Surfaces
    <2> QED BY <2>1, <2>2, CloseLemma
  <1> QED BY <1>1, <1>2

LEMMA OpenLemma ==
    ASSUME NEW w \in Windows, NEW s \in Surfaces
    PROVE  /\ OpenImpl(w, s) \in Windows
           /\ Agree(w) => Agree(OpenImpl(w, s))
           /\ Grown(w.posted, OpenImpl(w, s).posted)
  <1> DEFINE c == ClearedFor(w, s)
             v == OpenImpl(w, s)
  <1>1. /\ c \in Windows /\ Grown(w.posted, c.posted)
        /\ Agree(w) => Agree(c) /\ \A r \in ClosesBeforeOpening(s) : c.win[r] \notin Live
    BY ClearLemma
  <1>2. c.win \in [Surfaces -> Stages] /\ c.active \subseteq Surfaces /\ c.heard \in BOOLEAN
    BY <1>1 DEF Windows
  <1>3. CASE Refuses(c, s)
    BY <1>1, <1>3 DEF OpenImpl
  <1>4. CASE ~Refuses(c, s)
    <2>1. /\ v.win = [c.win EXCEPT ![s] = v.win[s]] /\ v.win[s] \in {"shown", "new"}
          /\ v.active = c.active \cup {s} /\ v.posted = c.posted /\ v.heard \in BOOLEAN
          /\ v = [win |-> v.win, active |-> v.active, posted |-> v.posted, heard |-> v.heard]
      <3>1. CASE s \in c.active /\ c.win[s] \in Live
        <4>1. v = [c EXCEPT !.win[s] = "shown"]
          BY <1>4, <3>1 DEF OpenImpl
        <4> HIDE DEF v, c
        <4> QED BY <1>1, <1>2, <3>1, <4>1 DEF Windows
      <3>2. CASE ~(s \in c.active /\ c.win[s] \in Live)
        <4>1. v = [c EXCEPT !.win[s] = "new", !.active = @ \cup {s}, !.heard = IF s = "overlay" THEN FALSE ELSE @]
          BY <1>4, <3>2 DEF OpenImpl
        <4> HIDE DEF v, c
        <4> QED BY <1>1, <1>2, <4>1 DEF Windows
      <3> QED BY <3>1, <3>2
    <2> HIDE DEF v, c
    <2>2. v \in Windows
      BY <1>1, <1>2, <2>1 DEF Windows, Stages, Live
    <2>3. ASSUME Agree(c), \A r \in ClosesBeforeOpening(s) : c.win[r] \notin Live PROVE Agree(v)
      <3>1. \A r \in Surfaces : r # s => v.win[r] = c.win[r]
        BY <1>2, <2>1
      <3>2. s = "mixer" => c.win["help"] \notin Live
        BY <2>3 DEF ClosesBeforeOpening
      <3>3. s = "help" => c.win["mixer"] \notin Live
        BY <2>3 DEF ClosesBeforeOpening
      <3> QED BY <1>2, <2>1, <2>3, <3>1, <3>2, <3>3 DEF Agree, Surfaces
    <2> QED BY <1>1, <2>1, <2>2, <2>3 DEF v, c
  <1> QED BY <1>3, <1>4

LEMMA ToggleLemma ==
    ASSUME NEW w \in Windows, NEW s \in Surfaces
    PROVE  /\ Toggled(w, s) \in Windows /\ (Agree(w) => Agree(Toggled(w, s)))
           /\ Grown(w.posted, Toggled(w, s).posted)
  BY CloseLemma, OpenLemma DEF Toggled

LEMMA DyingLemma ==
    ASSUME NEW w \in Windows, NEW s \in Surfaces, w.win[s] \in Live
    PROVE  /\ Dying(w, s) \in Windows /\ (Agree(w) => Agree(Dying(w, s)))
           /\ Grown(w.posted, Dying(w, s).posted)
  <1> DEFINE v == Dying(w, s)
  <1>1. /\ v.win = [w.win EXCEPT ![s] = "dying"] /\ v.active = w.active /\ v.heard = w.heard
        /\ v.posted = Append(w.posted, By(Call("destroy", s), None))
        /\ v = [win |-> v.win, active |-> v.active, posted |-> v.posted, heard |-> v.heard]
    <2>1. v = [w EXCEPT !.win[s] = "dying", !.posted = Append(@, By(Call("destroy", s), None))]
      BY DEF Dying
    <2> HIDE DEF v
    <2> QED BY <2>1 DEF Windows
  <1>2. Grown(w.posted, v.posted) /\ v.posted \in Seq(Posts)
    BY <1>1, DestroyCalls, GrownTypes DEF Grown, Windows
  <1> HIDE DEF v
  <1>3. v \in Windows
    BY <1>1, <1>2 DEF Windows, Stages
  <1>4. Agree(w) => Agree(v)
    BY <1>1, StageFacts DEF Agree, Windows, Surfaces
  <1> QED BY <1>2, <1>3, <1>4 DEF v

LEMMA DestroyedLemma ==
    ASSUME NEW w \in Windows, NEW s \in Surfaces
    PROVE  /\ Destroyed(w, s) \in Windows /\ (Agree(w) => Agree(Destroyed(w, s)))
           /\ Destroyed(w, s).posted = w.posted
  <1> DEFINE v == Destroyed(w, s)
  <1>1. /\ v.win = [w.win EXCEPT ![s] = "none"] /\ v.active = w.active \ {s} /\ v.heard = w.heard
        /\ v.posted = w.posted
        /\ v = [win |-> v.win, active |-> v.active, posted |-> v.posted, heard |-> v.heard]
    <2>1. v = [w EXCEPT !.win[s] = "none", !.active = @ \ {s}]
      BY DEF Destroyed
    <2> HIDE DEF v
    <2> QED BY <2>1 DEF Windows
  <1> HIDE DEF v
  <1>2. v \in Windows
    BY <1>1 DEF Windows, Stages
  <1>3. Agree(w) => Agree(v)
    BY <1>1, StageFacts DEF Agree, Windows, Surfaces
  <1> QED BY <1>1, <1>2, <1>3 DEF v

\* A change of the posted calls or of what the page has heard changes no window.
LEMMA PostedLemma ==
    ASSUME NEW w \in Windows, NEW q \in Seq(Posts), NEW h \in BOOLEAN
    PROVE  /\ [w EXCEPT !.posted = q] \in Windows /\ [w EXCEPT !.posted = q].posted = q
           /\ Agree(w) => Agree([w EXCEPT !.posted = q])
           /\ [w EXCEPT !.heard = h] \in Windows /\ [w EXCEPT !.heard = h].posted = w.posted
           /\ Agree(w) => Agree([w EXCEPT !.heard = h])
  BY DEF Windows, Agree

LEMMA BootLemma ==
    ASSUME NEW w \in Windows, NEW s \in Surfaces, NEW g \in Live, w.win[s] \in Live
    PROVE  /\ [w EXCEPT !.win[s] = g] \in Windows /\ [w EXCEPT !.win[s] = g].posted = w.posted
           /\ Agree(w) => Agree([w EXCEPT !.win[s] = g])
  <1> DEFINE v == [w EXCEPT !.win[s] = g]
  <1>1. /\ v.win = [w.win EXCEPT ![s] = g] /\ v.active = w.active /\ v.heard = w.heard /\ v.posted = w.posted
        /\ v = [win |-> v.win, active |-> v.active, posted |-> v.posted, heard |-> v.heard]
    BY DEF Windows
  <1>2. v \in Windows
    BY DEF Windows, Stages
  <1> HIDE DEF v
  <1>3. Agree(w) => Agree(v)
    BY <1>1, StageFacts DEF Agree, Windows, Surfaces
  <1> QED BY <1>1, <1>2, <1>3 DEF v

LEMMA HeardLemma ==
    ASSUME NEW w \in Windows, NEW v \in Heard(w)
    PROVE  v \in Windows /\ v.posted = w.posted /\ (Agree(w) => Agree(v))
  <1>0. (w.win["overlay"] \in Live) \in BOOLEAN
    OBVIOUS
  <1>1. PICK h \in BOOLEAN : h = (w.win["overlay"] \in Live)
    BY <1>0, Zenon
  <1>2. v = w \/ v = [w EXCEPT !.heard = h]
    BY <1>1 DEF Heard
  <1> QED BY <1>2, PostedLemma DEF Windows

-----------------------------------------------------------------------------
(* Each answer of the main thread finds the call that waits for it.        *)

Mine(q, t) == {i \in 1 .. Len(q) : q[i].by = t}
AnswersIn(q, w) ==
    \A t \in Polls : /\ Mine(q, t) # {} => w[t] \in {"timed", "forever"}
                     /\ \A i, j \in Mine(q, t) : i = j

\* A poll has at most one posted call that it waits for, and it does wait then: what
\* answers that call cannot meet a poll that has gone on to another one, however late the
\* answer comes.
AnswersFindCalls == AnswersIn(wm.posted, wait)

LEMMA NoneIsNoPoll == None \notin Polls
  BY NoneAssumption DEF Polls

LEMMA MineAppend ==
    ASSUME NEW q \in Seq(Posts), NEW c \in CallSet, NEW u \in Polls \cup {None}, NEW t \in Polls
    PROVE  /\ Append(q, By(c, u)) \in Seq(Posts)
           /\ Mine(Append(q, By(c, u)), t) = IF u = t THEN Mine(q, t) \cup {Len(q) + 1} ELSE Mine(q, t)
  <1>1. PICK p \in Posts : p = By(c, u) /\ p.by = u
    BY PostTypes
  <1>2. Append(q, p) \in Seq(Posts) /\ Len(Append(q, p)) = Len(q) + 1 /\ Len(q) \in Nat
        /\ Append(q, p)[Len(q) + 1] = p /\ \A i \in 1 .. Len(q) : Append(q, p)[i] = q[i]
    OBVIOUS
  <1> QED BY <1>1, <1>2 DEF Mine

LEMMA MineGrown ==
    ASSUME NEW q \in Seq(Posts), NEW r, Grown(q, r), NEW t \in Polls
    PROVE  Mine(r, t) = Mine(q, t)
  <1>1. ASSUME NEW c \in CallSet, r = Append(q, By(c, None)) PROVE Mine(r, t) = Mine(q, t)
    <2>1. None \in Polls \cup {None} /\ None # t
      BY NoneIsNoPoll
    <2> QED BY <1>1, <2>1, MineAppend
  <1> QED BY <1>1 DEF Grown

LEMMA MineTail ==
    ASSUME NEW q \in Seq(Posts), q # <<>>, NEW t \in Polls
    PROVE  /\ \A i \in Mine(Tail(q), t) : i + 1 \in Mine(q, t)
           /\ Head(q).by = t => 1 \in Mine(q, t)
           /\ Head(q) \in Posts /\ Tail(q) \in Seq(Posts)
  BY DEF Mine

\* A call that is given up stays posted, for nobody.
Left(q, t) == [i \in DOMAIN q |-> IF q[i].by = t THEN [q[i] EXCEPT !.by = None] ELSE q[i]]
LEMMA MineLeft ==
    ASSUME NEW q \in Seq(Posts), NEW t \in Polls
    PROVE  /\ Left(q, t) \in Seq(Posts)
           /\ \A u \in Polls : Mine(Left(q, t), u) = IF u = t THEN {} ELSE Mine(q, u)
  <1>1. \A p \in Posts : p.by \in Polls \cup {None} /\ [p EXCEPT !.by = None] \in Posts /\ [p EXCEPT !.by = None].by = None
    <2> TAKE p \in Posts
    <2>1. PICK c \in CallSet, u \in Polls \cup {None} : p = [op |-> c.op, surface |-> c.surface, by |-> u]
      BY DEF Posts, By
    <2>2. p.by = u /\ [p EXCEPT !.by = None] = By(c, None)
      BY <2>1 DEF By
    <2> QED BY <2>2, PostTypes
  <1>2. DOMAIN q = 1 .. Len(q) /\ Len(q) \in Nat /\ \A i \in 1 .. Len(q) : q[i] \in Posts
    OBVIOUS
  <1>3. \A i \in 1 .. Len(q) : /\ Left(q, t)[i] \in Posts
                               /\ Left(q, t)[i].by = IF q[i].by = t THEN None ELSE q[i].by
    <2> TAKE i \in 1 .. Len(q)
    <2>1. Left(q, t)[i] = IF q[i].by = t THEN [q[i] EXCEPT !.by = None] ELSE q[i]
      BY <1>2 DEF Left
    <2> QED BY <1>1, <1>2, <2>1
  <1>4. Left(q, t) \in Seq(Posts) /\ Len(Left(q, t)) = Len(q)
    <2>1. Left(q, t) = [i \in 1 .. Len(q) |-> Left(q, t)[i]]
      BY <1>2 DEF Left
    <2>2. DOMAIN Left(q, t) = 1 .. Len(q) /\ Left(q, t) \in [1 .. Len(q) -> Posts]
      BY <1>2, <1>3, <2>1
    <2> QED BY <1>2, <2>2
  <1> QED BY <1>3, <1>4, NoneIsNoPoll DEF Mine

LEMMA GrownAnswers ==
    ASSUME TypeOK, AnswersFindCalls, wm' \in Windows, Grown(wm.posted, wm'.posted), UNCHANGED wait
    PROVE  AnswersFindCalls'
  <1>1. wm.posted \in Seq(Posts)
    BY DEF TypeOK, Windows
  <1>2. \A t \in Polls : Mine(wm'.posted, t) = Mine(wm.posted, t)
    BY <1>1, MineGrown
  <1> QED BY <1>2 DEF AnswersFindCalls, AnswersIn

\* Serving the first call: its poll, if one waits, has an answer.
LEMMA ServedAnswers ==
    ASSUME TypeOK, AnswersFindCalls, wm.posted # <<>>, NEW r \in {"ok", "err"}, Answer(r),
           wm' \in Windows, Grown(Tail(wm.posted), wm'.posted)
    PROVE  /\ AnswersFindCalls' /\ wait' \in [Polls -> {"run", "timed", "forever", "ok", "err"}]
           /\ \A t \in Polls : wait'[t] # "run" => wait[t] # "run"
  <1>1. wm.posted \in Seq(Posts) /\ Tail(wm.posted) \in Seq(Posts)
    BY DEF TypeOK, Windows
  <1>2. \A t \in Polls : Mine(wm'.posted, t) = Mine(Tail(wm.posted), t)
    BY <1>1, MineGrown
  <1>3. ASSUME NEW t \in Polls, Post1.by = t
        PROVE  wait[t] \in {"timed", "forever"} /\ Mine(wm'.posted, t) = {}
    <2>1. 1 \in Mine(wm.posted, t)
      BY <1>1, <1>3, MineTail DEF Post1
    <2>2. \A i \in Mine(Tail(wm.posted), t) : i + 1 = 1
      BY <1>1, <2>1, MineTail DEF AnswersFindCalls, AnswersIn
    <2>3. \A i \in Mine(Tail(wm.posted), t) : i \in Nat \ {0}
      BY <1>1 DEF Mine
    <2> QED BY <1>2, <2>1, <2>2, <2>3 DEF AnswersFindCalls, AnswersIn
  <1>4. ASSUME NEW t \in Polls, Post1.by # t
        PROVE  /\ wait'[t] = wait[t] /\ (Mine(wm'.posted, t) # {} => Mine(wm.posted, t) # {})
               /\ \A i, j \in Mine(wm'.posted, t) : i = j
    <2>1. wait'[t] = wait[t]
      BY <1>4 DEF Answer
    <2>2. \A i \in Mine(Tail(wm.posted), t) : i + 1 \in Mine(wm.posted, t) /\ i \in Nat
      BY <1>1, MineTail DEF Mine
    <2> QED BY <1>2, <2>1, <2>2 DEF AnswersFindCalls, AnswersIn
  <1>5. wait' \in [Polls -> {"run", "timed", "forever", "ok", "err"}]
    BY DEF Answer, TypeOK
  <1>6. AnswersFindCalls'
    BY <1>3, <1>4 DEF AnswersFindCalls, AnswersIn
  <1> QED BY <1>3, <1>4, <1>5, <1>6

-----------------------------------------------------------------------------
\* A step of the windows that posts at most a call for nobody.
Moves == wm' \in Windows /\ Grown(wm.posted, wm'.posted) /\ (Agree(wm) => Agree(wm'))

LEMMA ExitPostedMoves ==
    ASSUME NEW w \in Windows
    PROVE  /\ ExitPosted(w) \in Windows /\ Grown(w.posted, ExitPosted(w).posted)
           /\ Agree(w) => Agree(ExitPosted(w))
  <1> DEFINE q == Append(w.posted, By(Call("exit", None), None))
  <1>1. Grown(w.posted, q)
    BY DEF Grown, CallSet, Operations, Ops, Call
  <1>2. q \in Seq(Posts)
    BY <1>1, GrownTypes DEF Windows
  <1> HIDE DEF q
  <1> QED BY <1>1, <1>2, PostedLemma DEF ExitPosted, q

Exits == [event : BOOLEAN, requested : BOOLEAN, ended : BOOLEAN, gone : BOOLEAN]
LEMMA ExitTypes ==
    \A e \in Exits : /\ Requested(e) \in Exits /\ ExitRequested(e) \in Exits
                     /\ [e EXCEPT !.event = TRUE] \in Exits
                     /\ [Requested(e) EXCEPT !.event = FALSE, !.ended = TRUE] \in Exits
  BY DEF Requested, ExitRequested, Exits

HudIs(h) == h \in [seq : Nat, timers : SUBSET Nat] /\ h.timers \subseteq 1 .. h.seq
LEMMA HudTypes == \A h : HudIs(h) => HudIs(Armed(h)) /\ \A n : HudIs([h EXCEPT !.timers = @ \ {n}])
  <1> TAKE h
  <1> HAVE HudIs(h)
  <1>1. PICK q \in Nat, m \in SUBSET Nat : h = [seq |-> q, timers |-> m] /\ m \subseteq 1 .. q
    BY DEF HudIs
  <1>2. Armed(h) = [seq |-> q + 1, timers |-> m \cup {q + 1}]
    BY <1>1 DEF Armed
  <1>3. m \cup {q + 1} \subseteq 1 .. q + 1
    BY <1>1
  <1>4. HudIs(Armed(h))
    BY <1>2, <1>3 DEF HudIs
  <1>5. \A n : [h EXCEPT !.timers = @ \ {n}] = [seq |-> q, timers |-> m \ {n}]
    BY <1>1
  <1> QED BY <1>1, <1>4, <1>5 DEF HudIs

LEMMA JobTypes ==
    /\ \A b \in BOOLEAN : Publish(b) \in Seq(CallSet)
    /\ <<Call("open", "mixer")>> \in Seq(CallSet)
  <1>1. Call("tray", None) \in CallSet /\ Call("hud", None) \in CallSet /\ Call("open", "mixer") \in CallSet
    BY DEF CallSet, Operations, Ops, Call, Surfaces
  <1>2. <<Call("tray", None)>> \in Seq(CallSet) /\ <<Call("hud", None)>> \in Seq(CallSet) /\ <<>> \in Seq(CallSet)
    BY <1>1
  <1> QED BY <1>1, <1>2 DEF Publish

LEMMA InitTypes == Init => TypeOK /\ AnswersFindCalls /\ Agree(wm)
  <1> SUFFICES ASSUME Init PROVE TypeOK /\ AnswersFindCalls /\ Agree(wm)
    OBVIOUS
  <1>1. Closed \in Windows /\ Agree(Closed) /\ Closed.posted = <<>>
    BY DEF Closed, Windows, Stages, Agree, Live, Surfaces
  <1>2. wm \in Windows /\ Agree(wm) /\ Grown(<<>>, wm.posted)
    <2>1. "mixer" \in Surfaces
      BY DEF Surfaces
    <2> QED BY <1>1, <2>1, OpenLemma DEF Init, Grown
  <1>3. \A t \in Polls : Mine(wm.posted, t) = {}
    <2>1. <<>> \in Seq(Posts) /\ \A t \in Polls : Mine(<<>>, t) = {}
      BY DEF Mine
    <2> QED BY <1>2, <2>1, MineGrown
  <1>4. AnswersFindCalls
    BY <1>3 DEF AnswersFindCalls, AnswersIn
  <1>5. job \in [Polls -> Seq(CallSet)]
    <2>1. <<>> \in Seq(CallSet)
      OBVIOUS
    <2> QED BY <2>1 DEF Init
  <1>6. /\ windows \in BOOLEAN /\ edited \in BOOLEAN /\ changed \in BOOLEAN /\ launch \in BOOLEAN
        /\ asked \in BOOLEAN /\ refused \in BOOLEAN /\ abandoned \in BOOLEAN
    BY PlatformsAssumption, Zenon DEF Init
  <1>7. /\ exit \in Exits /\ HudIs(hud)
        /\ wait \in [Polls -> {"run", "timed", "forever", "ok", "err"}] /\ \A t \in Polls : wait[t] = "run"
        /\ inputs \in 0 .. MaxInputs /\ hotkeys \in Seq(CallSet)
        /\ core \in Polls \cup {None} /\ main \in CallSet \cup {None}
    BY BoundAssumption DEF Init, Exits, HudIs
  <1> QED BY <1>2, <1>4, <1>5, <1>6, <1>7 DEF TypeOK, Exits, HudIs

\* What users, other programs and the system do, and a page that asks for its bootstrap.
LEMMA InputTypes ==
    ASSUME TypeOK,
           \/ \E c \in {Call("volume", None), Call("toggle", "mixer")} : Hotkey(c)
           \/ Edit \/ VolumeKey \/ SecondLaunch \/ ExitEvent
           \/ \E c \in Commands : Command(c)
           \/ \E s \in Surfaces : Bootstrap(s)
    PROVE  TypeOK' /\ UNCHANGED <<wm, wait>>
  <1> USE DEF threads, signals, history
  <1>1. /\ \A c \in {Call("volume", None), Call("toggle", "mixer")} \cup Commands : c \in CallSet
        /\ \A s \in Surfaces : Call("boot", s) \in CallSet
    BY DEF CallSet, Operations, Ops, Call, Commands, Surfaces
  <1>2. CASE \E c \in {Call("volume", None), Call("toggle", "mixer")} : Hotkey(c)
    BY <1>1, <1>2, BoundAssumption DEF Hotkey, Input, TypeOK
  <1>3. CASE Edit \/ VolumeKey \/ SecondLaunch
    <2>1. edited' \in BOOLEAN /\ changed' \in BOOLEAN /\ launch' \in BOOLEAN
      BY <1>3, Zenon DEF Edit, VolumeKey, SecondLaunch, TypeOK
    <2> QED BY <1>3, <2>1, BoundAssumption DEF Edit, VolumeKey, SecondLaunch, Input, TypeOK
  <1>4. CASE ExitEvent
    <2>1. asked' \in BOOLEAN
      BY <1>4, Zenon DEF ExitEvent
    <2>2. exit' \in Exits
      BY <1>4, ExitTypes DEF ExitEvent, TypeOK, Exits
    <2> QED BY <1>4, <2>1, <2>2, BoundAssumption DEF ExitEvent, Input, TypeOK, Exits
  <1>5. CASE \E c \in Commands : Command(c)
    BY <1>1, <1>5, BoundAssumption DEF Command, Input, TypeOK
  <1>6. CASE \E s \in Surfaces : Bootstrap(s)
    BY <1>1, <1>6 DEF Bootstrap, TypeOK
  <1> QED BY <1>2, <1>3, <1>4, <1>5, <1>6

\* Window operations by users, the main thread and the page.
LEMMA MoveTypes ==
    ASSUME TypeOK,
           \/ CloseSurface \/ (\E s \in Surfaces : OpenSurface(s) \/ CloseButton(s)) \/ Signal
           \/ RunVolume \/ RunSurface \/ RunExit \/ RunBootstrap
           \/ (\E s \in Surfaces : SurfaceReady(s)) \/ PageTimer
    PROVE  TypeOK' /\ Moves /\ UNCHANGED wait
  <1> USE DEF threads, signals, history
  <1>0. wm \in Windows /\ Grown(wm.posted, wm.posted) /\ "mixer" \in Surfaces /\ "overlay" \in Surfaces
    BY DEF TypeOK, Grown, Surfaces
  <1>1. CASE CloseSurface
    <2>1. Moves
      BY <1>0, <1>1, CloseLemma DEF CloseSurface, Moves
    <2> QED BY <1>1, <2>1, BoundAssumption DEF CloseSurface, Input, TypeOK, Moves
  <1>2. ASSUME NEW s \in Surfaces, OpenSurface(s) PROVE TypeOK' /\ Moves /\ UNCHANGED wait
    <2>1. Moves
      BY <1>0, <1>2, OpenLemma DEF OpenSurface, Moves
    <2>2. refused' \in BOOLEAN
      BY <1>2, Zenon DEF OpenSurface, Notes
    <2> QED BY <1>2, <2>1, <2>2, BoundAssumption DEF OpenSurface, Input, TypeOK, Moves
  <1>3. ASSUME NEW s \in Surfaces, CloseButton(s) PROVE TypeOK' /\ Moves /\ UNCHANGED wait
    <2>1. Moves
      BY <1>0, <1>3, DyingLemma, StageFacts DEF CloseButton, Moves
    <2> QED BY <1>3, <2>1, BoundAssumption DEF CloseButton, Input, TypeOK, Moves
  <1>4. CASE Signal
    <2>1. Moves
      BY <1>0, <1>4, ExitPostedMoves DEF Signal, Moves
    <2>2. asked' \in BOOLEAN
      BY <1>4, Zenon DEF Signal
    <2>3. exit' \in Exits
      BY <1>4, ExitTypes DEF Signal, TypeOK, Exits
    <2> QED BY <1>4, <2>1, <2>2, <2>3, BoundAssumption DEF Signal, Input, TypeOK, Moves, Exits
  <1>5. CASE RunVolume
    <2>1. Moves
      <3>1. CASE wm' = wm \/ wm' = OpenImpl(wm, "overlay")
        BY <1>0, <3>1, OpenLemma DEF Moves
      <3>2. CASE wm' \in Heard(OpenImpl(wm, "overlay"))
        <4>1. PICK w \in Windows : w = OpenImpl(wm, "overlay") /\ Grown(wm.posted, w.posted) /\ (Agree(wm) => Agree(w))
          BY <1>0, OpenLemma
        <4>2. wm' \in Windows /\ wm'.posted = w.posted /\ (Agree(w) => Agree(wm'))
          BY <3>2, <4>1, HeardLemma
        <4> QED BY <4>1, <4>2 DEF Moves
      <3>3. wm' = wm \/ wm' = OpenImpl(wm, "overlay") \/ wm' \in Heard(OpenImpl(wm, "overlay"))
        BY <1>5, Zenon DEF RunVolume
      <3> QED BY <3>1, <3>2, <3>3
    <2>2. refused' \in BOOLEAN
      BY <1>5, Zenon DEF RunVolume, Notes, TypeOK
    <2>3. HudIs(hud')
      <3>1. hud' = hud \/ hud' = Armed(hud)
        BY <1>5, Zenon DEF RunVolume
      <3>2. HudIs(hud)
        BY DEF TypeOK, HudIs
      <3> QED BY <3>1, <3>2, HudTypes, Zenon
    <2>4. main' = None /\ UNCHANGED <<windows, core, job, wait, signals, exit, inputs, asked, abandoned>>
      BY <1>5 DEF RunVolume, Locked
    <2> QED BY <2>1, <2>2, <2>3, <2>4 DEF TypeOK, Moves, HudIs
  <1>6. CASE RunSurface
    <2>1. main \in CallSet /\ main.surface \in Surfaces
      BY <1>6 DEF RunSurface, Locked, TypeOK, CallSet
    <2>2. Moves
      BY <1>0, <1>6, <2>1, ToggleLemma, OpenLemma DEF RunSurface, Moves
    <2>3. refused' \in BOOLEAN
      BY <1>6, Zenon DEF RunSurface, Notes, TypeOK
    <2> QED BY <1>6, <2>2, <2>3 DEF RunSurface, Locked, TypeOK, Moves
  <1>7. CASE RunExit
    <2>1. Moves
      BY <1>0, <1>7, ExitPostedMoves DEF RunExit, Moves
    <2>2. asked' \in BOOLEAN
      BY <1>7, Zenon DEF RunExit
    <2>3. exit' \in Exits
      BY <1>7, ExitTypes DEF RunExit, TypeOK, Exits
    <2> QED BY <1>7, <2>1, <2>2, <2>3 DEF RunExit, Locked, TypeOK, Moves, Exits
  <1>8. CASE RunBootstrap
    <2>1. main \in CallSet /\ main.surface \in Surfaces
      BY <1>8 DEF RunBootstrap, Locked, TypeOK, CallSet
    <2>2. wm' = [wm EXCEPT !.win[main.surface] = IF wm.win[main.surface] = "new" THEN "booted" ELSE wm.win[main.surface]]
      BY <1>8 DEF RunBootstrap
    <2>3. CASE wm.win[main.surface] = "new"
      <3>1. wm' = [wm EXCEPT !.win[main.surface] = "booted"]
        BY <2>2, <2>3
      <3>2. Moves
        BY <1>0, <2>1, <2>3, <3>1, BootLemma, StageFacts DEF Moves
      <3> QED BY <1>8, <3>2 DEF RunBootstrap, Locked, TypeOK, Moves
    <2>4. CASE wm.win[main.surface] # "new"
      <3>1. wm' = wm
        BY <1>0, <2>1, <2>2, <2>4 DEF Windows
      <3>2. Moves
        BY <1>0, <3>1 DEF Moves
      <3> QED BY <1>8, <3>2 DEF RunBootstrap, Locked, TypeOK, Moves
    <2> QED BY <2>3, <2>4
  <1>9. ASSUME NEW s \in Surfaces, SurfaceReady(s) PROVE TypeOK' /\ Moves /\ UNCHANGED wait
    <2>1. Moves
      BY <1>0, <1>9, BootLemma, StageFacts DEF SurfaceReady, Moves
    <2> QED BY <1>9, <2>1 DEF SurfaceReady, TypeOK, Moves
  <1>10. CASE PageTimer
    <2>1. PICK w \in Windows : w = Dying(wm, "overlay") /\ Grown(wm.posted, w.posted) /\ (Agree(wm) => Agree(w))
      BY <1>0, <1>10, DyingLemma DEF PageTimer
    <2>2. wm' = [w EXCEPT !.heard = FALSE] /\ w.posted \in Seq(Posts)
      BY <1>10, <2>1 DEF PageTimer, Windows
    <2>3. Moves
      BY <2>1, <2>2, PostedLemma DEF Moves
    <2> QED BY <1>10, <2>3 DEF PageTimer, TypeOK, Moves
  <1> QED BY <1>1, <1>2, <1>3, <1>4, <1>5, <1>6, <1>7, <1>8, <1>9, <1>10

\* The main thread serves what is posted.
LEMMA ServeTypes ==
    ASSUME TypeOK, AnswersFindCalls, ServeOpen \/ ServeClose \/ ServeItem \/ ServeDestroy \/ ServeExit
    PROVE  TypeOK' /\ AnswersFindCalls' /\ (Agree(wm) => Agree(wm'))
  <1> USE DEF threads, signals, history
  <1>0. wm \in Windows /\ wm.posted \in Seq(Posts) /\ wm.posted # <<>>
    BY DEF TypeOK, Windows, ServeOpen, ServeClose, ServeItem, ServeDestroy, ServeExit, Served
  <1>1. /\ Rest \in Windows /\ Rest.posted = Tail(wm.posted) /\ (Agree(wm) => Agree(Rest))
        /\ Tail(wm.posted) \in Seq(Posts) /\ Grown(Tail(wm.posted), Tail(wm.posted))
    <2>1. Tail(wm.posted) \in Seq(Posts)
      BY <1>0
    <2> QED BY <1>0, <2>1, PostedLemma DEF Rest, Grown
  <1>2. /\ Post1 \in Posts
        /\ Post1.op \in {"open", "close", "destroy"} => Post1.surface \in Surfaces
    <2>1. Post1 \in Posts
      BY <1>0 DEF Post1
    <2> HIDE DEF Post1
    <2> QED BY <2>1 DEF Posts, By, CallSet
  <1>3. ASSUME NEW r \in {"ok", "err"}, Answer(r), wm' \in Windows, Grown(Tail(wm.posted), wm'.posted), UNCHANGED job
        PROVE  /\ AnswersFindCalls' /\ wait' \in [Polls -> {"run", "timed", "forever", "ok", "err"}]
               /\ \A t \in Polls : wait'[t] # "run" => job'[t] # <<>>
    BY <1>0, <1>3, ServedAnswers DEF TypeOK
  <1>4. CASE ServeOpen
    <2>1. /\ wm' \in Windows /\ Grown(Tail(wm.posted), wm'.posted) /\ (Agree(wm) => Agree(wm'))
      BY <1>1, <1>2, <1>4, OpenLemma DEF ServeOpen
    <2>2. \E r \in {"ok", "err"} : Answer(r)
      BY <1>4 DEF ServeOpen
    <2>3. refused' \in BOOLEAN /\ abandoned' \in BOOLEAN
      BY <1>4, Zenon DEF ServeOpen, Notes
    <2>4. UNCHANGED <<windows, core, main, job, hud, signals, exit, inputs, asked>>
      BY <1>4 DEF ServeOpen
    <2> QED BY <1>3, <2>1, <2>2, <2>3, <2>4 DEF TypeOK
  <1>5. CASE ServeClose
    <2>1. /\ wm' \in Windows /\ Grown(Tail(wm.posted), wm'.posted) /\ (Agree(wm) => Agree(wm'))
      BY <1>1, <1>2, <1>5, CloseLemma DEF ServeClose
    <2>2. Answer("ok") /\ UNCHANGED <<windows, core, main, job, hud, signals, exit, inputs, history>>
      BY <1>5 DEF ServeClose
    <2> QED BY <1>3, <2>1, <2>2 DEF TypeOK
  <1>6. CASE ServeItem
    <2>1. /\ wm' \in Windows /\ Grown(Tail(wm.posted), wm'.posted) /\ (Agree(wm) => Agree(wm'))
      BY <1>1, <1>6 DEF ServeItem
    <2>2. Answer("ok") /\ UNCHANGED <<windows, core, main, job, hud, signals, exit, inputs, history>>
      BY <1>6 DEF ServeItem
    <2> QED BY <1>3, <2>1, <2>2 DEF TypeOK
  <1>7. ASSUME wm' \in Windows, wm'.posted = Tail(wm.posted), UNCHANGED wait PROVE AnswersFindCalls'
    <2>1. \A t \in Polls : \A i \in Mine(wm'.posted, t) : i + 1 \in Mine(wm.posted, t) /\ i \in Nat
      BY <1>0, <1>7, MineTail DEF Mine
    <2> QED BY <1>7, <2>1 DEF AnswersFindCalls, AnswersIn
  <1>8. CASE ServeDestroy
    <2>1. /\ wm' \in Windows /\ wm'.posted = Tail(wm.posted) /\ (Agree(wm) => Agree(wm'))
      BY <1>1, <1>2, <1>8, DestroyedLemma DEF ServeDestroy
    <2>2. exit' \in Exits /\ UNCHANGED <<windows, threads, hud, signals, inputs, history>>
      BY <1>8, ExitTypes DEF ServeDestroy, TypeOK, Exits
    <2> QED BY <1>7, <2>1, <2>2 DEF TypeOK, Exits
  <1>9. CASE ServeExit
    <2>1. exit' \in Exits /\ wm' = Rest /\ UNCHANGED <<windows, threads, hud, signals, inputs, history>>
      BY <1>9, ExitTypes DEF ServeExit, TypeOK, Exits
    <2> QED BY <1>1, <1>7, <2>1 DEF TypeOK, Exits
  <1> QED BY <1>4, <1>5, <1>6, <1>8, <1>9

\* A poll posts a call and waits.
LEMMA CallLemma ==
    ASSUME TypeOK, AnswersFindCalls, NEW t \in Polls, NEW c \in CallSet, NEW r \in {"timed", "forever"},
           wait[t] = "run", wm' = Posted(wm, c, t), wait' = [wait EXCEPT ![t] = r]
    PROVE  wm' \in Windows /\ AnswersFindCalls' /\ (Agree(wm) => Agree(wm'))
  <1> DEFINE q == Append(wm.posted, By(c, t))
  <1>1. wm \in Windows /\ wm.posted \in Seq(Posts) /\ q \in Seq(Posts)
    BY PostTypes DEF TypeOK, Windows
  <1>2. wm' \in Windows /\ wm'.posted = q /\ (Agree(wm) => Agree(wm'))
    <2>1. wm' = [wm EXCEPT !.posted = q]
      BY DEF Posted
    <2>2. /\ [wm EXCEPT !.posted = q] \in Windows /\ [wm EXCEPT !.posted = q].posted = q
          /\ Agree(wm) => Agree([wm EXCEPT !.posted = q])
      <3> HIDE DEF q
      <3> QED BY <1>1, PostedLemma
    <2> QED BY <2>1, <2>2
  <1>3. Mine(wm.posted, t) = {}
    BY DEF AnswersFindCalls, AnswersIn
  <1>4. \A u \in Polls : Mine(q, u) = IF t = u THEN {Len(wm.posted) + 1} ELSE Mine(wm.posted, u)
    <2> TAKE u \in Polls
    <2>1. Mine(q, u) = IF t = u THEN Mine(wm.posted, u) \cup {Len(wm.posted) + 1} ELSE Mine(wm.posted, u)
      <3>1. t \in Polls \cup {None}
        OBVIOUS
      <3>2. ASSUME NEW o \in Seq(Posts), NEW v \in Polls \cup {None}
            PROVE  Mine(Append(o, By(c, v)), u) = IF v = u THEN Mine(o, u) \cup {Len(o) + 1} ELSE Mine(o, u)
        BY MineAppend
      <3> QED BY <1>1, <3>1, <3>2
    <2> QED BY <1>3, <2>1
  <1>5. \A u \in Polls : wait'[u] = IF t = u THEN r ELSE wait[u]
    BY DEF TypeOK
  <1> QED BY <1>2, <1>4, <1>5 DEF AnswersFindCalls, AnswersIn

LEMMA PollTypes ==
    ASSUME TypeOK, AnswersFindCalls, NEW t \in Polls, Poll(t)
    PROVE  TypeOK' /\ AnswersFindCalls' /\ (Agree(wm) => Agree(wm'))
  <1> USE DEF threads, signals, history
  <1>0. wm \in Windows /\ wm.posted \in Seq(Posts) /\ Grown(wm.posted, wm.posted)
    BY DEF TypeOK, Windows, Grown
  <1>1. ASSUME UNCHANGED <<wm, wait>> PROVE AnswersFindCalls' /\ (Agree(wm) => Agree(wm'))
    BY <1>1 DEF AnswersFindCalls, AnswersIn
  <1>2. Calls(t) => Head1(t) \in CallSet /\ Window(t) \in CallSet /\ wait[t] = "run"
    <2> SUFFICES ASSUME Calls(t) PROVE Head1(t) \in CallSet /\ Window(t) \in CallSet
      BY DEF Calls
    <2>1. Head1(t) \in CallSet
      BY DEF Calls, Head1, TypeOK
    <2> QED BY <2>1 DEF Window, CallSet, Operations, Ops, Call, Surfaces
  <1>3. CASE Unlock(t)
    BY <1>1, <1>3 DEF Unlock, TypeOK
  <1>4. CASE CallItem(t)
    <2>1. wm' \in Windows /\ AnswersFindCalls' /\ (Agree(wm) => Agree(wm'))
      BY <1>2, <1>4, CallLemma DEF CallItem
    <2>2. wait' = [wait EXCEPT ![t] = "forever"] /\ job[t] # <<>>
      BY <1>4 DEF CallItem, Calls
    <2> QED BY <1>4, <2>1, <2>2 DEF CallItem, TypeOK
  <1>5. CASE CallWindow(t)
    <2>1. wm' \in Windows /\ AnswersFindCalls' /\ (Agree(wm) => Agree(wm'))
      BY <1>2, <1>5, CallLemma DEF CallWindow
    <2>2. wait' = [wait EXCEPT ![t] = "timed"] /\ job[t] # <<>>
      BY <1>5 DEF CallWindow, Calls
    <2> QED BY <1>5, <2>1, <2>2 DEF CallWindow, TypeOK
  <1>6. CASE CallTray(t)
    <2>1. Tail(job[t]) \in Seq(CallSet) /\ wait[t] = "run" /\ UNCHANGED <<wm, wait>>
      BY <1>6 DEF CallTray, Calls, TypeOK
    <2> QED BY <1>1, <1>6, <2>1 DEF CallTray, TypeOK
  <1>7. CASE GiveUp(t)
    <2>1. /\ wm' = [wm EXCEPT !.posted = Left(wm.posted, t)] /\ wait' = [wait EXCEPT ![t] = "err"]
          /\ wait[t] = "timed" /\ UNCHANGED <<windows, core, main, job, hud, signals, exit, inputs, history>>
      BY <1>7 DEF GiveUp, Left
    <2>2. Left(wm.posted, t) \in Seq(Posts)
      BY <1>0, MineLeft
    <2>3. wm' \in Windows /\ wm'.posted = Left(wm.posted, t) /\ (Agree(wm) => Agree(wm'))
      BY <1>0, <2>1, <2>2, PostedLemma
    <2>4. AnswersFindCalls'
      <3>1. \A u \in Polls : Mine(wm'.posted, u) = IF u = t THEN {} ELSE Mine(wm.posted, u)
        <4>1. \A u \in Polls : Mine(Left(wm.posted, t), u) = IF u = t THEN {} ELSE Mine(wm.posted, u)
          BY <1>0, MineLeft
        <4> QED BY <2>3, <4>1
      <3>2. \A u \in Polls : u # t => wait'[u] = wait[u]
        BY <2>1 DEF TypeOK
      <3> QED BY <3>1, <3>2 DEF AnswersFindCalls, AnswersIn
    <2> QED BY <2>1, <2>3, <2>4 DEF TypeOK
  <1>8. CASE Return(t)
    <2>1. /\ wait[t] \in {"ok", "err"} /\ wait' = [wait EXCEPT ![t] = "run"] /\ job' = [job EXCEPT ![t] = Tail(@)]
          /\ UNCHANGED <<windows, core, main, signals, exit, inputs, history>>
      BY <1>8 DEF Return
    <2>2. wm' \in Windows /\ wm'.posted = wm.posted /\ (Agree(wm) => Agree(wm'))
      <3>1. wm' = wm \/ wm' \in Heard(wm)
        BY <1>8, Zenon DEF Return
      <3> QED BY <1>0, <3>1, HeardLemma
    <2>3. HudIs(hud')
      <3>1. hud' = hud \/ hud' = Armed(hud)
        BY <1>8, Zenon DEF Return
      <3>2. HudIs(hud)
        BY DEF TypeOK, HudIs
      <3> QED BY <3>1, <3>2, HudTypes, Zenon
    <2>4. Tail(job[t]) \in Seq(CallSet)
      BY <2>1 DEF TypeOK
    <2>5. AnswersFindCalls'
      <3>1. Mine(wm.posted, t) = {}
        BY <2>1 DEF AnswersFindCalls, AnswersIn
      <3>2. \A u \in Polls : u # t => wait'[u] = wait[u]
        BY <2>1 DEF TypeOK
      <3> QED BY <2>2, <3>1, <3>2 DEF AnswersFindCalls, AnswersIn
    <2> QED BY <2>1, <2>2, <2>3, <2>4, <2>5 DEF TypeOK, HudIs
  <1>9. CASE t = "fast" /\ FastExit
    <2>1. Moves /\ UNCHANGED wait
      BY <1>0, <1>9, ExitPostedMoves DEF FastExit, Moves
    <2>2. exit' \in Exits
      BY <1>9, ExitTypes DEF FastExit, TypeOK, Exits
    <2>3. AnswersFindCalls'
      BY <2>1, GrownAnswers DEF Moves
    <2> QED BY <1>9, <2>1, <2>2, <2>3 DEF FastExit, TypeOK, Moves, Exits
  <1>10. CASE t = "fast" /\ FastLaunch
    <2>1. wait["fast"] = "run" /\ UNCHANGED <<wm, wait>> /\ launch' \in BOOLEAN
      BY <1>10, Zenon DEF FastLaunch, Free
    <2>2. job' = [job EXCEPT !["fast"] = <<Call("open", "mixer")>>] /\ job' \in [Polls -> Seq(CallSet)]
      BY <1>10, JobTypes DEF FastLaunch, TypeOK
    <2>3. \A u \in Polls : wait'[u] # "run" => job'[u] # <<>>
      BY <2>1, <2>2 DEF TypeOK
    <2> QED BY <1>1, <1>10, <2>1, <2>2, <2>3 DEF FastLaunch, TypeOK
  <1>11. CASE t = "fast" /\ FastLock
    BY <1>1, <1>11 DEF FastLock, TypeOK
  <1>12. CASE t = "fast" /\ FastDrain
    <2>1. Head(hotkeys) \in CallSet /\ hotkeys' \in Seq(CallSet)
      BY <1>12 DEF FastDrain, TypeOK
    <2>2. <<Head(hotkeys)>> \in Seq(CallSet) /\ Publish(TRUE) \in Seq(CallSet)
      <3>1. \A c \in CallSet : <<c>> \in Seq(CallSet)
        OBVIOUS
      <3> QED BY <2>1, <3>1, JobTypes
    <2>3. wait["fast"] = "run" /\ UNCHANGED <<wm, wait>>
      BY <1>12 DEF FastDrain, Free
    <2>4. job' \in [Polls -> Seq(CallSet)] /\ \A u \in Polls : u # "fast" => job'[u] = job[u]
      BY <1>12, <2>2 DEF FastDrain, TypeOK
    <2>5. UNCHANGED <<windows, core, main, wm, wait, hud, edited, changed, launch, exit, inputs, history>>
      BY <1>12 DEF FastDrain
    <2>6. \A u \in Polls : wait'[u] # "run" => job'[u] # <<>>
      BY <2>3, <2>4 DEF TypeOK
    <2> QED BY <1>1, <2>1, <2>3, <2>4, <2>5, <2>6 DEF TypeOK
  <1>13. CASE t = "slow" /\ SlowPoll
    <2>1. Publish(edited) \in Seq(CallSet)
      BY JobTypes DEF TypeOK
    <2>2. wait["slow"] = "run" /\ UNCHANGED <<wm, wait>> /\ edited' \in BOOLEAN /\ changed' \in BOOLEAN
      BY <1>13, Zenon DEF SlowPoll, Free
    <2> QED BY <1>1, <1>13, <2>1, <2>2 DEF SlowPoll, TypeOK
  <1> QED BY <1>3, <1>4, <1>5, <1>6, <1>7, <1>8, <1>9, <1>10, <1>11, <1>12, <1>13 DEF Poll

LEMMA StepTypes ==
    TypeOK /\ AnswersFindCalls /\ [Next]_vars => TypeOK' /\ AnswersFindCalls' /\ (Agree(wm) => Agree(wm'))
  <1> SUFFICES ASSUME TypeOK, AnswersFindCalls, [Next]_vars
               PROVE  TypeOK' /\ AnswersFindCalls' /\ (Agree(wm) => Agree(wm'))
    OBVIOUS
  <1>1. ASSUME TypeOK', UNCHANGED <<wm, wait>> PROVE AnswersFindCalls' /\ (Agree(wm) => Agree(wm'))
    BY <1>1 DEF AnswersFindCalls, AnswersIn
  <1>2. ASSUME TypeOK', Moves, UNCHANGED wait PROVE AnswersFindCalls' /\ (Agree(wm) => Agree(wm'))
    BY <1>2, GrownAnswers DEF Moves
  <1>3. CASE Timer
    <2>1. PICK n : TimerFires(n)
      BY <1>3 DEF Timer
    <2>2. HudIs(hud')
      BY <2>1, HudTypes DEF TimerFires, TypeOK, HudIs
    <2>3. wm \in Windows /\ wm.posted \in Seq(Posts)
      BY DEF TypeOK, Windows
    <2>4. Moves
      <3>1. CASE wm' = wm
        BY <2>3, <3>1 DEF Moves, Grown
      <3>2. CASE wm' = Posted(wm, Call("close", "overlay"), None)
        <4> DEFINE q == Append(wm.posted, By(Call("close", "overlay"), None))
        <4>1. Grown(wm.posted, q)
          BY DestroyCalls DEF Grown, Surfaces
        <4>2. q \in Seq(Posts)
          BY <2>3, <4>1, GrownTypes
        <4>3. wm' = [wm EXCEPT !.posted = q]
          BY <3>2 DEF Posted
        <4> HIDE DEF q
        <4> QED BY <2>3, <4>1, <4>2, <4>3, PostedLemma DEF Moves
      <3> QED BY <2>1, <3>1, <3>2 DEF TimerFires
    <2>5. UNCHANGED <<windows, threads, signals, exit, inputs, history>>
      BY <2>1 DEF TimerFires
    <2>6. TypeOK'
      BY <2>2, <2>4, <2>5 DEF TypeOK, HudIs, Moves, threads, signals, history
    <2> QED BY <1>2, <2>4, <2>5, <2>6 DEF threads
  <1>4. CASE UNCHANGED vars
    BY <1>4 DEF vars, TypeOK, AnswersFindCalls, AnswersIn
  <1>5. CASE Users
    BY <1>1, <1>2, <1>5, InputTypes, MoveTypes DEF Users
  <1>6. CASE Main
    BY <1>1, <1>2, <1>6, InputTypes, MoveTypes, ServeTypes DEF Main
  <1>7. CASE PageTimer
    BY <1>2, <1>7, MoveTypes
  <1> QED BY <1>3, <1>4, <1>5, <1>6, <1>7, PollTypes DEF Next

\* Every variable keeps its type: a call on a window names one, and a poll that waits has
\* the call it waits for at the head of its job.
THEOREM TauriTypeCorrect == Spec => []TypeOK
  BY InitTypes, StepTypes, PTL DEF Spec

\* The answer of the main thread always meets the call it is for (window_manager.rs,
\* on_main): a poll that gave up after ten seconds leaves a call nobody waits for, and no
\* later answer can be taken for that of its next call.
THEOREM AnswersMeetCalls == Spec => []AnswersFindCalls
  BY InitTypes, StepTypes, PTL DEF Spec

\* The window manager's active set and the windows tell the same story, and the mixer and
\* the help window are never up together, however the commands, the posted calls of both
\* polls, given up or not, the timers and the destructions interleave.
THEOREM WindowsTellOneStory == Spec => []WindowsAgree
  <1>1. WindowsAgree <=> Agree(wm)
    BY DEF WindowsAgree, ActiveIsWindow, NoStackedSurfaces, Agree
  <1>2. (WindowsAgree <=> Agree(wm))'
    BY DEF WindowsAgree, ActiveIsWindow, NoStackedSurfaces, Agree
  <1>3. Init => TypeOK /\ AnswersFindCalls /\ WindowsAgree
    BY <1>1, InitTypes
  <1>4. TypeOK /\ AnswersFindCalls /\ WindowsAgree /\ [Next]_vars => (TypeOK /\ AnswersFindCalls /\ WindowsAgree)'
    BY <1>1, <1>2, StepTypes
  <1> QED BY <1>3, <1>4, PTL DEF Spec

-----------------------------------------------------------------------------
(* The update manager and its card.                                         *)

Busy(i) == install[i].pc \in {"take", "launch", "handoff"}

\* What an install command has checked, asked for and taken by the time it is there.
InstallsHold ==
    \A i \in Installs :
       /\ install[i].pc # "none" => install[i].expected \in Versions
       /\ install[i].pc \in {"launch", "handoff"} => install[i].taken \in Versions

\* A package, once prepared, stays; whoever has seen the phase ready relies on it.
PackageStays ==
    /\ state.phase = "ready" => prepared # None
    /\ downloader.pc = "store" => prepared # None
    /\ \A i \in Installs :
          install[i].pc \in {"claim", "take", "launch", "handoff", "failed"} => prepared # None

\* The flags are set while somebody works under them, and only one command does.
FlagsHold ==
    /\ downloader.pc # "none" => downloading
    /\ \A i \in Installs : Busy(i) => installing
    /\ \A i, j \in Installs : Busy(i) /\ Busy(j) => i = j

Inv == UpdateTypeOK /\ InstallsHold /\ PackageStays /\ FlagsHold

LEMMA MaybeNone == \A v \in Versions : v # None
  BY ThreadsAssumption, BoundsAssumption DEF Versions

\* update_and_emit leaves a state and a copy of the right type.
LEMMA EmitTypes ==
    ASSUME UpdateTypeOK, NEW t \in Threads, NEW next \in States, UpdateAndEmit(t, next)
    PROVE  /\ state' = [next EXCEPT !.revision = state.revision + 1]
           /\ state' \in States /\ state'.phase = next.phase
           /\ emitting' \in [Threads -> Maybe(States)]
  <1>1. state' = [next EXCEPT !.revision = state.revision + 1]
    BY DEF UpdateAndEmit
  <1>2. state' \in States /\ state'.phase = next.phase
    BY <1>1 DEF States, UpdateTypeOK
  <1> QED BY <1>1, <1>2 DEF UpdateAndEmit, UpdateTypeOK, Maybe

\* The states the handlers publish have the right type.
LEMMA PatchTypes ==
    ASSUME UpdateTypeOK, NEW p \in Phases, NEW e \in BOOLEAN
    PROVE  /\ [state EXCEPT !.phase = p, !.error = e] \in States
           /\ [state EXCEPT !.error = e, !.phase = p] \in States
           /\ \A v \in Maybe(Versions) : [state EXCEPT !.phase = p, !.info = v, !.error = e] \in States
  BY DEF UpdateTypeOK, States

LEMMA ThreadsAreThreads == "worker" \in Threads /\ "downloader" \in Threads /\ Installs \subseteq Threads
  BY DEF Threads

-----------------------------------------------------------------------------
LEMMA InitInv == UpdateInit => Inv
  <1> SUFFICES ASSUME UpdateInit PROVE Inv
    OBVIOUS
  <1>1. state \in States /\ state.phase = "idle"
    BY DEF UpdateInit, Fresh, States, Phases, Maybe
  <1>2. emitting \in [Threads -> Maybe(States)]
    BY DEF UpdateInit, Maybe
  <1>3. install \in [Installs -> [pc : {"none"}, expected : {None}, taken : {None}]]
    BY DEF UpdateInit
  <1>4. install \in [Installs -> [pc : {"none", "asked", "claim", "take", "launch", "handoff",
                                       "failed", "done"},
                                 expected : Maybe(Versions), taken : Maybe(Versions)]]
    BY <1>3 DEF Maybe
  <1>5. UpdateTypeOK
    <2>1. /\ latest \in Versions /\ prepared \in Maybe(Versions) /\ cached \in Maybe(Versions)
          /\ checks \in 0 .. MaxChecks /\ faults \in 0 .. MaxFaults /\ passedBy \in Nat
      BY BoundsAssumption DEF UpdateInit, Maybe, Versions
    <2>2. /\ worker \in [pc : {"wait", "fetch", "found", "spawn"}, release : Maybe(Versions)]
          /\ downloader \in [pc : {"none", "begin", "load", "store", "end"},
                             release : Maybe(Versions)]
          /\ downloader.pc = "none" /\ downloader.release = None
          /\ worker.pc \in {"wait", "fetch"} /\ worker.release = None
      BY DEF UpdateInit, Maybe
    <2>3. /\ trigger \in BOOLEAN /\ downloading \in BOOLEAN /\ installing \in BOOLEAN
          /\ exited \in BOOLEAN /\ listening \in BOOLEAN /\ lost \in BOOLEAN
      BY Zenon DEF UpdateInit
    <2>4. /\ card \in Maybe(States) /\ answer \in Maybe(States)
          /\ asking \in {"none", "asked", "answered", "shown"}
          /\ launched \subseteq [asked : Versions, taken : Versions]
      BY DEF UpdateInit, Maybe
    <2> QED BY <1>1, <1>2, <1>4, <2>1, <2>2, <2>3, <2>4 DEF UpdateTypeOK
  <1>6. InstallsHold /\ PackageStays /\ FlagsHold
    BY <1>1, <1>3 DEF UpdateInit, InstallsHold, PackageStays, FlagsHold, Busy
  <1> QED BY <1>5, <1>6 DEF Inv

\* Steps that leave the install commands, the package and its flags alone keep
\* what they rely on; only the phase and the downloader are to be looked at.
LEMMA BesideInstalls ==
    ASSUME Inv, UNCHANGED <<install, installing>>, prepared # None => prepared' # None,
           state'.phase = "ready" => prepared' # None,
           downloader'.pc = "store" => prepared' # None,
           downloader'.pc # "none" => downloading'
    PROVE  InstallsHold' /\ PackageStays' /\ FlagsHold'
  BY DEF Inv, InstallsHold, PackageStays, FlagsHold, Busy

LEMMA WorkerInv == Inv /\ (RequestCheck \/ BeginCheck \/ WorkerStep) => Inv'
  <1> SUFFICES ASSUME Inv, RequestCheck \/ BeginCheck \/ WorkerStep PROVE Inv'
    OBVIOUS
  <1>0. UpdateTypeOK
    BY DEF Inv
  <1>1. CASE RequestCheck
    <2>1. UpdateTypeOK'
      BY <1>0, <1>1 DEF RequestCheck, UpdateTypeOK, updateCore, network
    <2> QED BY <1>1, <2>1, BesideInstalls DEF RequestCheck, updateCore, Inv, PackageStays, FlagsHold
  <1>2. CASE BeginCheck
    <2>1. PICK next \in States : UpdateAndEmit("worker", next) /\ next.phase \in {state.phase, "checking"}
      <3>1. [state EXCEPT !.info = cached, !.error = FALSE] \in States
        BY <1>0 DEF UpdateTypeOK, States
      <3>2. [state EXCEPT !.phase = "checking", !.error = FALSE] \in States
        BY <1>0, PatchTypes, MaybeNone DEF Phases, Maybe
      <3> QED BY <1>0, <1>2, <3>1, <3>2 DEF BeginCheck, UpdateTypeOK, States
    <2>2. /\ state' \in States /\ state'.phase = next.phase
          /\ emitting' \in [Threads -> Maybe(States)]
      BY <1>0, <2>1, EmitTypes, ThreadsAreThreads
    <2>3. worker' \in {worker, [pc |-> "fetch", release |-> None]}
      BY <1>2 DEF BeginCheck, WorkerGoes
    <2>4. /\ worker' \in [pc : {"wait", "fetch", "found", "spawn"}, release : Maybe(Versions)]
          /\ (worker'.pc \in {"wait", "fetch"}) = (worker'.release = None)
      BY <1>0, <2>3 DEF UpdateTypeOK, Maybe
    <2>5. trigger' \in BOOLEAN /\ checks' \in 0 .. MaxChecks
      BY <1>0, <1>2, BoundsAssumption DEF BeginCheck, UpdateTypeOK
    <2>6. UpdateTypeOK'
      BY <1>0, <1>2, <2>2, <2>4, <2>5 DEF BeginCheck, WorkerOnly, UpdateTypeOK, ui
    <2> QED BY <1>2, <2>1, <2>2, <2>6, BesideInstalls
            DEF BeginCheck, WorkerOnly, Inv, PackageStays, FlagsHold
  <1>3. CASE Fetch
    <2>1. /\ worker' \in [pc : {"wait", "fetch", "found", "spawn"}, release : Maybe(Versions)]
          /\ (worker'.pc \in {"wait", "fetch"}) = (worker'.release = None)
      <3>1. worker' = [pc |-> "found", release |-> latest] \/ worker' = [pc |-> "wait", release |-> None]
        BY <1>3 DEF Fetch, WorkerGoes
      <3> QED BY <1>0, <3>1, MaybeNone DEF UpdateTypeOK, Maybe
    <2>2. cached' \in Maybe(Versions) /\ faults' \in 0 .. MaxFaults
      BY <1>0, <1>3, BoundsAssumption DEF Fetch, CanFail, Works, UpdateTypeOK, Maybe
    <2>3. /\ state' \in States /\ state'.phase \in {state.phase, "error"}
          /\ emitting' \in [Threads -> Maybe(States)]
      <3>1. CASE Silent
        BY <1>0, <3>1 DEF Silent, UpdateTypeOK
      <3>2. CASE UpdateAndEmit("worker", [state EXCEPT !.error = TRUE,
                    !.phase = IF @ # "ready" THEN "error" ELSE @])
        <4>1. PICK ph \in {state.phase, "error"} :
                UpdateAndEmit("worker", [state EXCEPT !.error = TRUE, !.phase = ph])
          BY <3>2
        <4>2. ph \in Phases
          BY <1>0, <4>1 DEF UpdateTypeOK, States, Phases
        <4>3. /\ [state EXCEPT !.error = TRUE, !.phase = ph] \in States
              /\ [state EXCEPT !.error = TRUE, !.phase = ph].phase = ph
          BY <1>0, <4>2 DEF UpdateTypeOK, States
        <4> QED BY <1>0, <4>1, <4>3, EmitTypes, ThreadsAreThreads
      <3> QED BY <1>3, <3>1, <3>2 DEF Fetch
    <2>4. lost' \in BOOLEAN
      BY <1>0, <1>3 DEF Fetch, UpdateTypeOK
    <2>5. UpdateTypeOK'
      BY <1>0, <1>3, <2>1, <2>2, <2>3, <2>4 DEF Fetch, WorkerOnly, UpdateTypeOK, ui
    <2> QED BY <1>3, <2>3, <2>5, BesideInstalls
            DEF Fetch, WorkerOnly, Inv, PackageStays, FlagsHold
  <1>4. CASE Announce
    <2>0. worker.release \in Versions
      BY <1>0, <1>4 DEF Announce, At, UpdateTypeOK, Maybe
    <2>1. worker' \in {[pc |-> "spawn", release |-> worker.release], [pc |-> "wait", release |-> None]}
      BY <1>4 DEF Announce, WorkerGoes
    <2>2. /\ worker' \in [pc : {"wait", "fetch", "found", "spawn"}, release : Maybe(Versions)]
          /\ (worker'.pc \in {"wait", "fetch"}) = (worker'.release = None)
      BY <2>0, <2>1, MaybeNone DEF Maybe
    <2>3. PICK p \in {"available", "idle"} : UpdateAndEmit("worker",
              [state EXCEPT !.phase = p, !.info = worker.release, !.error = FALSE])
      BY <1>4 DEF Announce
    <2>4. /\ [state EXCEPT !.phase = p, !.info = worker.release, !.error = FALSE] \in States
          /\ [state EXCEPT !.phase = p, !.info = worker.release, !.error = FALSE].phase = p
      BY <1>0, <2>0 DEF UpdateTypeOK, States, Phases, Maybe
    <2>5. /\ state' \in States /\ state'.phase # "ready"
          /\ emitting' \in [Threads -> Maybe(States)]
      BY <1>0, <2>3, <2>4, EmitTypes, ThreadsAreThreads
    <2>6. UpdateTypeOK'
      BY <1>0, <1>4, <2>2, <2>5 DEF Announce, WorkerOnly, UpdateTypeOK, ui
    <2> QED BY <1>4, <2>5, <2>6, BesideInstalls
            DEF Announce, WorkerOnly, Inv, PackageStays, FlagsHold
  <1>5. CASE SpawnDownload
    <2>0. worker.release \in Versions
      BY <1>0, <1>5 DEF SpawnDownload, At, UpdateTypeOK, Maybe
    <2>1. worker' = [pc |-> "wait", release |-> None] /\ downloading' = TRUE
      BY <1>5 DEF SpawnDownload, WorkerGoes
    <2>2. downloader' = downloader \/ downloader' = [pc |-> "begin", release |-> worker.release]
      BY <1>5 DEF SpawnDownload
    <2>3. /\ downloader' \in [pc : {"none", "begin", "load", "store", "end"},
                              release : Maybe(Versions)]
          /\ (downloader'.pc = "none") = (downloader'.release = None)
          /\ downloader'.pc = "store" => downloader.pc = "store"
      BY <1>0, <2>0, <2>2, MaybeNone DEF UpdateTypeOK, Maybe
    <2>4. faults' \in 0 .. MaxFaults
      BY <1>0, <1>5, BoundsAssumption DEF SpawnDownload, CanFail, Works, UpdateTypeOK
    <2>5. /\ worker' \in [pc : {"wait", "fetch", "found", "spawn"}, release : Maybe(Versions)]
          /\ (worker'.pc \in {"wait", "fetch"}) = (worker'.release = None)
      BY <2>1 DEF Maybe
    <2>6. UpdateTypeOK'
      BY <1>0, <1>5, <2>1, <2>3, <2>4, <2>5 DEF SpawnDownload, WorkerOnly, Silent, UpdateTypeOK, ui
    <2> QED BY <1>5, <2>1, <2>3, <2>6, BesideInstalls
            DEF SpawnDownload, WorkerOnly, Silent, Inv, PackageStays, FlagsHold
  <1> QED BY <1>1, <1>2, <1>3, <1>4, <1>5 DEF WorkerStep

-----------------------------------------------------------------------------
LEMMA LoaderInv == Inv /\ LoaderStep => Inv'
  <1> SUFFICES ASSUME Inv, LoaderStep PROVE Inv'
    OBVIOUS
  <1>0. UpdateTypeOK
    BY DEF Inv
  <1>1. \A ph \in {"load", "store", "end"} : downloader.pc # "none" /\ LoaderGoes(ph) =>
           /\ downloader' \in [pc : {"none", "begin", "load", "store", "end"},
                               release : Maybe(Versions)]
           /\ (downloader'.pc = "none") = (downloader'.release = None)
           /\ downloader'.pc = ph
    BY <1>0 DEF LoaderGoes, UpdateTypeOK
  \* A change of the published phase and nothing else about it.
  <1>2. ASSUME NEW p \in Phases, NEW e \in BOOLEAN,
               UpdateAndEmit("downloader", [state EXCEPT !.phase = p, !.error = e])
        PROVE  state' \in States /\ state'.phase = p /\ emitting' \in [Threads -> Maybe(States)]
    <2>1. /\ [state EXCEPT !.phase = p, !.error = e] \in States
          /\ [state EXCEPT !.phase = p, !.error = e].phase = p
      BY <1>0 DEF UpdateTypeOK, States
    <2> QED BY <1>0, <1>2, <2>1, EmitTypes, ThreadsAreThreads
  <1>3. CASE BeginDownload
    <2>1. state' \in States /\ state'.phase = "downloading" /\ emitting' \in [Threads -> Maybe(States)]
      BY <1>2, <1>3 DEF BeginDownload, Phases
    <2>2. UpdateTypeOK'
      BY <1>0, <1>1, <1>3, <2>1 DEF BeginDownload, At, LoaderOnly, UpdateTypeOK, ui
    <2> QED BY <1>1, <1>3, <2>1, <2>2, BesideInstalls
            DEF BeginDownload, At, LoaderOnly, Inv, PackageStays, FlagsHold
  <1>4. CASE Download
    <2>0. downloader.release \in Versions
      BY <1>0, <1>4 DEF Download, At, UpdateTypeOK, Maybe
    <2>1. prepared' \in Maybe(Versions) /\ faults' \in 0 .. MaxFaults
      BY <1>0, <1>4, <2>0, BoundsAssumption DEF Download, CanFail, Works, UpdateTypeOK, Maybe
    <2>2. /\ state' \in States /\ state'.phase \in {state.phase, "error"}
          /\ emitting' \in [Threads -> Maybe(States)]
      <3>1. CASE Silent
        BY <1>0, <3>1 DEF Silent, UpdateTypeOK
      <3>2. CASE UpdateAndEmit("downloader", [state EXCEPT !.phase = "error", !.error = TRUE])
        BY <1>2, <3>2 DEF Phases
      <3> QED BY <1>4, <3>1, <3>2 DEF Download
    <2>3. /\ prepared # None => prepared' # None
          /\ downloader'.pc = "store" => prepared' # None
      <3>1. CASE prepared' = downloader.release
        BY <2>0, <3>1, MaybeNone
      <3>2. CASE LoaderGoes("end") /\ UNCHANGED prepared
        BY <1>1, <1>4, <3>2 DEF Download, At
      <3> QED BY <1>4, <3>1, <3>2 DEF Download
    <2>4. UpdateTypeOK'
      BY <1>0, <1>1, <1>4, <2>1, <2>2 DEF Download, At, LoaderOnly, UpdateTypeOK, ui
    <2> QED BY <1>1, <1>4, <2>2, <2>3, <2>4, BesideInstalls
            DEF Download, At, LoaderOnly, Inv, PackageStays, FlagsHold
  <1>5. CASE Prepared
    <2>1. state' \in States /\ state'.phase = "ready" /\ emitting' \in [Threads -> Maybe(States)]
      BY <1>2, <1>5 DEF Prepared, Phases
    <2>2. UpdateTypeOK'
      BY <1>0, <1>1, <1>5, <2>1 DEF Prepared, At, LoaderOnly, UpdateTypeOK, ui
    <2> QED BY <1>1, <1>5, <2>1, <2>2, BesideInstalls
            DEF Prepared, At, LoaderOnly, Inv, PackageStays, FlagsHold
  <1>6. CASE EndDownload
    <2>1. /\ downloader' = [pc |-> "none", release |-> None] /\ downloading' = FALSE
          /\ downloader' \in [pc : {"none", "begin", "load", "store", "end"},
                              release : Maybe(Versions)]
      BY <1>6 DEF EndDownload, Maybe
    <2>2. UpdateTypeOK'
      <3>1. downloading' \in BOOLEAN /\ (downloader'.pc = "none") = (downloader'.release = None)
        BY <2>1
      <3> QED BY <1>0, <1>6, <2>1, <3>1 DEF EndDownload, LoaderOnly, Silent, UpdateTypeOK, ui
    <2> QED BY <1>6, <2>1, <2>2, BesideInstalls
            DEF EndDownload, LoaderOnly, Silent, Inv, PackageStays, FlagsHold
  <1> QED BY <1>3, <1>4, <1>5, <1>6 DEF LoaderStep

-----------------------------------------------------------------------------
LEMMA InstallInv == Inv /\ (\E i \in Installs : Confirm(i) \/ InstallStep(i)) => Inv'
  <1> SUFFICES ASSUME Inv, NEW i \in Installs, Confirm(i) \/ InstallStep(i) PROVE Inv'
    OBVIOUS
  <1>0. UpdateTypeOK /\ i \in Threads
    BY ThreadsAreThreads DEF Inv
  <1> DEFINE Pcs == {"none", "asked", "claim", "take", "launch", "handoff", "failed", "done"}
             Records == [pc : Pcs, expected : Maybe(Versions), taken : Maybe(Versions)]
  \* The command moves on, and only it does.
  <1>1. ASSUME NEW ph \in Pcs, InstallGoes(i, ph)
        PROVE  /\ install' \in [Installs -> Records]
               /\ install'[i].pc = ph
               /\ install'[i].expected = install[i].expected
               /\ install'[i].taken = install[i].taken
               /\ \A j \in Installs \ {i} : install'[j] = install[j]
    BY <1>0, <1>1 DEF InstallGoes, UpdateTypeOK
  <1>2. ASSUME NEW p \in Phases, NEW e \in BOOLEAN,
               UpdateAndEmit(i, [state EXCEPT !.phase = p, !.error = e])
        PROVE  state' \in States /\ state'.phase = p /\ emitting' \in [Threads -> Maybe(States)]
    <2>1. /\ [state EXCEPT !.phase = p, !.error = e] \in States
          /\ [state EXCEPT !.phase = p, !.error = e].phase = p
      BY <1>0 DEF UpdateTypeOK, States
    <2> QED BY <1>0, <1>2, <2>1, EmitTypes
  <1>3. CASE Confirm(i)
    <2>1. card.info \in Versions
      BY <1>0, <1>3 DEF Confirm, UpdateTypeOK, States, Maybe
    <2>2. /\ install' \in [Installs -> Records]
          /\ install'[i].pc = "asked" /\ install'[i].expected \in Versions
          /\ \A j \in Installs \ {i} : install'[j] = install[j]
      BY <1>0, <1>3, <2>1 DEF Confirm, UpdateTypeOK, Maybe
    <2>3. UpdateTypeOK'
      BY <1>0, <1>3, <2>2 DEF Confirm, InstallOnly, Silent, UpdateTypeOK, ui
    <2>4. InstallsHold' /\ PackageStays' /\ FlagsHold'
      BY <1>3, <2>2 DEF Confirm, InstallOnly, Silent, Inv, InstallsHold, PackageStays, FlagsHold, Busy
    <2> QED BY <2>3, <2>4 DEF Inv
  <1>4. CASE CheckReady(i)
    <2>1. PICK ph \in {"claim", "done"} : InstallGoes(i, ph) /\ (ph = "claim" => state.phase = "ready")
      BY <1>4 DEF CheckReady
    <2>2. UpdateTypeOK'
      BY <1>0, <1>1, <1>4, <2>1 DEF CheckReady, InstallOnly, Silent, UpdateTypeOK, ui
    <2>3. InstallsHold' /\ PackageStays' /\ FlagsHold'
      BY <1>1, <1>4, <2>1
      DEF CheckReady, At, InstallOnly, Silent, Inv, InstallsHold, PackageStays, FlagsHold, Busy
    <2> QED BY <2>2, <2>3 DEF Inv
  <1>5. CASE Claim(i)
    <2>1. PICK ph \in {"done", "take"} : InstallGoes(i, ph) /\ (ph = "take" => ~installing)
      BY <1>5 DEF Claim
    <2>2. /\ state' \in States /\ state'.phase \in {state.phase, "installing"}
          /\ emitting' \in [Threads -> Maybe(States)]
      <3>1. CASE Silent
        BY <1>0, <3>1 DEF Silent, UpdateTypeOK
      <3>2. CASE UpdateAndEmit(i, [state EXCEPT !.phase = "installing", !.error = FALSE])
        BY <1>2, <3>2 DEF Phases
      <3> QED BY <1>5, <3>1, <3>2 DEF Claim
    <2>3. installing' \in BOOLEAN /\ installing'
      BY <1>5 DEF Claim
    <2>4. UpdateTypeOK'
      BY <1>0, <1>1, <1>5, <2>1, <2>2, <2>3 DEF Claim, InstallOnly, UpdateTypeOK, ui
    <2>5. InstallsHold' /\ PackageStays' /\ FlagsHold'
      BY <1>1, <1>5, <2>1, <2>2, <2>3
      DEF Claim, At, InstallOnly, Inv, InstallsHold, PackageStays, FlagsHold, Busy
    <2> QED BY <2>4, <2>5 DEF Inv
  <1>6. CASE Take(i)
    <2>1. prepared \in Versions /\ prepared # None
      BY <1>0, <1>6 DEF Take, At, Inv, PackageStays, UpdateTypeOK, Maybe
    <2>2. /\ install' \in [Installs -> Records]
          /\ install'[i].pc = "launch" /\ install'[i].expected = install[i].expected
          /\ install'[i].taken = prepared
          /\ \A j \in Installs \ {i} : install'[j] = install[j]
      <3> DEFINE fields == [pc : {"none", "asked", "claim", "take", "launch", "handoff", "failed", "done"},
                            expected : Maybe(Versions), taken : Maybe(Versions)]
      <3>1. install' = [install EXCEPT ![i].pc = "launch", ![i].taken = prepared]
        BY <1>6, <2>1 DEF Take
      <3>2. prepared \in Maybe(Versions) /\ install \in [Installs -> fields]
        BY <1>0, <2>1 DEF UpdateTypeOK, Maybe
      <3>3. install[i] \in fields /\ [install[i] EXCEPT !.pc = "launch", !.taken = prepared] \in fields
        BY <3>2
      <3> QED BY <3>1, <3>2, <3>3
    <2>3. installing' \in BOOLEAN /\ installing'
      BY <1>6, <2>1 DEF Take
    <2>4. UpdateTypeOK'
      BY <1>0, <1>6, <2>2, <2>3 DEF Take, InstallOnly, Silent, UpdateTypeOK, ui
    <2>5. InstallsHold' /\ PackageStays' /\ FlagsHold'
      BY <1>6, <2>1, <2>2, <2>3
      DEF Take, At, InstallOnly, Silent, Inv, InstallsHold, PackageStays, FlagsHold, Busy
    <2> QED BY <2>4, <2>5 DEF Inv
  \* Whoever gives the flag back was the one who held it.
  <1>7. ASSUME InstallFails(i), Busy(i)
        PROVE  /\ InstallGoes(i, "failed") /\ installing' \in BOOLEAN /\ faults' \in 0 .. MaxFaults
               /\ \A j \in Installs \ {i} : ~Busy(j)
    <2>1. InstallGoes(i, "failed") /\ installing' \in BOOLEAN
      BY <1>7 DEF InstallFails
    <2>2. faults' \in 0 .. MaxFaults
      BY <1>0, <1>7, BoundsAssumption DEF InstallFails, CanFail, UpdateTypeOK
    <2> QED BY <1>7, <2>1, <2>2 DEF Inv, FlagsHold
  <1>8. CASE StartHelper(i)
    <2>1. Busy(i) /\ install[i].expected \in Versions
      BY <1>8 DEF StartHelper, At, Busy, Inv, InstallsHold
    <2>2. install[i].taken \in Versions
      BY <1>8 DEF StartHelper, At, Inv, InstallsHold
    <2>3. PICK ph \in {"handoff", "failed"} : InstallGoes(i, ph) /\ (ph = "handoff" => UNCHANGED installing)
      BY <1>8 DEF StartHelper, InstallFails
    <2>4. /\ installing' \in BOOLEAN /\ faults' \in 0 .. MaxFaults
          /\ launched' \subseteq [asked : Versions, taken : Versions]
      BY <1>0, <1>7, <1>8, <2>1, <2>2 DEF StartHelper, Works, UpdateTypeOK
    <2>5. UpdateTypeOK'
      BY <1>0, <1>1, <1>8, <2>3, <2>4 DEF StartHelper, InstallOnly, Silent, UpdateTypeOK, ui
    <2>6. InstallsHold' /\ PackageStays' /\ FlagsHold'
      BY <1>1, <1>8, <2>1, <2>3
      DEF StartHelper, At, InstallOnly, Silent, Inv, InstallsHold, PackageStays, FlagsHold, Busy
    <2> QED BY <2>5, <2>6 DEF Inv
  <1>9. CASE Handoff(i)
    <2>1. Busy(i)
      BY <1>9 DEF Handoff, At, Busy
    <2>2. PICK ph \in {"done", "failed"} : InstallGoes(i, ph)
      BY <1>9 DEF Handoff, InstallFails
    <2>3. installing' \in BOOLEAN /\ faults' \in 0 .. MaxFaults
      BY <1>0, <1>7, <1>9, <2>1 DEF Handoff, Works, UpdateTypeOK
    <2>4. exited' \in BOOLEAN
      BY <1>0, <1>9 DEF Handoff, UpdateTypeOK
    <2>5. UpdateTypeOK'
      BY <1>0, <1>1, <1>9, <2>2, <2>3, <2>4 DEF Handoff, InstallOnly, Silent, UpdateTypeOK, ui
    <2>6. InstallsHold' /\ PackageStays' /\ FlagsHold'
      BY <1>1, <1>9, <2>1, <2>2
      DEF Handoff, At, InstallOnly, Silent, Inv, InstallsHold, PackageStays, FlagsHold, Busy
    <2> QED BY <2>5, <2>6 DEF Inv
  <1>10. CASE LaunchFailed(i)
    <2>1. state' \in States /\ state'.phase = "ready" /\ emitting' \in [Threads -> Maybe(States)]
      BY <1>2, <1>10 DEF LaunchFailed, Phases
    <2>2. InstallGoes(i, "done")
      BY <1>10 DEF LaunchFailed
    <2>3. UpdateTypeOK'
      BY <1>0, <1>1, <1>10, <2>1, <2>2 DEF LaunchFailed, InstallOnly, UpdateTypeOK, ui
    <2>4. InstallsHold' /\ PackageStays' /\ FlagsHold'
      BY <1>1, <1>10, <2>1, <2>2
      DEF LaunchFailed, At, InstallOnly, Inv, InstallsHold, PackageStays, FlagsHold, Busy
    <2> QED BY <2>3, <2>4 DEF Inv
  <1> QED BY <1>3, <1>4, <1>5, <1>6, <1>8, <1>9, <1>10 DEF InstallStep

-----------------------------------------------------------------------------
LEMMA CardInv == Inv /\ (Mount \/ CardStep \/ Release \/ CacheExpires) => Inv'
  <1> SUFFICES ASSUME Inv, Mount \/ CardStep \/ Release \/ CacheExpires PROVE Inv'
    OBVIOUS
  <1>0. UpdateTypeOK
    BY DEF Inv
  <1>1. \A p \in Maybe(States) : Shown(p) \in Maybe(States)
    BY <1>0 DEF Shown, UpdateTypeOK
  <1>2. UpdateTypeOK'
    <2>1. CASE Mount
      BY <1>0, <2>1 DEF Mount, CardOnly, UpdateTypeOK, network, updateCore
    <2>2. CASE Listen
      BY <1>0, <2>2 DEF Listen, CardOnly, UpdateTypeOK, network, updateCore
    <2>3. CASE Snapshot
      BY <1>0, <2>3 DEF Snapshot, CardOnly, UpdateTypeOK, network, updateCore, Maybe
    <2>4. CASE Answered
      <3>1. passedBy' \in Nat
        BY <1>0, <2>4 DEF Answered, Missed, UpdateTypeOK
      <3> QED BY <1>0, <1>1, <2>4, <3>1 DEF Answered, CardOnly, UpdateTypeOK, network, updateCore, Maybe
    <2>5. ASSUME NEW t \in Threads, Emit(t) PROVE UpdateTypeOK'
      <3>1. passedBy' \in Nat
        BY <1>0, <2>5 DEF Emit, Missed, UpdateTypeOK, Maybe, States
      <3> QED BY <1>0, <1>1, <2>5, <3>1 DEF Emit, CardOnly, UpdateTypeOK, network, updateCore, Maybe
    <2>6. CASE Release
      BY <1>0, <2>6, BoundsAssumption DEF Release, UpdateTypeOK, updateCore, ui, Versions
    <2>7. CASE CacheExpires
      BY <1>0, <2>7 DEF CacheExpires, UpdateTypeOK, network, ui, Maybe
    <2> QED BY <2>1, <2>2, <2>3, <2>4, <2>5, <2>6, <2>7 DEF CardStep
  <1>3. UNCHANGED <<install, installing, prepared, state, downloader, downloading>>
    BY DEF Mount, CardStep, Listen, Snapshot, Answered, Emit, Release, CacheExpires, CardOnly,
           network, updateCore
  <1> QED BY <1>2, <1>3, BesideInstalls DEF Inv, PackageStays, FlagsHold

LEMMA NextInv == Inv /\ [UpdateNext]_updateVars => Inv'
  <1> SUFFICES ASSUME Inv, [UpdateNext]_updateVars PROVE Inv'
    OBVIOUS
  <1>1. CASE UNCHANGED updateVars
    BY <1>1 DEF updateVars, network, updateCore, ui, Inv, UpdateTypeOK, InstallsHold, PackageStays, FlagsHold, Busy
  <1> QED BY <1>1, WorkerInv, LoaderInv, InstallInv, CardInv DEF UpdateNext

LEMMA InvHolds == UpdateSpec => []Inv
  BY InitInv, NextInv, PTL DEF UpdateSpec

-----------------------------------------------------------------------------
\* Every variable of the update manager and of the card keeps its type.
THEOREM TypeCorrect == UpdateSpec => []UpdateTypeOK
  BY InvHolds, PTL DEF Inv

\* The phase says ready only while a prepared package exists, and an install that
\* has passed its checks finds one: no path of install leaves the phase at
\* installing because the package is missing.
THEOREM ReadyIsPrepared == UpdateSpec => []ReadyHasPackage
  <1>1. Inv => ReadyHasPackage
    BY DEF Inv, PackageStays, ReadyHasPackage
  <1> QED BY <1>1, InvHolds, PTL

\* is_installing lets one install command at a time reach the helper.
THEOREM InstallsExclude == UpdateSpec => []OneInstallation
  <1>1. Inv => OneInstallation
    <2> DEFINE Working == {i \in Installs : install[i].pc \in {"take", "launch", "handoff"}}
    <2> SUFFICES ASSUME Inv PROVE Cardinality(Working) <= 1
      BY DEF OneInstallation
    <2>1. CASE Working = {}
      BY <2>1, FS_EmptySet
    <2>2. CASE Working # {}
      <3>1. PICK i \in Working : TRUE
        BY <2>2
      <3>2. Working = {i}
        BY <3>1 DEF Inv, FlagsHold, Busy
      <3>3. Cardinality({i}) = 1
        BY FS_Singleton
      <3> HIDE DEF Working
      <3> QED BY <3>2, <3>3
    <2> QED BY <2>1, <2>2
  <1> QED BY <1>1, InvHolds, PTL

\* is_downloading lets one download thread at a time write the package's files.
THEOREM DownloadsExclude == UpdateSpec => OneDownload
  <1>1. Inv /\ [UpdateNext]_updateVars =>
          [downloader'.pc = "begin" /\ downloader # downloader' => downloader.pc = "none"]_updateVars
    <2> SUFFICES ASSUME Inv, UpdateNext, downloader # downloader', downloader'.pc = "begin"
                 PROVE  downloader.pc = "none"
      BY DEF updateVars
    <2>1. CASE SpawnDownload
      BY <2>1 DEF SpawnDownload, Inv, FlagsHold
    <2>2. CASE LoaderStep
      BY <2>2 DEF LoaderStep, BeginDownload, Download, Prepared, EndDownload, LoaderGoes, Inv, UpdateTypeOK
    <2>3. CASE RequestCheck \/ BeginCheck \/ Fetch \/ Announce \/ Mount \/ CardStep \/ Release \/ CacheExpires
      BY <2>3 DEF RequestCheck, BeginCheck, Fetch, Announce, Mount, CardStep, Listen, Snapshot,
                  Answered, Emit, Release, CacheExpires, CardOnly
    <2>4. CASE \E i \in Installs : Confirm(i) \/ InstallStep(i)
      BY <2>4 DEF Confirm, InstallStep, CheckReady, Claim, Take, StartHelper, Handoff, LaunchFailed,
                  InstallOnly
    <2> QED BY <2>1, <2>2, <2>3, <2>4 DEF UpdateNext, WorkerStep
  <1> QED BY <1>1, InvHolds, PTL DEF UpdateSpec, OneDownload

-----------------------------------------------------------------------------
(* The card.  A copy's revision tells how far behind it is, so the state of the *)
(* day is shown, or some thread has it to emit, or it is in the answer the card *)
(* waits for, or it went past before the card listened.                         *)

Agrees(c) == c # None => /\ c.revision <= state.revision
                         /\ c.revision = state.revision => c = state
Arriving ==
    card = state \/ (\E t \in Threads : emitting[t] = state) \/ passedBy = state.revision
CardFollows ==
    /\ Agrees(card) /\ Agrees(answer) /\ \A t \in Threads : Agrees(emitting[t])
    /\ passedBy <= state.revision
    /\ asking = "shown" => card # None
    /\ asking = "answered" => answer # None /\ (Arriving \/ answer = state)
    /\ asking = "shown" => Arriving

\* What the threads do to the published state: nothing, or one more revision of
\* which they hold the copy.
LEMMA Publication ==
    ASSUME UpdateTypeOK,
           \/ BeginCheck \/ WorkerStep \/ LoaderStep \/ CacheExpires \/ Release
           \/ \E i \in Installs : Confirm(i) \/ InstallStep(i)
    PROVE  /\ UNCHANGED ui
           /\ \/ UNCHANGED <<state, emitting>>
              \/ /\ state'.revision = state.revision + 1
                 /\ \E t \in Threads : emitting' = [emitting EXCEPT ![t] = state']
  <1> DEFINE Revised == /\ state'.revision = state.revision + 1
                        /\ \E t \in Threads : emitting' = [emitting EXCEPT ![t] = state']
  <1>1. ASSUME NEW t \in Threads, NEW next, UpdateAndEmit(t, next), "revision" \in DOMAIN next
        PROVE  Revised
    BY <1>1 DEF UpdateAndEmit
  <1>2. /\ state = [state EXCEPT !.revision = state.revision] /\ "revision" \in DOMAIN state
    BY DEF UpdateTypeOK, States
  <1>3. CASE BeginCheck \/ WorkerStep
    <2>1. CASE BeginCheck
      <3>1. /\ "revision" \in DOMAIN [state EXCEPT !.info = cached, !.error = FALSE]
            /\ "revision" \in DOMAIN [state EXCEPT !.phase = "checking", !.error = FALSE]
        BY <1>2
      <3> QED BY <1>1, <2>1, <3>1, ThreadsAreThreads DEF BeginCheck, WorkerOnly
    <2>2. CASE Fetch
      <3>1. "revision" \in DOMAIN [state EXCEPT !.error = TRUE,
                                       !.phase = IF @ # "ready" THEN "error" ELSE @]
        BY <1>2
      <3> QED BY <1>1, <2>2, <3>1, ThreadsAreThreads DEF Fetch, WorkerOnly, Silent
    <2>3. CASE Announce
      <3>1. \A p \in {"available", "idle"} : "revision" \in
                DOMAIN [state EXCEPT !.phase = p, !.info = worker.release, !.error = FALSE]
        BY <1>2
      <3> QED BY <1>1, <2>3, <3>1, ThreadsAreThreads DEF Announce, WorkerOnly
    <2>4. CASE SpawnDownload
      BY <2>4 DEF SpawnDownload, WorkerOnly, Silent
    <2> QED BY <1>3, <2>1, <2>2, <2>3, <2>4 DEF WorkerStep
  <1>4. \A p, e : "revision" \in DOMAIN [state EXCEPT !.phase = p, !.error = e]
    BY <1>2
  <1>5. CASE LoaderStep
    BY <1>1, <1>4, <1>5, ThreadsAreThreads
    DEF LoaderStep, BeginDownload, Download, Prepared, EndDownload, LoaderOnly, Silent
  <1>6. CASE \E i \in Installs : Confirm(i) \/ InstallStep(i)
    BY <1>1, <1>4, <1>6, ThreadsAreThreads
    DEF Confirm, InstallStep, CheckReady, Claim, Take, StartHelper, Handoff, LaunchFailed,
        InstallOnly, Silent
  <1>7. CASE CacheExpires \/ Release
    BY <1>7 DEF CacheExpires, Release
  <1> QED BY <1>3, <1>5, <1>6, <1>7

LEMMA CardFollowsNext == Inv /\ CardFollows /\ [UpdateNext]_updateVars => CardFollows'
  <1> SUFFICES ASSUME UpdateTypeOK, CardFollows, [UpdateNext]_updateVars PROVE CardFollows'
    BY DEF Inv
  <1>0. state # None
    BY StateAssumption DEF UpdateTypeOK
  <1>1. CASE UNCHANGED <<state, emitting, ui>>
    BY <1>1 DEF CardFollows, Agrees, Arriving, ui
  <1>2. CASE /\ UNCHANGED ui /\ state'.revision = state.revision + 1
             /\ \E t \in Threads : emitting' = [emitting EXCEPT ![t] = state']
    <2>1. PICK t \in Threads : emitting' = [emitting EXCEPT ![t] = state']
      BY <1>2
    <2>2. /\ emitting'[t] = state'
          /\ \A u \in Threads \ {t} : emitting'[u] = emitting[u]
      BY <2>1 DEF UpdateTypeOK
    <2>3. ASSUME NEW c \in Maybe(States), Agrees(c)
          PROVE  c # None => c.revision <= state'.revision /\ c.revision # state'.revision
      BY <1>2, <2>3 DEF Agrees, UpdateTypeOK, States, Maybe
    <2>4. Agrees(card)' /\ Agrees(answer)' /\ \A u \in Threads : Agrees(emitting[u])'
      <3>1. Agrees(card)' /\ Agrees(answer)'
        BY <1>2, <2>3 DEF CardFollows, Agrees, UpdateTypeOK, ui
      <3>2. ASSUME NEW u \in Threads PROVE Agrees(emitting[u])'
        <4>1. CASE u = t
          BY <1>2, <2>2, <4>1 DEF Agrees, UpdateTypeOK, States
        <4>2. CASE u # t
          BY <2>2, <2>3, <4>2 DEF CardFollows, Agrees, UpdateTypeOK
        <4> QED BY <4>1, <4>2
      <3> QED BY <3>1, <3>2
    <2>5. Arriving'
      BY <2>2 DEF Arriving
    <2>6. passedBy' <= state'.revision
      BY <1>2 DEF CardFollows, UpdateTypeOK, States, ui
    <2> QED BY <1>2, <2>4, <2>5, <2>6 DEF CardFollows, ui
  <1>3. CASE RequestCheck \/ Mount \/ Listen
    BY <1>3 DEF RequestCheck, Mount, Listen, CardOnly, CardFollows, Agrees, Arriving
  <1>4. CASE Snapshot
    <2>1. /\ answer' = state /\ asking' = "answered"
          /\ UNCHANGED <<state, emitting, card, passedBy>>
      BY <1>4 DEF Snapshot, CardOnly
    <2>2. Agrees(answer)'
      BY <2>1 DEF Agrees, UpdateTypeOK, States
    <2> QED BY <1>0, <2>1, <2>2 DEF CardFollows, Agrees, Arriving
  \* A copy that is the state replaces whatever the card shows; another does not
  \* replace the state.
  <1>5. ASSUME NEW p \in States, Agrees(p)
        PROVE  /\ Agrees(Shown(p)) /\ Shown(p) # None
               /\ p = state => Shown(p) = state
               /\ card = state => Shown(p) = state
    <2>1. p # None
      BY StateAssumption
    <2>2. CASE card = None
      BY <1>0, <1>5, <2>1, <2>2 DEF Shown
    <2>3. CASE card # None
      <3>1. card \in States /\ Agrees(card)
        BY <2>3 DEF UpdateTypeOK, Maybe, CardFollows
      <3> QED BY <1>0, <1>5, <2>1, <2>3, <3>1 DEF Shown, Agrees, UpdateTypeOK, States
    <2> QED BY <2>2, <2>3
  <1>51. ASSUME NEW c \in Maybe(States), Agrees(c), NEW n \in Nat, n <= state.revision
         PROVE  /\ Missed(c, n) <= state.revision
                /\ n = state.revision => c = state \/ Missed(c, n) = state.revision
    BY <1>51, StateAssumption DEF Missed, Agrees, UpdateTypeOK, States, Maybe
  <1>52. passedBy \in Nat /\ passedBy <= state.revision
    BY DEF UpdateTypeOK, CardFollows
  <1>6. CASE Answered
    <2>1. answer \in States /\ Agrees(answer) /\ (Arriving \/ answer = state)
      BY <1>6 DEF Answered, CardFollows, UpdateTypeOK, Maybe
    <2>2. /\ card' = Shown(answer) /\ answer' = None /\ asking' = "shown"
          /\ passedBy' = Missed(card', passedBy)
          /\ UNCHANGED <<state, emitting, listening>>
      BY <1>6 DEF Answered, CardOnly
    <2>21. card' \in States /\ Agrees(card')
      <3>1. card' = answer \/ (card # None /\ card' = card)
        BY <2>2 DEF Shown
      <3> QED BY <2>1, <3>1 DEF UpdateTypeOK, Maybe, CardFollows
    <2>22. passedBy' <= state.revision /\ (passedBy = state.revision => card' = state \/ passedBy' = state.revision)
      BY <1>51, <1>52, <2>2, <2>21 DEF Maybe
    <2>3. Arriving'
      BY <1>5, <2>1, <2>2, <2>22 DEF Arriving
    <2>4. Agrees(card)' /\ Agrees(answer)' /\ \A t \in Threads : Agrees(emitting[t])'
      BY <1>5, <2>1, <2>2 DEF CardFollows, Agrees
    <2>5. card' # None
      BY <1>5, <2>1, <2>2
    <2> QED BY <2>2, <2>22, <2>3, <2>4, <2>5 DEF CardFollows
  <1>7. ASSUME NEW t \in Threads, Emit(t) PROVE CardFollows'
    <2>1. emitting[t] \in States /\ Agrees(emitting[t])
      BY <1>7 DEF Emit, CardFollows, UpdateTypeOK, Maybe
    <2>2. /\ emitting'[t] = None /\ \A u \in Threads \ {t} : emitting'[u] = emitting[u]
          /\ card' = IF listening THEN Shown(emitting[t]) ELSE card
          /\ UNCHANGED <<state, answer, asking, listening>>
      BY <1>7 DEF Emit, CardOnly, UpdateTypeOK
    <2>3. Agrees(card)' /\ Agrees(answer)' /\ \A u \in Threads : Agrees(emitting[u])'
      BY <1>5, <2>1, <2>2 DEF CardFollows, Agrees
    <2>4. emitting[t].revision \in Nat /\ emitting[t].revision <= state.revision
      BY <1>0, <2>1, StateAssumption DEF Agrees, States
    <2>41. card \in Maybe(States) /\ answer \in Maybe(States) /\ Agrees(card) /\ Agrees(answer)
      BY DEF UpdateTypeOK, CardFollows
    <2>5. passedBy' <= state.revision
      <3>1. CASE listening
        <4>1. card' \in States /\ Agrees(card')
          BY <1>5, <2>1, <2>2, <2>41, <3>1 DEF Shown, Maybe
        <4>2. passedBy' = Missed(card', passedBy)
          BY <1>7, <3>1 DEF Emit
        <4> QED BY <1>51, <1>52, <4>1, <4>2 DEF Maybe
      <3>2. CASE ~listening
        <4>1. \/ passedBy' = passedBy
              \/ passedBy' \in {Missed(card, emitting[t].revision), Missed(answer, emitting[t].revision)}
          BY <1>7, <3>2 DEF Emit
        <4> QED BY <1>51, <1>52, <2>4, <2>41, <4>1
      <3> QED BY <3>1, <3>2
    \* What goes past unheard is noted; what is heard is shown.
    <2>6. asking = "shown" => Arriving'
      <3> SUFFICES ASSUME asking = "shown", Arriving PROVE Arriving'
        BY DEF CardFollows
      <3>1. CASE listening
        <4>1. card' \in States /\ Agrees(card')
          BY <1>5, <2>1, <2>2, <2>41, <3>1 DEF Shown, Maybe
        <4>2. passedBy' = Missed(card', passedBy)
          BY <1>7, <3>1 DEF Emit
        <4>3. passedBy = state.revision => card' = state \/ passedBy' = state.revision
          BY <1>51, <1>52, <4>1, <4>2 DEF Maybe
        <4> QED BY <1>5, <2>1, <2>2, <3>1, <4>3 DEF Arriving
      <3>2. CASE ~listening
        <4>1. passedBy' = IF emitting[t].revision > passedBy THEN Missed(card, emitting[t].revision) ELSE passedBy
          BY <1>7, <3>2 DEF Emit
        <4>2. passedBy = state.revision => passedBy' = state.revision
          BY <1>52, <2>4, <4>1
        <4>3. emitting[t] = state => card = state \/ passedBy' = state.revision
          BY <1>51, <1>52, <2>4, <2>41, <4>1
        <4> QED BY <2>2, <3>2, <4>2, <4>3 DEF Arriving
      <3> QED BY <3>1, <3>2
    <2>61. asking = "answered" => Arriving' \/ answer' = state'
      <3> SUFFICES ASSUME asking = "answered", Arriving, answer # state PROVE Arriving'
        BY <2>2 DEF CardFollows
      <3>1. CASE listening
        <4>1. card' \in States /\ Agrees(card')
          BY <1>5, <2>1, <2>2, <2>41, <3>1 DEF Shown, Maybe
        <4>2. passedBy' = Missed(card', passedBy)
          BY <1>7, <3>1 DEF Emit
        <4>3. passedBy = state.revision => card' = state \/ passedBy' = state.revision
          BY <1>51, <1>52, <4>1, <4>2 DEF Maybe
        <4> QED BY <1>5, <2>1, <2>2, <3>1, <4>3 DEF Arriving
      <3>2. CASE ~listening
        <4>1. passedBy' = IF emitting[t].revision > passedBy THEN Missed(answer, emitting[t].revision) ELSE passedBy
          BY <1>7, <3>2 DEF Emit
        <4>2. passedBy = state.revision => passedBy' = state.revision
          BY <1>52, <2>4, <4>1
        <4>3. emitting[t] = state => passedBy' = state.revision
          BY <1>51, <1>52, <2>4, <2>41, <4>1
        <4> QED BY <2>2, <3>2, <4>2, <4>3 DEF Arriving
      <3> QED BY <3>1, <3>2
    <2>7. asking' = "shown" => card' # None
      BY <1>5, <2>1, <2>2 DEF CardFollows
    <2> QED BY <2>2, <2>3, <2>5, <2>6, <2>61, <2>7 DEF CardFollows
  <1>8. CASE UNCHANGED updateVars
    BY <1>1, <1>8 DEF updateVars, ui
  <1> QED BY <1>1, <1>2, <1>3, <1>4, <1>6, <1>7, <1>8, Publication DEF UpdateNext, CardStep

\* A card that listens and waits for nothing shows the state as it is, in whatever
\* order the threads' events, its snapshots and the registration of its listener come
\* about, unless a newer copy went past between a snapshot and the registration.
THEOREM CardCatchesUp == UpdateSpec => []CardIsCurrent
  <1>1. UpdateInit => CardFollows
    BY DEF UpdateInit, Fresh, CardFollows, Agrees
  <1>2. Inv /\ CardFollows /\ [UpdateNext]_updateVars => CardFollows'
    BY CardFollowsNext
  <1>3. Inv /\ CardFollows => CardIsCurrent
    <2> SUFFICES ASSUME Inv, CardFollows, asking = "shown", \A t \in Threads : emitting[t] = None
                 PROVE  card = state \/ card.revision < passedBy
      BY DEF CardIsCurrent
    <2>1. /\ state # None /\ state.revision \in Nat
          /\ card \in States /\ card.revision \in Nat
      BY StateAssumption DEF Inv, UpdateTypeOK, CardFollows, Maybe, States
    <2>2. card = state \/ passedBy = state.revision
      BY <2>1 DEF CardFollows, Arriving
    <2> QED BY <2>1, <2>2 DEF CardFollows, Agrees
  <1> QED BY <1>1, <1>2, <1>3, InvHolds, PTL DEF UpdateSpec

-----------------------------------------------------------------------------
(* Starting and ending.                                                     *)

Kinds == {"once", "quit", "interactive", "background"}
Events == [open : SUBSET Procs, set : BOOLEAN]

LEMMA KindTypes == \A args : Kind(args) \in Kinds
  BY DEF Kind, Kinds

\* Closing a handle leaves an event, and no request in an event nobody holds.
LEMMA WithoutTypes ==
    ASSUME NEW event \in Events, NEW p \in Procs
    PROVE  /\ Without(event, p) \in Events
           /\ Without(event, p).set => Without(event, p).open # {}
  BY DEF Without, ClosedEvent, Events

-----------------------------------------------------------------------------
\* Every variable keeps its type, and no request outlives the event it is in.
THEOREM LaunchTypeCorrect == LaunchSpec => []LaunchTypeOK
  <1>1. LaunchInit => LaunchTypeOK
    BY LaunchesAssumption DEF LaunchInit, LaunchTypeOK, ClosedEvent, Hosts
  <1>2. LaunchTypeOK /\ [LaunchNext]_launchVars => LaunchTypeOK'
    <2> SUFFICES ASSUME LaunchTypeOK, [LaunchNext]_launchVars PROVE LaunchTypeOK'
      OBVIOUS
    <2>1. ASSUME NEW p \in Procs, NEW args, Starts(p, args),
                 UNCHANGED <<host, kernel, entry, unguarded, mishaps>>,
                 fresh' \in BOOLEAN, popups' \in Nat
          PROVE  LaunchTypeOK'
      BY <2>1, KindTypes DEF Starts, LaunchTypeOK, kernel, Kinds
    <2>2. ASSUME NEW p \in Procs, NEW args \in SUBSET Arguments, Launch(p, args)
          PROVE  LaunchTypeOK'
      <3>1. fresh' \in BOOLEAN /\ popups' \in Nat
        BY <2>2 DEF Launch, LaunchTypeOK
      <3> QED BY <2>1, <2>2, <3>1 DEF Launch
    <2>3. ASSUME NEW p \in Procs, SignIn(p) PROVE LaunchTypeOK'
      <3>1. fresh' \in BOOLEAN /\ popups' \in Nat
        <4>1. fresh' \in BOOLEAN
          BY <2>3, Zenon DEF SignIn
        <4>2. popups' \in {popups, popups + 1}
          BY <2>3 DEF SignIn
        <4> QED BY <4>1, <4>2 DEF LaunchTypeOK
      <3> QED BY <2>1, <2>3, <3>1 DEF SignIn
    <2>4. ASSUME NEW p \in Procs,
                 Acquire(p) \/ AcquireFails(p) \/ CreateEventFails(p) \/ Secondary(p)
                 \/ FindNoEvent(p) \/ EnsureReads(p) \/ EnsureWrites(p) \/ EnsureFails(p)
                 \/ Quit(p) \/ Crash(p) \/ Gone(p)
          PROVE  LaunchTypeOK'
      BY <2>4, LaunchesAssumption DEF LaunchTypeOK, Acquire, AcquireFails, CreateEventFails, Secondary,
         FindNoEvent, EnsureReads, EnsureWrites, EnsureFails, Quit, Crash, Gone, Step, Mishap, kernel, launchHistory
    <2>5. ASSUME NEW p \in Procs, \E on \in BOOLEAN : SetEnabled(p, on) PROVE LaunchTypeOK'
      BY <2>5 DEF LaunchTypeOK, SetEnabled, kernel, launchHistory
    <2>6. ASSUME NEW p \in Procs, CreateEvents(p) \/ OpenEvent(p) PROVE LaunchTypeOK'
      BY <2>6 DEF LaunchTypeOK, CreateEvents, OpenEvent, Step, kernel, launchHistory
    <2>7. ASSUME NEW p \in Procs, SetEvent(p) PROVE LaunchTypeOK'
      <3>1. {show', exitEvent'} \subseteq Events /\ \A event \in {show', exitEvent'} : event.set => event.open # {}
        <4> DEFINE LeftBy(event) == Without([event EXCEPT !.set = TRUE], p)
        <4>1. \/ exitEvent' = LeftBy(exitEvent) /\ UNCHANGED show
              \/ show' = LeftBy(show) /\ UNCHANGED exitEvent
          BY <2>7 DEF SetEvent
        <4>2. \A event \in Events : [event EXCEPT !.set = TRUE] \in Events
          BY DEF Events
        <4>3. \A event \in Events : LeftBy(event) \in Events /\ (LeftBy(event).set => LeftBy(event).open # {})
          BY <4>2, WithoutTypes
        <4>4. show \in Events /\ exitEvent \in Events
          BY DEF LaunchTypeOK, Events
        <4> HIDE DEF LeftBy
        <4> QED BY <4>1, <4>3, <4>4 DEF LaunchTypeOK
      <3> QED BY <2>7, <3>1 DEF LaunchTypeOK, SetEvent, Step, Events, launchHistory
    <2>8. ASSUME NEW p \in Procs, PollShow(p) \/ PollExit(p) PROVE LaunchTypeOK'
      <3>1. pc' \in {pc, [pc EXCEPT ![p] = "exiting"]} /\ owed' \subseteq owed
            /\ show' \in {show, [show EXCEPT !.set = FALSE]}
            /\ exitEvent' \in {exitEvent, [exitEvent EXCEPT !.set = FALSE]}
            /\ UNCHANGED <<host, kind, mutex, entry, fresh, popups, unguarded, mishaps>>
        BY <2>8 DEF PollShow, PollExit, Step
      <3>2. {show', exitEvent'} \subseteq Events /\ \A event \in {show', exitEvent'} : event.set => event.open # {}
        <4>1. show \in Events /\ exitEvent \in Events /\ \A event \in {show, exitEvent} : event.set => event.open # {}
          BY DEF LaunchTypeOK, Events
        <4>2. \A event \in Events : [event EXCEPT !.set = FALSE] \in Events /\ ~[event EXCEPT !.set = FALSE].set
          BY DEF Events
        <4> QED BY <3>1, <4>1, <4>2, Zenon
      <3> QED BY <3>1, <3>2 DEF LaunchTypeOK, Events
    <2>9. ASSUME NEW p \in Procs, CloseHandle(p) PROVE LaunchTypeOK'
      <3>1. {show', exitEvent'} \subseteq Events /\ \A event \in {show', exitEvent'} : event.set => event.open # {}
        BY <2>9, WithoutTypes DEF LaunchTypeOK, CloseHandle, CloseEvents, CloseMutex, Events
      <3> QED BY <2>9, <3>1 DEF LaunchTypeOK, CloseHandle, CloseEvents, CloseMutex, Events, launchHistory
    <2>10. ASSUME LogOff PROVE LaunchTypeOK'
      BY <2>10, LaunchesAssumption DEF LaunchTypeOK, LogOff, Mishap, ClosedEvent
    <2>11. CASE UNCHANGED launchVars
      BY <2>11 DEF LaunchTypeOK, launchVars, kernel, launchHistory
    <2> QED
      BY <2>2, <2>3, <2>4, <2>5, <2>6, <2>7, <2>8, <2>9, <2>10, <2>11
         DEF LaunchNext, Starting, Asking, Polling, Ending
  <1> QED BY <1>1, <1>2, PTL DEF LaunchSpec

-----------------------------------------------------------------------------
\* But for those let through without one, an instance holds the mutex, and one process at
\* most is an instance or the mutex' holder on its way out.
Owners == (Instances \cup {p \in mutex : pc[p] = "exiting"}) \ unguarded
OwnersHold == Instances \subseteq mutex \cup unguarded /\ \A p, q \in Owners : p = q

LEMMA InitOwners == LaunchInit => OwnersHold
  BY DEF LaunchInit, OwnersHold, Owners, Instances, Coming

LEMMA StepOwners == LaunchTypeOK /\ OwnersHold /\ [LaunchNext]_launchVars => OwnersHold'
  <1> SUFFICES ASSUME LaunchTypeOK, OwnersHold, [LaunchNext]_launchVars PROVE OwnersHold'
    OBVIOUS
  <1> USE DEF LaunchTypeOK, OwnersHold, Owners, Instances, Coming
  <1>1. ASSUME NEW p \in Procs, NEW args, Starts(p, args), UNCHANGED <<mutex, unguarded>>
        PROVE  OwnersHold'
    BY <1>1 DEF Starts
  <1>2. ASSUME NEW p \in Procs, Acquire(p) PROVE OwnersHold'
    <2>1. CASE mutex = {}
      BY <1>2, <2>1 DEF Acquire, Step, launchHistory
    <2>2. CASE mutex # {}
      BY <1>2, <2>2 DEF Acquire, Step, launchHistory
    <2> QED BY <2>1, <2>2
  <1>3. ASSUME NEW p \in Procs,
               CreateEvents(p) \/ Secondary(p) \/ OpenEvent(p) \/ FindNoEvent(p) \/ SetEvent(p)
               \/ EnsureReads(p) \/ EnsureWrites(p) \/ PollShow(p) \/ PollExit(p)
               \/ Quit(p) \/ Gone(p) \/ \E on \in BOOLEAN : SetEnabled(p, on)
        PROVE  OwnersHold'
    BY <1>3 DEF CreateEvents, Secondary, OpenEvent, FindNoEvent, SetEvent, EnsureReads, EnsureWrites,
       PollShow, PollExit, Quit, Gone, SetEnabled, Step, kernel, launchHistory
  <1>4. ASSUME NEW p \in Procs, CloseHandle(p) PROVE OwnersHold'
    BY <1>4 DEF CloseHandle, CloseEvents, CloseMutex, launchHistory
  <1>5. ASSUME NEW p \in Procs, AcquireFails(p) \/ CreateEventFails(p) \/ EnsureFails(p) \/ Crash(p)
        PROVE  OwnersHold'
    BY <1>5 DEF AcquireFails, CreateEventFails, EnsureFails, Crash, Step, kernel
  <1>6. ASSUME LogOff PROVE OwnersHold'
    BY <1>6 DEF LogOff, Present
  <1>7. CASE UNCHANGED launchVars
    BY <1>7 DEF launchVars, kernel, launchHistory
  <1>8. ASSUME NEW p \in Procs,
               SignIn(p) \/ \E args \in SUBSET Arguments : Launch(p, args)
        PROVE  OwnersHold'
    BY <1>1, <1>8 DEF SignIn, Launch, kernel
  <1> QED
    BY <1>2, <1>3, <1>4, <1>5, <1>6, <1>7, <1>8 DEF LaunchNext, Starting, Asking, Polling, Ending

\* However launches, exits, crashes, ends of the session, failing calls and half-closed
\* handles interleave, one process at most is an instance or still holds the mutex of the
\* one that ends, but for those let through because no mutex could be created
\* (native_win32.rs:75).
THEOREM OnlyOneInstance == LaunchSpec => []OneInstance
  <1>1. LaunchTypeOK /\ OwnersHold => OneInstance
    <2> SUFFICES ASSUME LaunchTypeOK, OwnersHold PROVE Cardinality(Owners) <= 1
      BY DEF OneInstance, Owners
    <2>1. \A p, q \in Owners : p = q
      BY DEF OwnersHold
    <2>2. CASE Owners = {}
      BY <2>2, FS_EmptySet
    <2>3. CASE Owners # {}
      <3>1. PICK p \in Owners : TRUE
        BY <2>3
      <3>2. Owners = {p}
        BY <2>1, <3>1
      <3> QED BY <3>2, FS_Singleton
    <2> QED BY <2>2, <2>3
  <1> QED BY <1>1, InitOwners, StepOwners, LaunchTypeCorrect, PTL DEF LaunchSpec

-----------------------------------------------------------------------------
\* How many more visible sign-ins the failures so far would excuse.
Slack == mishaps + (IF fresh THEN 0 ELSE 1) - popups

\* While the entry lacks its flag and no sign-in is left to excuse, no process has
\* come as far as running without mending the entry; whoever holds the mutex has an
\* instance before it that is about to mend it, and so has a session that has signed
\* in.
EntryMends ==
    host = "tauri" =>
       /\ entry # "old" => popups <= 1 + mishaps
       /\ entry = "old" =>
             /\ Slack >= 0
             /\ Slack = 0 =>
                   /\ \A p \in Procs : pc[p] \notin {"running", "exiting", "killed"}
                   /\ mutex # {} => \E p \in Procs : pc[p] \in Coming
                   /\ ~fresh => \E p \in Procs : pc[p] \in Coming \cup {"starting"}

LEMMA InitMends == LaunchInit => EntryMends
  BY EntryAssumption DEF LaunchInit, EntryMends, Slack, Coming

\* A failing call or a crash leaves room for one more sign-in.
LEMMA MishapMends ==
    ASSUME LaunchTypeOK, EntryMends, mishaps' = mishaps + 1, UNCHANGED <<host, entry, fresh, popups>>
    PROVE  EntryMends'
  <1>1. popups \in Nat /\ mishaps \in Nat
    BY LaunchesAssumption DEF LaunchTypeOK
  <1>2. Slack \in Int /\ Slack' = Slack + 1
    BY <1>1 DEF Slack
  <1> QED BY <1>1, <1>2 DEF EntryMends

LEMMA StepMends == LaunchTypeOK /\ EntryMends /\ [LaunchNext]_launchVars => EntryMends'
  <1> SUFFICES ASSUME LaunchTypeOK, EntryMends, [LaunchNext]_launchVars, host = "tauri" PROVE EntryMends'
    <2>1. ASSUME [LaunchNext]_launchVars PROVE host' = host
      BY <2>1 DEF LaunchNext, launchVars, Launch, SignIn, AcquireFails, CreateEventFails, EnsureFails, SetEnabled, Quit,
         Crash, Starting, Asking, Polling, Ending, Acquire, CreateEvents, EnsureReads, EnsureWrites,
         Secondary, OpenEvent, FindNoEvent, SetEvent, PollShow, PollExit, CloseHandle, Gone, LogOff
    <2> QED BY <2>1 DEF EntryMends
  <1>0. popups \in Nat /\ mishaps \in Nat /\ Slack \in Int
    BY LaunchesAssumption DEF LaunchTypeOK, Slack
  <1> USE DEF LaunchTypeOK, EntryMends, Coming
  <1>1. ASSUME NEW p \in Procs, NEW args \in SUBSET Arguments, Launch(p, args) PROVE EntryMends'
    BY <1>0, <1>1 DEF Launch, Starts, Slack, kernel
  <1>2. ASSUME NEW p \in Procs, SignIn(p) PROVE EntryMends'
    BY <1>0, <1>2 DEF SignIn, Starts, Slack, kernel, SignInArguments, Kind, Enabled
  <1>3. ASSUME NEW p \in Procs, AcquireFails(p) \/ CreateEventFails(p) \/ EnsureFails(p) \/ Crash(p)
        PROVE  EntryMends'
    BY <1>3, MishapMends DEF AcquireFails, CreateEventFails, EnsureFails, Crash, Mishap
  <1>4. ASSUME NEW p \in Procs, EnsureReads(p) \/ EnsureWrites(p) \/ \E on \in BOOLEAN : SetEnabled(p, on)
        PROVE  EntryMends'
    BY <1>0, <1>4, EntryAssumption DEF EnsureReads, EnsureWrites, SetEnabled, Step, kernel, launchHistory, Slack
  <1>8. ASSUME NEW p \in Procs, Secondary(p) \/ OpenEvent(p) \/ FindNoEvent(p) \/ SetEvent(p) PROVE EntryMends'
    BY <1>0, <1>8 DEF Secondary, OpenEvent, FindNoEvent, SetEvent, Step, kernel, launchHistory, Slack
  <1>9. ASSUME NEW p \in Procs, PollShow(p) \/ PollExit(p) \/ Quit(p) \/ Gone(p) PROVE EntryMends'
    BY <1>0, <1>9 DEF PollShow, PollExit, Quit, Gone, Step, kernel, launchHistory, Slack
  <1>10. ASSUME NEW p \in Procs, Acquire(p) \/ CreateEvents(p) PROVE EntryMends'
    BY <1>0, <1>10 DEF Acquire, CreateEvents, Step, kernel, launchHistory, Slack
  <1>5. ASSUME NEW p \in Procs, CloseHandle(p) PROVE EntryMends'
    BY <1>0, <1>5 DEF CloseHandle, CloseEvents, CloseMutex, launchHistory, Slack
  <1>6. ASSUME LogOff PROVE EntryMends'
    BY <1>0, <1>6 DEF LogOff, Present, Mishap, Slack
  <1>7. CASE UNCHANGED launchVars
    BY <1>0, <1>7 DEF launchVars, kernel, launchHistory, Slack
  <1> QED
    BY <1>1, <1>2, <1>3, <1>4, <1>5, <1>6, <1>7, <1>8, <1>9, <1>10
       DEF LaunchNext, Starting, Asking, Polling, Ending

\* A second sign-in that opens the mixer takes a failure, or the end of the session in
\* the middle of a start: the entry without its flag is mended by the first instance
\* that gets to run (lib.rs:262, ensure_background_flag).
THEOREM SignInsAreQuiet == LaunchSpec => []SignInsStayQuiet
  <1>1. LaunchTypeOK /\ EntryMends => SignInsStayQuiet
    BY LaunchesAssumption DEF LaunchTypeOK, EntryMends, Slack, SignInsStayQuiet
  <1> QED BY <1>1, InitMends, StepMends, LaunchTypeCorrect, PTL DEF LaunchSpec

-----------------------------------------------------------------------------
(* The roads between a page and the host.                                   *)

\* A road is a sequence; what is on it.
Road(q) == \E S : q \in Seq(S)
NoneOf(q, k) == \A e \in Range(q) : e.kind # k
\* What an event says, and that the last of its kind on the road says x.
Word(e) == IF e.kind = "volume" THEN <<e.vol, e.muted>> ELSE e.status
LastSays(q, k, x) ==
    \A i \in DOMAIN q : q[i].kind = k /\ (\A j \in DOMAIN q : j > i => q[j].kind # k) => Word(q[i]) = x
\* Commands, or answers, of some kinds: none, or one at most.
Lacks(q, ops) == \A c \in Range(q) : c.op \notin ops
AtMostOne(q, ops) == \A i, j \in DOMAIN q : q[i].op \in ops /\ q[j].op \in ops => i = j

LEMMA RoadGrows ==
    ASSUME NEW q, Road(q), NEW e
    PROVE  /\ Road(Append(q, e)) /\ Range(Append(q, e)) = Range(q) \cup {e}
           /\ Len(Append(q, e)) = Len(q) + 1 /\ Len(q) \in Nat /\ DOMAIN q = 1..Len(q)
           /\ DOMAIN Append(q, e) = 1..(Len(q) + 1) /\ Append(q, e)[Len(q) + 1] = e
           /\ \A i \in 1..Len(q) : Append(q, e)[i] = q[i]
<1>1. PICK S : q \in Seq(S)
  BY DEF Road
<1>2. q \in Seq(S \cup {e})
  BY <1>1
<1>3. Append(q, e) \in Seq(S \cup {e})
  BY <1>2
<1>4. Len(Append(q, e)) = Len(q) + 1 /\ Len(q) \in Nat /\ DOMAIN q = 1..Len(q)
      /\ DOMAIN Append(q, e) = 1..(Len(q) + 1) /\ Append(q, e)[Len(q) + 1] = e
      /\ \A i \in 1..Len(q) : Append(q, e)[i] = q[i]
  BY <1>2
<1>5. Range(Append(q, e)) = Range(q) \cup {e}
  BY <1>4 DEF Range
<1> QED BY <1>3, <1>4, <1>5 DEF Road

LEMMA RoadMoves ==
    ASSUME NEW q, Road(q), q # <<>>
    PROVE  /\ Road(Tail(q)) /\ Range(q) = Range(Tail(q)) \cup {Head(q)}
           /\ Len(Tail(q)) = Len(q) - 1 /\ Len(q) \in Nat \ {0} /\ DOMAIN q = 1..Len(q)
           /\ DOMAIN Tail(q) = 1..(Len(q) - 1) /\ Head(q) = q[1]
           /\ \A i \in 1..(Len(q) - 1) : Tail(q)[i] = q[i + 1]
<1>1. PICK S : q \in Seq(S)
  BY DEF Road
<1>2. Tail(q) \in Seq(S)
  BY <1>1
<1>3. Len(Tail(q)) = Len(q) - 1 /\ Len(q) \in Nat \ {0} /\ DOMAIN q = 1..Len(q)
      /\ DOMAIN Tail(q) = 1..(Len(q) - 1) /\ Head(q) = q[1]
      /\ \A i \in 1..(Len(q) - 1) : Tail(q)[i] = q[i + 1]
  BY <1>1
<1>4. Range(q) = Range(Tail(q)) \cup {Head(q)}
  <2> DEFINE n == Len(q)
  <2>1. \A i \in 1..n : i = 1 \/ (i - 1 \in 1..(n - 1) /\ q[i] = Tail(q)[i - 1])
    BY <1>3
  <2>2. \A i \in 1..(n - 1) : i + 1 \in 1..n
    BY <1>3
  <2>3. DOMAIN q = 1..n /\ DOMAIN Tail(q) = 1..(n - 1) /\ Head(q) = q[1] /\ 1 \in 1..n
        /\ \A i \in 1..(n - 1) : Tail(q)[i] = q[i + 1]
    BY <1>3
  <2> DEFINE z == Tail(q)
  <2>6. DOMAIN z = 1..(n - 1) /\ \A i \in 1..(n - 1) : z[i] = q[i + 1]
    BY <1>3
  <2>7. \A i \in 1..n : i = 1 \/ (i - 1 \in 1..(n - 1) /\ q[i] = z[i - 1])
    BY <2>1
  <2> HIDE DEF n, z
  <2>4. ASSUME NEW e \in Range(q) PROVE e \in Range(z) \cup {Head(q)}
    <3>1. PICK i \in DOMAIN q : e = q[i]
      BY <2>4 DEF Range
    <3>2. CASE i = 1
      BY <2>3, <3>1, <3>2
    <3>3. CASE i - 1 \in DOMAIN z /\ q[i] = z[i - 1]
      BY <3>1, <3>3 DEF Range
    <3> QED BY <2>3, <2>6, <2>7, <3>1, <3>2, <3>3
  <2>5. ASSUME NEW e \in Range(z) \cup {Head(q)} PROVE e \in Range(q)
    <3>1. CASE e = Head(q)
      BY <2>3, <3>1 DEF Range
    <3>2. CASE e \in Range(z)
      <4>1. PICK i \in DOMAIN z : e = z[i]
        BY <3>2 DEF Range
      <4>2. i + 1 \in DOMAIN q /\ e = q[i + 1]
        BY <2>2, <2>3, <2>6, <4>1
      <4> QED BY <4>2 DEF Range
    <3> QED BY <2>5, <3>1, <3>2
  <2>8. Range(q) = Range(z) \cup {Head(q)}
    BY <2>4, <2>5
  <2> QED BY <2>8 DEF z
<1> QED BY <1>2, <1>3, <1>4 DEF Road

LEMMA SaysMore ==
    ASSUME NEW q, Road(q), NEW e, NEW k
    PROVE  /\ e.kind = k => LastSays(Append(q, e), k, Word(e))
           /\ e.kind # k => \A x : LastSays(q, k, x) => LastSays(Append(q, e), k, x)
<1> DEFINE n == Len(q)
           z == Append(q, e)
<1>1. n \in Nat /\ DOMAIN q = 1..n /\ DOMAIN z = 1..(n + 1) /\ z[n + 1] = e /\ \A i \in 1..n : z[i] = q[i]
  BY RoadGrows
<1> HIDE DEF n, z
<1>2. ASSUME e.kind = k PROVE LastSays(z, k, Word(e))
  <2> SUFFICES ASSUME NEW i \in DOMAIN z, z[i].kind = k, \A j \in DOMAIN z : j > i => z[j].kind # k
               PROVE  Word(z[i]) = Word(e)
    BY DEF LastSays
  <2>1. i = n + 1
    BY <1>1, <1>2
  <2> QED BY <1>1, <2>1
<1>3. ASSUME e.kind # k, NEW x, LastSays(q, k, x) PROVE LastSays(z, k, x)
  <2> SUFFICES ASSUME NEW i \in DOMAIN z, z[i].kind = k, \A j \in DOMAIN z : j > i => z[j].kind # k
               PROVE  Word(z[i]) = x
    BY DEF LastSays
  <2>1. i \in 1..n /\ z[i] = q[i]
    BY <1>1, <1>3
  <2>2. \A j \in DOMAIN q : j > i => q[j].kind # k
    BY <1>1
  <2> QED BY <1>1, <1>3, <2>1, <2>2 DEF LastSays
<1> QED BY <1>2, <1>3 DEF z

LEMMA SaysLess ==
    ASSUME NEW q, Road(q), q # <<>>, NEW k, NEW x, LastSays(q, k, x)
    PROVE  /\ LastSays(Tail(q), k, x)
           /\ Head(q).kind = k /\ NoneOf(Tail(q), k) => Word(Head(q)) = x
<1> DEFINE n == Len(q)
           z == Tail(q)
<1>1. n \in Nat \ {0} /\ DOMAIN q = 1..n /\ DOMAIN z = 1..(n - 1) /\ Head(q) = q[1] /\ \A i \in 1..(n - 1) : z[i] = q[i + 1]
  BY RoadMoves
<1> HIDE DEF n, z
<1>2. LastSays(z, k, x)
  <2> SUFFICES ASSUME NEW i \in DOMAIN z, z[i].kind = k, \A j \in DOMAIN z : j > i => z[j].kind # k
               PROVE  Word(z[i]) = x
    BY DEF LastSays
  <2>1. i + 1 \in DOMAIN q /\ q[i + 1] = z[i]
    BY <1>1
  <2>2. ASSUME NEW j \in DOMAIN q, j > i + 1 PROVE q[j].kind # k
    <3>1. j - 1 \in DOMAIN z /\ j - 1 > i /\ z[j - 1] = q[j]
      BY <1>1, <2>2
    <3> QED BY <3>1
  <2> QED BY <2>1, <2>2 DEF LastSays
<1>3. ASSUME q[1].kind = k, NoneOf(z, k) PROVE Word(q[1]) = x
  <2>1. ASSUME NEW j \in DOMAIN q, j > 1 PROVE q[j].kind # k
    <3>1. j - 1 \in DOMAIN z /\ z[j - 1] = q[j]
      BY <1>1, <2>1
    <3> QED BY <1>3, <3>1 DEF NoneOf, Range
  <2>2. 1 \in DOMAIN q
    BY <1>1
  <2> QED BY <1>3, <2>1, <2>2 DEF LastSays
<1> QED BY <1>1, <1>2, <1>3 DEF z

LEMMA OneMore ==
    ASSUME NEW q, Road(q), NEW c, NEW ops
    PROVE  /\ AtMostOne(q, ops) /\ c.op \notin ops => AtMostOne(Append(q, c), ops)
           /\ Lacks(q, ops) => AtMostOne(Append(q, c), ops)
<1> DEFINE n == Len(q)
           z == Append(q, c)
<1>1. n \in Nat /\ DOMAIN q = 1..n /\ DOMAIN z = 1..(n + 1) /\ z[n + 1] = c /\ \A i \in 1..n : z[i] = q[i]
  BY RoadGrows
<1> HIDE DEF n, z
<1>2. \A i \in DOMAIN z : i = n + 1 \/ i \in DOMAIN q
  BY <1>1
<1>3. Lacks(q, ops) => \A i \in DOMAIN q : q[i].op \notin ops
  BY DEF Lacks, Range
<1> QED BY <1>1, <1>2, <1>3 DEF AtMostOne, z

LEMMA OneLess ==
    ASSUME NEW q, Road(q), q # <<>>, NEW ops, AtMostOne(q, ops)
    PROVE  AtMostOne(Tail(q), ops) /\ (Head(q).op \in ops => Lacks(Tail(q), ops))
<1> DEFINE n == Len(q)
           z == Tail(q)
<1>1. n \in Nat \ {0} /\ DOMAIN q = 1..n /\ DOMAIN z = 1..(n - 1) /\ Head(q) = q[1] /\ \A i \in 1..(n - 1) : z[i] = q[i + 1]
  BY RoadMoves
<1> HIDE DEF n, z
<1>2. \A i \in DOMAIN z : i + 1 \in DOMAIN q /\ z[i] = q[i + 1] /\ i + 1 # 1
  BY <1>1
<1>3. \A i, j \in DOMAIN z : i + 1 = j + 1 => i = j
  BY <1>1
<1>4. AtMostOne(z, ops)
  BY <1>2, <1>3 DEF AtMostOne
<1>5. 1 \in DOMAIN q
  BY <1>1
<1>6. q[1].op \in ops => \A i \in DOMAIN z : z[i].op \notin ops
  BY <1>2, <1>5 DEF AtMostOne
<1>7. q[1].op \in ops => Lacks(z, ops)
  BY <1>6 DEF Lacks, Range
<1> QED BY <1>1, <1>4, <1>7 DEF z

\* A road that carries one thing more, which is none of ops, or one less.
Hauls(q, r, ops) ==
    r = q \/ (\E c : c.op \notin ops /\ r = Append(q, c)) \/ (q # <<>> /\ r = Tail(q))

LEMMA HaulsKeep ==
    ASSUME NEW q, Road(q), NEW r, NEW ops, Hauls(q, r, ops)
    PROVE  /\ Road(r) /\ (Lacks(q, ops) => Lacks(r, ops)) /\ (AtMostOne(q, ops) => AtMostOne(r, ops))
           /\ \A c \in Range(r) : c.op \in ops => c \in Range(q)
<1>1. CASE r = q
  BY <1>1
<1>2. ASSUME NEW c, c.op \notin ops, r = Append(q, c)
      PROVE  /\ Road(r) /\ (Lacks(q, ops) => Lacks(r, ops)) /\ (AtMostOne(q, ops) => AtMostOne(r, ops))
             /\ \A d \in Range(r) : d.op \in ops => d \in Range(q)
  <2>1. Road(r) /\ Range(r) = Range(q) \cup {c}
    BY <1>2, RoadGrows
  <2>2. AtMostOne(q, ops) => AtMostOne(r, ops)
    BY <1>2, OneMore
  <2>3. (Lacks(q, ops) => Lacks(r, ops)) /\ \A d \in Range(r) : d.op \in ops => d \in Range(q)
    BY <1>2, <2>1 DEF Lacks
  <2> QED BY <2>1, <2>2, <2>3
<1>3. CASE q # <<>> /\ r = Tail(q)
  <2>1. Road(r) /\ Range(q) = Range(r) \cup {Head(q)}
    BY <1>3, RoadMoves
  <2>2. AtMostOne(q, ops) => AtMostOne(r, ops)
    BY <1>3, OneLess
  <2>3. (Lacks(q, ops) => Lacks(r, ops)) /\ \A d \in Range(r) : d.op \in ops => d \in Range(q)
    BY <2>1 DEF Lacks
  <2> QED BY <2>1, <2>2, <2>3
<1> QED BY <1>1, <1>2, <1>3 DEF Hauls

-----------------------------------------------------------------------------
(* The mixer page.                                                          *)

\* The records of the mixer have their fields.
MixerShape ==
    /\ world = [up |-> world.up, vol |-> world.vol, muted |-> world.muted, live |-> world.live]
    /\ world.up \in BOOLEAN
    /\ appCore = [vol |-> appCore.vol, muted |-> appCore.muted, restore |-> appCore.restore, status |-> appCore.status]
    /\ appCore.status \in {"ready", "degraded"}
    /\ page = [phase |-> page.phase, vol |-> page.vol, muted |-> page.muted, raced |-> page.raced,
               notice |-> page.notice, thumb |-> page.thumb, rows |-> page.rows, drag |-> page.drag]
    /\ page.phase \in {"loading", "listening", "asked", "ready"} /\ page.raced \in BOOLEAN
    /\ odd = [moved |-> odd.moved, recovered |-> odd.recovered, strayed |-> odd.strayed]
    /\ odd.moved \in BOOLEAN /\ odd.recovered \in BOOLEAN /\ odd.strayed \in BOOLEAN
    /\ Road(sent) /\ Road(events) /\ Road(replies)

Level(r) == <<r.vol, r.muted>>
Boots(q) == {c \in Range(q) : c.op = "bootstrap"}

\* The page asks once, and is asked for while it waits.
AsksOnce ==
    /\ page.phase # "asked" => Lacks(sent, {"bootstrap"}) /\ Lacks(replies, {"bootstrap"})
    /\ AtMostOne(sent, {"bootstrap"}) /\ AtMostOne(replies, {"bootstrap"})
    /\ Lacks(sent, {"bootstrap"}) \/ Lacks(replies, {"bootstrap"})
    /\ page.raced => page.phase \in {"listening", "asked"}

\* The last volume on its way is the core's, and the page's if none is on its way.
VolumeTold ==
    ~odd.moved =>
      /\ page.phase # "ready" => Level(appCore) = Level(world)
      /\ LastSays(events, "volume", Level(appCore))
      /\ NoneOf(events, "volume") =>
           /\ page.phase = "ready" \/ page.raced => Level(page) = Level(appCore)
           /\ ~page.raced => \A r \in Boots(replies) : Level(r) = Level(appCore)

\* The last status on its way is the core's, and a degraded one is announced if none is.
HealthTold ==
    /\ LastSays(events, "backend", appCore.status)
    /\ NoneOf(events, "backend") /\ appCore.status = "degraded" =>
         /\ page.phase = "ready" => page.notice # None
         /\ page.notice # None \/ \A r \in Boots(replies) : r.status = "degraded"

\* Only a degraded backend is called degraded: before the bootstrap nothing else is said.
AlarmIsTrue ==
    ~odd.recovered =>
      /\ page.phase = "ready" /\ NoneOf(events, "backend") /\ page.notice = "degraded" => appCore.status = "degraded"
      /\ page.phase # "ready" =>
           /\ appCore.status = "degraded" => ~world.up
           /\ \/ appCore.status = "degraded"
              \/ /\ page.notice # "degraded" /\ \A r \in Boots(replies) : r.status # "degraded"
                 /\ \A e \in Range(events) : e.kind = "backend" => e.status # "degraded"

\* A thumb that is not at the volume waits for one that is on its way, as an event or a command.
ThumbWaits ==
    \/ odd.strayed \/ page.thumb = page.vol
    \/ /\ page.phase = "ready"
       /\ \/ \E e \in Range(events) : e.kind = "volume" /\ e.vol # page.vol
          \/ \E c \in Range(sent) : c.op = "set" /\ c.vol # page.vol

MixerInv == MixerShape /\ AsksOnce /\ VolumeTold /\ HealthTold /\ AlarmIsTrue /\ ThumbWaits

\* Steps that change nothing the invariant speaks of.
SameRoads ==
    /\ Hauls(sent, sent', {"bootstrap"}) /\ Hauls(replies, replies', {"bootstrap"})
    /\ \A c \in Range(sent) : c.op = "set" => c \in Range(sent')
SameEvents ==
    \A k \in {"volume", "backend"} :
        /\ \A x : LastSays(events, k, x) => LastSays(events', k, x)
        /\ \A e : e.kind = k => (e \in Range(events) <=> e \in Range(events'))
SamePage ==
    /\ page'.phase = page.phase /\ page'.vol = page.vol /\ page'.muted = page.muted /\ page'.raced = page.raced
    /\ page'.thumb = page.thumb /\ (page'.notice = page.notice \/ page'.notice = "failed")
SameHost == appCore' = appCore /\ Level(world') = Level(world) /\ world'.up = world.up /\ odd' = odd
Quiet == SameRoads /\ SameEvents /\ SamePage /\ SameHost /\ MixerShape'

LEMMA RoadsKeep ==
    ASSUME MixerInv, Hauls(sent, sent', {"bootstrap"}), Hauls(replies, replies', {"bootstrap"}),
           page'.phase = page.phase, page'.raced => page.raced \/ page.phase \in {"listening", "asked"}
    PROVE  AsksOnce' /\ Boots(replies') \subseteq Boots(replies)
<1>1. Road(sent) /\ Road(replies) /\ AsksOnce
  BY DEF MixerInv, MixerShape
<1>2. /\ Lacks(sent, {"bootstrap"}) => Lacks(sent', {"bootstrap"})
      /\ AtMostOne(sent, {"bootstrap"}) => AtMostOne(sent', {"bootstrap"})
  BY <1>1, HaulsKeep
<1>3. /\ Lacks(replies, {"bootstrap"}) => Lacks(replies', {"bootstrap"})
      /\ AtMostOne(replies, {"bootstrap"}) => AtMostOne(replies', {"bootstrap"})
      /\ \A c \in Range(replies') : c.op \in {"bootstrap"} => c \in Range(replies)
  BY <1>1, HaulsKeep
<1>4. AsksOnce'
  BY <1>1, <1>2, <1>3 DEF AsksOnce
<1>5. Boots(replies') \subseteq Boots(replies)
  BY <1>3 DEF Boots
<1> QED BY <1>4, <1>5

LEMMA QuietKeeps == ASSUME MixerInv, Quiet PROVE MixerInv'
<1>0. /\ AsksOnce' /\ Boots(replies') \subseteq Boots(replies)
  BY RoadsKeep DEF Quiet, SameRoads, SamePage
<1>1. \A k \in {"volume", "backend"} : NoneOf(events', k) => NoneOf(events, k)
  BY DEF NoneOf, Quiet, SameEvents
<1>2. odd' = odd /\ appCore' = appCore /\ Level(world') = Level(world) /\ world'.up = world.up
  BY DEF Quiet, SameHost
<1>3. Level(page') = Level(page) /\ page'.phase = page.phase /\ page'.raced = page.raced
      /\ page'.thumb = page.thumb /\ page'.vol = page.vol /\ (page'.notice = page.notice \/ page'.notice = "failed")
  BY DEF Quiet, SamePage, Level
<1>4. \A k \in {"volume", "backend"} : \A x : LastSays(events, k, x) => LastSays(events', k, x)
  BY DEF Quiet, SameEvents
<1>5. \A k \in {"volume", "backend"} : \A e : e.kind = k => (e \in Range(events) <=> e \in Range(events'))
  BY DEF Quiet, SameEvents
<1>6. MixerShape'
  BY DEF Quiet
<1>7. VolumeTold'
  <2>1. LastSays(events, "volume", Level(appCore)) => LastSays(events', "volume", Level(appCore))
    BY <1>4
  <2>2. VolumeTold /\ (NoneOf(events', "volume") => NoneOf(events, "volume"))
    BY <1>1 DEF MixerInv
  <2>3. Level(appCore') = Level(appCore)
    BY <1>2
  <2> QED BY <1>0, <1>2, <1>3, <2>1, <2>2, <2>3 DEF VolumeTold
<1>8. HealthTold'
  <2>1. LastSays(events, "backend", appCore.status) => LastSays(events', "backend", appCore.status)
    BY <1>4
  <2>2. HealthTold /\ (NoneOf(events', "backend") => NoneOf(events, "backend"))
    BY <1>1 DEF MixerInv
  <2>3. page.notice # None => page'.notice # None
    BY <1>3, NoticeAssumption
  <2> QED BY <1>0, <1>2, <1>3, <2>1, <2>2, <2>3 DEF HealthTold
<1>9. AlarmIsTrue'
  <2>1. AlarmIsTrue /\ (NoneOf(events', "backend") => NoneOf(events, "backend"))
    BY <1>1 DEF MixerInv
  <2>2. page'.notice = "degraded" => page.notice = "degraded"
    BY <1>3
  <2>3. \A e \in Range(events') : e.kind = "backend" => e \in Range(events)
    BY <1>5
  <2> QED BY <1>0, <1>2, <1>3, <2>1, <2>2, <2>3 DEF AlarmIsTrue
<1>10. ThumbWaits'
  <2>1. \A e \in Range(events) : e.kind = "volume" => e \in Range(events')
    BY <1>5
  <2>2. \A c \in Range(sent) : c.op = "set" => c \in Range(sent')
    BY DEF Quiet, SameRoads
  <2>3. ThumbWaits
    BY DEF MixerInv
  <2> QED BY <1>2, <1>3, <2>1, <2>2, <2>3 DEF ThumbWaits
<1> QED BY <1>0, <1>6, <1>7, <1>8, <1>9, <1>10 DEF MixerInv

\* What a page keeps when its rows change.
RowsOnly(p, q) ==
    /\ q = [phase |-> p.phase, vol |-> p.vol, muted |-> p.muted, raced |-> p.raced, notice |-> q.notice,
            thumb |-> p.thumb, rows |-> q.rows, drag |-> q.drag]
    /\ q.notice = p.notice \/ q.notice = "failed"

LEMMA RowsAreRowsOnly ==
    ASSUME NEW new, page = [phase |-> page.phase, vol |-> page.vol, muted |-> page.muted, raced |-> page.raced,
               notice |-> page.notice, thumb |-> page.thumb, rows |-> page.rows, drag |-> page.drag]
    PROVE  RowsOnly(page, WithRows(page, new)) /\ WithRows(page, new).notice = page.notice
<1> DEFINE r == [i \in DOMAIN new |-> [vol |-> new[i].vol, muted |-> new[i].muted,
                                       thumb |-> ThumbOf(page.rows, new, i, page.drag)]]
           d == IF page.drag \in StreamIds /\ (page.drag \notin DOMAIN new \/ ~SameRow(page.rows, new, page.drag))
                THEN None ELSE page.drag
<1>1. WithRows(page, new) = [page EXCEPT !.rows = r, !.drag = d]
  BY DEF WithRows
<1> HIDE DEF r, d
<1> QED BY <1>1 DEF RowsOnly

LEMMA MuteIsRowsOnly ==
    ASSUME NEW i, NEW m, page = [phase |-> page.phase, vol |-> page.vol, muted |-> page.muted, raced |-> page.raced,
               notice |-> page.notice, thumb |-> page.thumb, rows |-> page.rows, drag |-> page.drag]
    PROVE  RowsOnly(page, WithMute(page, i, m)) /\ WithMute(page, i, m).notice = page.notice
<1> DEFINE r == [page.rows EXCEPT ![i].muted = m]
<1>1. WithMute(page, i, m) = [page EXCEPT !.rows = r] \/ WithMute(page, i, m) = page
  BY DEF WithMute
<1> HIDE DEF r
<1> QED BY <1>1 DEF RowsOnly

\* The page's own records.
PageSame == RowsOnly(page, page')
LEMMA PageKeeps == ASSUME MixerShape, PageSame
                   PROVE  /\ SamePage /\ page'.phase \in {"loading", "listening", "asked", "ready"} /\ page'.raced \in BOOLEAN
                          /\ page' = [phase |-> page'.phase, vol |-> page'.vol, muted |-> page'.muted,
                                      raced |-> page'.raced, notice |-> page'.notice, thumb |-> page'.thumb,
                                      rows |-> page'.rows, drag |-> page'.drag]
BY DEF PageSame, RowsOnly, MixerShape, SamePage

\* A step of page and roads; one of the rows of the world.
RowStep ==
    /\ PageSame /\ SameRoads /\ SameEvents /\ Road(events')
    /\ UNCHANGED <<appCore, odd>> /\ \E l : world' = [world EXCEPT !.live = l]

LEMMA RowStepIsQuiet == ASSUME MixerInv, RowStep PROVE Quiet
<1>1. MixerShape
  BY DEF MixerInv
<1>2. Road(sent') /\ Road(replies') /\ Road(events')
  BY <1>1, HaulsKeep DEF RowStep, SameRoads, MixerShape
<1>3. world'.vol = world.vol /\ world'.muted = world.muted /\ world'.up = world.up
      /\ world' = [up |-> world'.up, vol |-> world'.vol, muted |-> world'.muted, live |-> world'.live]
  <2>1. PICK l : world' = [world EXCEPT !.live = l]
    BY DEF RowStep
  <2> QED BY <1>1, <2>1 DEF MixerShape
<1>4. SameHost
  BY <1>3 DEF SameHost, RowStep, Level
<1>5. MixerShape'
  BY <1>1, <1>2, <1>3, PageKeeps DEF MixerShape, RowStep
<1> QED BY <1>1, <1>4, <1>5, PageKeeps DEF Quiet, RowStep

LEMMA StaysSame == ASSUME MixerInv
                   PROVE  /\ page' = page => PageSame
                          /\ events' = events => SameEvents /\ Road(events')
                          /\ world' = world => \E l : world' = [world EXCEPT !.live = l]
                          /\ sent' = sent /\ Hauls(replies, replies', {"bootstrap"}) => SameRoads
                          /\ \A c : c.op # "bootstrap" /\ sent' = Append(sent, c) /\ replies' = replies => SameRoads
                          /\ sent # <<>> /\ sent' = Tail(sent) /\ Head(sent).op # "set"
                               /\ Hauls(replies, replies', {"bootstrap"}) => SameRoads
<1>1. MixerShape
  BY DEF MixerInv
<1>2. page' = page => PageSame
  BY <1>1 DEF PageSame, RowsOnly, MixerShape
<1>3. events' = events => SameEvents /\ Road(events')
  BY <1>1 DEF SameEvents, MixerShape
<1>4. world' = world => world' = [world EXCEPT !.live = world.live]
  BY <1>1 DEF MixerShape
<1>5. sent' = sent /\ Hauls(replies, replies', {"bootstrap"}) => SameRoads
  BY DEF SameRoads, Hauls
<1>6. ASSUME NEW c, c.op # "bootstrap", sent' = Append(sent, c), replies' = replies PROVE SameRoads
  <2>1. Range(sent') = Range(sent) \cup {c}
    BY <1>1, <1>6, RoadGrows DEF MixerShape
  <2>2. Hauls(sent, sent', {"bootstrap"}) /\ Hauls(replies, replies', {"bootstrap"})
    BY <1>6 DEF Hauls
  <2> QED BY <2>1, <2>2 DEF SameRoads
<1>7. ASSUME sent # <<>>, sent' = Tail(sent), Head(sent).op # "set", Hauls(replies, replies', {"bootstrap"}) PROVE SameRoads
  <2>1. Range(sent) = Range(sent') \cup {Head(sent)}
    BY <1>1, <1>7, RoadMoves DEF MixerShape
  <2>2. Hauls(sent, sent', {"bootstrap"})
    BY <1>7 DEF Hauls
  <2> QED BY <1>7, <2>1, <2>2 DEF SameRoads
<1> QED BY <1>2, <1>3, <1>4, <1>5, <1>6, <1>7

\* An answer that is none to a bootstrap.
LEMMA AnswersHaul ==
    ASSUME MixerInv, NEW r, r.op # "bootstrap", replies' = replies \o <<r>>
    PROVE  Hauls(replies, replies', {"bootstrap"})
<1>1. PICK S : replies \in Seq(S)
  BY DEF MixerInv, MixerShape, Road
<1>2. replies' = Append(replies, r)
  BY <1>1
<1> QED BY <1>2 DEF Hauls

\* An event about streams.
LEMMA StreamsTold ==
    ASSUME MixerInv, NEW r, events' = events \o <<[kind |-> "sessions", rows |-> r]>>
    PROVE  SameEvents /\ Road(events')
<1> DEFINE e == [kind |-> "sessions", rows |-> r]
<1>1. Road(events)
  BY DEF MixerInv, MixerShape
<1>2. PICK S : events \in Seq(S)
  BY <1>1 DEF Road
<1>3. events' = Append(events, e)
  BY <1>2
<1>7. e.kind = "sessions"
  OBVIOUS
<1> HIDE DEF e
<1>8. Road(Append(events, e)) /\ Range(Append(events, e)) = Range(events) \cup {e}
  BY <1>1, RoadGrows
<1>4. Road(events') /\ Range(events') = Range(events) \cup {e}
  BY <1>3, <1>8
<1>5. \A k \in {"volume", "backend"} : \A x : LastSays(events, k, x) => LastSays(events', k, x)
  <2>1. \A k \in {"volume", "backend"} : e.kind # k
    BY <1>7
  <2> QED BY <1>1, <1>3, <2>1, SaysMore
<1>6. \A k \in {"volume", "backend"} : \A f : f.kind = k => (f \in Range(events) <=> f \in Range(events'))
  BY <1>4, <1>7
<1> QED BY <1>4, <1>5, <1>6 DEF SameEvents

\* Gestures on rows and the buttons, timers, streams: nothing of the volume or the status.
LEMMA GesturesAreQuiet ==
    ASSUME MixerInv,
           \/ \E i \in StreamIds, v \in StreamTops : SlideRow(i, v)
           \/ \E s \in StreamIds \cup {System} : PointerDown(s)
           \/ PointerUp
           \/ \E op \in {"mute", "reset"} : Press(op)
           \/ \E i \in StreamIds : MuteRow(i)
           \/ \E i \in StreamIds, v \in StreamTops : StreamStarts(i, v)
           \/ \E i \in StreamIds : StreamEnds(i)
           \/ BackoffEnds \/ Refresh
    PROVE  Quiet
<1>1. MixerShape
  BY DEF MixerInv
<1>0. Hauls(replies, replies, {"bootstrap"})
  BY DEF Hauls
<1> SUFFICES RowStep
  BY RowStepIsQuiet
<1>2. CASE \E i \in StreamIds, v \in StreamTops : SlideRow(i, v)
  <2>1. PICK i \in StreamIds, v \in StreamTops : SlideRow(i, v)
    BY <1>2
  <2>2. \E r : page' = [page EXCEPT !.rows = r]
    BY <2>1 DEF SlideRow
  <2>3. PageSame
    BY <1>1, <2>2 DEF PageSame, RowsOnly, MixerShape
  <2>4. UNCHANGED <<world, appCore, odd, events, replies>>
    BY <2>1 DEF SlideRow, UnchangedHost
  <2>5. \E c : c.op # "bootstrap" /\ sent' = Append(sent, c)
    BY <2>1 DEF SlideRow, Invoke
  <2> QED BY <2>3, <2>4, <2>5, StaysSame DEF RowStep
<1>3. CASE (\E s \in StreamIds \cup {System} : PointerDown(s)) \/ PointerUp
  <2>2. \E d : page' = [page EXCEPT !.drag = d]
    BY <1>3 DEF PointerDown, PointerUp
  <2>3. PageSame
    BY <1>1, <2>2 DEF PageSame, RowsOnly, MixerShape
  <2>4. UNCHANGED <<world, appCore, odd, events, replies, sent>>
    BY <1>3 DEF PointerDown, PointerUp, UnchangedHost, channel
  <2> QED BY <1>0, <2>3, <2>4, StaysSame DEF RowStep
<1>4. CASE \E op \in {"mute", "reset"} : Press(op)
  <2>1. PICK op \in {"mute", "reset"} : Press(op)
    BY <1>4
  <2>4. UNCHANGED <<world, appCore, odd, events, replies, page>>
    BY <2>1 DEF Press, UnchangedHost
  <2>5. \E c : c.op # "bootstrap" /\ sent' = Append(sent, c)
    BY <2>1 DEF Press, Invoke
  <2> QED BY <2>4, <2>5, StaysSame DEF RowStep
<1>5. CASE \E i \in StreamIds : MuteRow(i)
  <2>1. PICK i \in StreamIds : MuteRow(i)
    BY <1>5
  <2>2. page' = WithMute(page, i, ~page.rows[i].muted)
    BY <2>1 DEF MuteRow
  <2>3. PageSame
    BY <1>1, <2>2, MuteIsRowsOnly DEF PageSame, MixerShape
  <2>4. UNCHANGED <<world, appCore, odd, events, replies>>
    BY <2>1 DEF MuteRow, UnchangedHost
  <2>5. \E c : c.op # "bootstrap" /\ sent' = Append(sent, c)
    BY <2>1 DEF MuteRow, Invoke
  <2> QED BY <2>3, <2>4, <2>5, StaysSame DEF RowStep
<1>6. CASE \/ \E i \in StreamIds, v \in StreamTops : StreamStarts(i, v)
           \/ \E i \in StreamIds : StreamEnds(i)
  <2>2. \E l : world' = [world EXCEPT !.live = l]
    BY <1>6 DEF StreamStarts, StreamEnds
  <2>4. UNCHANGED <<page, appCore, odd, events, replies, sent>>
    BY <1>6 DEF StreamStarts, StreamEnds, channel
  <2> QED BY <1>0, <2>2, <2>4, StaysSame DEF RowStep
<1>7. CASE BackoffEnds
  <2>4. UNCHANGED <<world, page, appCore, odd, events, replies, sent>>
    BY <1>7 DEF BackoffEnds, channel
  <2> QED BY <1>0, <2>4, StaysSame DEF RowStep
<1>8. CASE Refresh
  <2>4. UNCHANGED <<world, appCore, odd, events, replies, page>>
    BY <1>8 DEF Refresh, UnchangedHost
  <2>5. \E c : c.op # "bootstrap" /\ sent' = Append(sent, c)
    BY <1>8 DEF Refresh, Invoke
  <2> QED BY <2>4, <2>5, StaysSame DEF RowStep
<1> QED BY <1>2, <1>3, <1>4, <1>5, <1>6, <1>7, <1>8

\* What the host does to a stream, and a mute that fails.
LEMMA StreamCommandsAreQuiet ==
    ASSUME MixerInv, SetSessionVolume \/ MuteSession \/ GetAudioSessions \/ (ToggleMute /\ ~world.up)
    PROVE  Quiet
<1>1. MixerShape
  BY DEF MixerInv
<1> SUFFICES RowStep
  BY RowStepIsQuiet
<1>2. ASSUME NEW change, NEW failure, failure.op # "bootstrap", OnStream(change, failure), sent # <<>>, sent' = Tail(sent),
             Head(sent).op # "set"
      PROVE  RowStep
  <2>1. UNCHANGED <<appCore, page>>
    BY <1>2 DEF OnStream
  <2>2. CASE UNCHANGED <<odd, events, replies>> /\ \E l : world' = [world EXCEPT !.live = l]
    <3>1. Hauls(replies, replies', {"bootstrap"})
      BY <2>2 DEF Hauls
    <3> QED BY <1>2, <2>1, <2>2, <3>1, StaysSame DEF RowStep
  <2>3. ASSUME NEW rows, Emits(<<[kind |-> "sessions", rows |-> rows]>>), Returned(<<failure>>), world' = world PROVE RowStep
    <3>1. Hauls(replies, replies', {"bootstrap"})
      BY <1>2, <2>3, AnswersHaul DEF Returned
    <3>2. SameEvents /\ Road(events')
      BY <2>3, StreamsTold DEF Emits, Told
    <3>3. odd' = odd
      <4> DEFINE es == <<[kind |-> "sessions", rows |-> rows]>>
      <4>1. \A e \in Range(es) : e.kind = "sessions"
        BY DEF Range
      <4>2. odd' = [odd EXCEPT
               !.moved = @ /\ ~(page.phase = "ready" /\ \E e \in Range(es) : e.kind = "volume"),
               !.recovered = @ /\ ~(page.phase = "ready" /\ \E e \in Range(es) : e.kind = "backend")]
        BY <2>3 DEF Emits
      <4> HIDE DEF es
      <4>3. ~(\E e \in Range(es) : e.kind = "volume") /\ ~(\E e \in Range(es) : e.kind = "backend")
        BY <4>1
      <4> QED BY <1>1, <4>2, <4>3 DEF MixerShape
    <3> QED BY <1>2, <2>1, <2>3, <3>1, <3>2, <3>3, StaysSame DEF RowStep
  <2> QED BY <1>2, <2>2, <2>3 DEF OnStream
<1>3. CASE SetSessionVolume
  <2>1. sent # <<>> /\ sent' = Tail(sent) /\ Head(sent).op # "set"
    BY <1>3 DEF SetSessionVolume, Run
  <2> QED BY <1>2, <1>3, <2>1 DEF SetSessionVolume
<1>4. CASE MuteSession
  <2>1. sent # <<>> /\ sent' = Tail(sent) /\ Head(sent).op # "set"
    BY <1>4 DEF MuteSession, Run
  <2> QED BY <1>2, <1>4, <2>1 DEF MuteSession
<1>5. CASE GetAudioSessions
  <2>1. sent # <<>> /\ sent' = Tail(sent) /\ Head(sent).op # "set"
    BY <1>5 DEF GetAudioSessions, Run
  <2>2. UNCHANGED <<world, appCore, page, odd, events>>
    BY <1>5 DEF GetAudioSessions
  <2>3. Hauls(replies, replies', {"bootstrap"})
    BY <1>5, AnswersHaul DEF GetAudioSessions, Returned
  <2> QED BY <2>1, <2>2, <2>3, StaysSame DEF RowStep
<1>6. CASE ToggleMute /\ ~world.up
  <2>1. sent # <<>> /\ sent' = Tail(sent) /\ Head(sent).op # "set"
    BY <1>6 DEF ToggleMute, Run
  <2>2. UNCHANGED <<world, appCore, page, odd, events>>
    BY <1>6 DEF ToggleMute
  <2>3. Hauls(replies, replies', {"bootstrap"})
    BY <1>6, AnswersHaul DEF ToggleMute, Returned
  <2> QED BY <2>1, <2>2, <2>3, StaysSame DEF RowStep
<1> QED BY <1>3, <1>4, <1>5, <1>6

\* Rows and failures reach the page.
LEMMA RowsArriveQuietly == ASSUME MixerInv, OnSessions \/ OnList \/ OnFailed \/ OnGone \/ OnNotMuted PROVE Quiet
<1>1. MixerShape
  BY DEF MixerInv
<1> SUFFICES RowStep
  BY RowStepIsQuiet
<1>2. UNCHANGED <<world, appCore, odd, sent>>
  BY DEF OnSessions, OnList, OnFailed, OnGone, OnNotMuted, TakesEvent, TakesReply, UnchangedHost
<1>3. CASE OnSessions
  <2>1. events # <<>> /\ Head(events).kind = "sessions" /\ events' = Tail(events) /\ replies' = replies
    BY <1>3 DEF OnSessions, TakesEvent, Event
  <2>2. page' = page \/ page' = WithRows(page, Head(events).rows)
    BY <1>3 DEF OnSessions, TakesEvent
  <2>3. PageSame
    BY <1>1, <2>2, RowsAreRowsOnly, StaysSame DEF PageSame, MixerShape
  <2>4. Road(events') /\ Range(events) = Range(events') \cup {Head(events)}
    BY <1>1, <2>1, RoadMoves DEF MixerShape
  <2>5. \A k \in {"volume", "backend"} : \A x : LastSays(events, k, x) => LastSays(events', k, x)
    BY <1>1, <2>1, SaysLess DEF MixerShape
  <2>6. \A k \in {"volume", "backend"} : \A e : e.kind = k => (e \in Range(events) <=> e \in Range(events'))
    BY <2>1, <2>4
  <2>7. SameEvents
    BY <2>5, <2>6 DEF SameEvents
  <2>8. Hauls(replies, replies', {"bootstrap"})
    BY <2>1 DEF Hauls
  <2> QED BY <1>2, <2>3, <2>4, <2>7, <2>8, StaysSame DEF RowStep
<1>4. CASE OnList \/ OnFailed \/ OnGone \/ OnNotMuted
  <2>1. replies # <<>> /\ replies' = Tail(replies) /\ events' = events
    BY <1>4 DEF OnList, OnFailed, OnGone, OnNotMuted, TakesReply, Reply
  <2>2. Hauls(replies, replies', {"bootstrap"})
    BY <2>1 DEF Hauls
  <2>3. PageSame
    <3>1. CASE OnList
      <4>1. page' = WithRows(page, Head(replies).rows)
        BY <3>1 DEF OnList, TakesReply
      <4> QED BY <1>1, <4>1, RowsAreRowsOnly DEF PageSame, MixerShape
    <3>2. CASE OnFailed
      <4>1. page' = [page EXCEPT !.notice = "failed"]
        BY <3>2 DEF OnFailed, TakesReply
      <4> QED BY <1>1, <4>1 DEF PageSame, RowsOnly, MixerShape
    <3>3. CASE OnGone
      <4>1. PICK p : page' = [p EXCEPT !.notice = "failed"] /\ RowsOnly(page, p)
        BY <1>1, <3>3, RowsAreRowsOnly DEF OnGone, TakesReply, MixerShape
      <4> QED BY <4>1 DEF PageSame, RowsOnly
    <3>4. CASE OnNotMuted
      <4>1. PICK p : page' = [p EXCEPT !.notice = "failed"] /\ RowsOnly(page, p)
        BY <1>1, <3>4, MuteIsRowsOnly DEF OnNotMuted, TakesReply, MixerShape
      <4> QED BY <4>1 DEF PageSame, RowsOnly
    <3> QED BY <1>4, <3>1, <3>2, <3>3, <3>4
  <2> QED BY <1>2, <2>1, <2>2, <2>3, StaysSame DEF RowStep
<1> QED BY <1>3, <1>4

\* What the host tells after a look: a changed status, and a volume if it has one to publish.
Says(h, w, p) == h \o (IF p THEN <<VolumeEvent(w)>> ELSE <<>>)

LEMMA WhatIsSaid ==
    ASSUME NEW c, NEW w, NEW x, NEW p \in BOOLEAN
    PROVE  \/ c.status = Health(w) /\ ~p /\ Says(HealthEvents(c, w), x, p) = <<>>
           \/ c.status = Health(w) /\ p /\ Says(HealthEvents(c, w), x, p) = <<VolumeEvent(x)>>
           \/ c.status # Health(w) /\ ~p /\ Says(HealthEvents(c, w), x, p) = <<[kind |-> "backend", status |-> Health(w)]>>
           \/ c.status # Health(w) /\ p /\ Says(HealthEvents(c, w), x, p)
                                         = Append(<<[kind |-> "backend", status |-> Health(w)]>>, VolumeEvent(x))
<1> DEFINE b == [kind |-> "backend", status |-> Health(w)]
           v == VolumeEvent(x)
<1>1. HealthEvents(c, w) = IF c.status = Health(w) THEN <<>> ELSE <<b>>
  BY DEF HealthEvents
<1>2. Says(HealthEvents(c, w), x, p) = HealthEvents(c, w) \o (IF p THEN <<v>> ELSE <<>>)
  BY DEF Says
<1> HIDE DEF b, v
<1>3. c.status = Health(w) => HealthEvents(c, w) = <<>>
  BY <1>1
<1>4. c.status # Health(w) => HealthEvents(c, w) = <<b>>
  BY <1>1
<1>5. <<>> \o <<>> = <<>> /\ <<>> \o <<v>> = <<v>> /\ <<b>> \o <<>> = <<b>> /\ <<b>> \o <<v>> = Append(<<b>>, v)
  <2>1. <<>> \in Seq({b, v}) /\ <<b>> \in Seq({b, v}) /\ <<v>> \in Seq({b, v})
    OBVIOUS
  <2>2. <<b>> \o <<>> = <<b>>
    BY <2>1
  <2>4. <<>> \o <<v>> = <<v>>
    BY <2>1
  <2>5. <<>> \o <<>> = <<>>
    BY <2>1
  <2>3. <<b>> \o <<v>> = Append(<<b>>, v)
    BY <2>1
  <2> QED BY <2>2, <2>3, <2>4, <2>5
<1>6. CASE c.status = Health(w) /\ p
  BY <1>2, <1>3, <1>5, <1>6 DEF v
<1>7. CASE c.status = Health(w) /\ ~p
  BY <1>2, <1>3, <1>5, <1>7
<1>8. CASE c.status # Health(w) /\ p
  BY <1>2, <1>4, <1>5, <1>8 DEF v, b
<1>9. CASE c.status # Health(w) /\ ~p
  BY <1>2, <1>4, <1>5, <1>9 DEF b
<1> QED BY <1>6, <1>7, <1>8, <1>9

LEMMA KindsSaid ==
    ASSUME NEW c, NEW w, NEW x, NEW p \in BOOLEAN
    PROVE  /\ (\E e \in Range(Says(HealthEvents(c, w), x, p)) : e.kind = "volume") <=> p
           /\ (\E e \in Range(Says(HealthEvents(c, w), x, p)) : e.kind = "backend") <=> c.status # Health(w)
<1> DEFINE b == [kind |-> "backend", status |-> Health(w)]
           v == VolumeEvent(x)
           es == Says(HealthEvents(c, w), x, p)
<1>1. Range(<<>>) = {} /\ Range(<<b>>) = {b} /\ Range(<<v>>) = {v}
  BY DEF Range
<1>5. Range(Append(<<b>>, v)) = {b, v}
  <2>3. <<b>> \in Seq({b})
    OBVIOUS
  <2>1. Road(<<b>>)
    BY <2>3 DEF Road
  <2>2. Range(Append(<<b>>, v)) = Range(<<b>>) \cup {v}
    BY <2>1, RoadGrows
  <2> QED BY <1>1, <2>2
<1>2. b.kind = "backend" /\ v.kind = "volume"
  BY DEF VolumeEvent
<1>3. \/ c.status = Health(w) /\ ~p /\ es = <<>>
      \/ c.status = Health(w) /\ p /\ es = <<v>>
      \/ c.status # Health(w) /\ ~p /\ es = <<b>>
      \/ c.status # Health(w) /\ p /\ es = Append(<<b>>, v)
  BY WhatIsSaid
<1> HIDE DEF b, v, es
<1>4. \/ c.status = Health(w) /\ ~p /\ Range(es) = {}
      \/ c.status = Health(w) /\ p /\ Range(es) = {v}
      \/ c.status # Health(w) /\ ~p /\ Range(es) = {b}
      \/ c.status # Health(w) /\ p /\ Range(es) = {b, v}
  BY <1>1, <1>3, <1>5
<1>6. ((\E e \in Range(es) : e.kind = "volume") <=> p) /\ ((\E e \in Range(es) : e.kind = "backend") <=> c.status # Health(w))
  BY <1>2, <1>4
<1> QED BY <1>6 DEF es

\* One event more on the road.
LEMMA OneTold ==
    ASSUME NEW q, Road(q), NEW e
    PROVE  /\ Road(Append(q, e)) /\ Range(Append(q, e)) = Range(q) \cup {e}
           /\ \A k : e.kind = k => LastSays(Append(q, e), k, Word(e))
           /\ \A k, x : e.kind # k /\ LastSays(q, k, x) => LastSays(Append(q, e), k, x)
           /\ \A k : NoneOf(Append(q, e), k) <=> NoneOf(q, k) /\ e.kind # k
<1>1. Road(Append(q, e)) /\ Range(Append(q, e)) = Range(q) \cup {e}
  BY RoadGrows
<1>2. \A k : NoneOf(Append(q, e), k) <=> NoneOf(q, k) /\ e.kind # k
  BY <1>1 DEF NoneOf
<1> QED BY <1>1, <1>2, SaysMore

SaidSo(q, r, c, w, x, p) ==
    /\ Road(r) /\ Range(q) \subseteq Range(r) /\ (p => VolumeEvent(x) \in Range(r))
    /\ p => LastSays(r, "volume", Level(x)) /\ ~NoneOf(r, "volume")
    /\ ~p => \A y : LastSays(q, "volume", y) => LastSays(r, "volume", y)
    /\ NoneOf(r, "volume") => NoneOf(q, "volume") /\ ~p
    /\ LastSays(r, "backend", Health(w))
    /\ NoneOf(r, "backend") => NoneOf(q, "backend") /\ c.status = Health(w)
    /\ \A e \in Range(r) : e.kind = "backend" => e \in Range(q) \/ (c.status # Health(w) /\ e.status = Health(w))

LEMMA SaidOnRoad ==
    ASSUME NEW q, Road(q), NEW c, NEW w, NEW x, NEW p \in BOOLEAN, NEW r, r = q \o Says(HealthEvents(c, w), x, p),
           LastSays(q, "backend", c.status)
    PROVE  SaidSo(q, r, c, w, x, p)
<1> DEFINE b == [kind |-> "backend", status |-> Health(w)]
           v == VolumeEvent(x)
           es == Says(HealthEvents(c, w), x, p)
<1>1. PICK S : q \in Seq(S)
  BY DEF Road
<1>2. b.kind = "backend" /\ b.status = Health(w) /\ v.kind = "volume" /\ Word(b) = Health(w) /\ Word(v) = Level(x)
  BY DEF VolumeEvent, Word, Level
<1>3. \/ c.status = Health(w) /\ ~p /\ es = <<>>
      \/ c.status = Health(w) /\ p /\ es = <<v>>
      \/ c.status # Health(w) /\ ~p /\ es = <<b>>
      \/ c.status # Health(w) /\ p /\ es = Append(<<b>>, v)
  BY WhatIsSaid
<1>4. r = q \o es
  OBVIOUS
<1> HIDE DEF b, v, es
<1>5. q \o <<>> = q /\ q \o <<v>> = Append(q, v) /\ q \o <<b>> = Append(q, b)
  BY <1>1
<1>6. q \o Append(<<b>>, v) = Append(Append(q, b), v)
  BY <1>1
<1> DEFINE Goal ==
           /\ Road(r) /\ Range(q) \subseteq Range(r) /\ (p => v \in Range(r))
           /\ p => LastSays(r, "volume", Level(x)) /\ ~NoneOf(r, "volume")
           /\ ~p => \A y : LastSays(q, "volume", y) => LastSays(r, "volume", y)
           /\ NoneOf(r, "volume") => NoneOf(q, "volume") /\ ~p
           /\ LastSays(r, "backend", Health(w))
           /\ NoneOf(r, "backend") => NoneOf(q, "backend") /\ c.status = Health(w)
           /\ \A e \in Range(r) : e.kind = "backend" => e \in Range(q) \/ (c.status # Health(w) /\ e.status = Health(w))
<1> SUFFICES Goal
  BY DEF v, SaidSo
<1>7. CASE c.status = Health(w) /\ ~p /\ es = <<>>
  BY <1>4, <1>5, <1>7
<1>8. CASE c.status = Health(w) /\ p /\ es = <<v>>
  <2>1. r = Append(q, v)
    BY <1>4, <1>5, <1>8
  <2>2. Road(r) /\ Range(r) = Range(q) \cup {v} /\ LastSays(r, "volume", Word(v))
        /\ LastSays(r, "backend", c.status) /\ (NoneOf(r, "backend") => NoneOf(q, "backend")) /\ ~NoneOf(r, "volume")
    BY <1>2, <2>1, OneTold
  <2> QED BY <1>2, <1>8, <2>2
<1>9. CASE c.status # Health(w) /\ ~p /\ es = <<b>>
  <2>1. r = Append(q, b)
    BY <1>4, <1>5, <1>9
  <2>2. Road(r) /\ Range(r) = Range(q) \cup {b} /\ LastSays(r, "backend", Word(b))
        /\ (\A y : LastSays(q, "volume", y) => LastSays(r, "volume", y))
        /\ (NoneOf(r, "volume") => NoneOf(q, "volume")) /\ ~NoneOf(r, "backend")
    BY <1>2, <2>1, OneTold
  <2> QED BY <1>2, <1>9, <2>2
<1>10. CASE c.status # Health(w) /\ p /\ es = Append(<<b>>, v)
  <2> DEFINE m == Append(q, b)
  <2>1. r = Append(m, v)
    BY <1>4, <1>6, <1>10
  <2>2. Road(m) /\ Range(m) = Range(q) \cup {b} /\ LastSays(m, "backend", Word(b)) /\ ~NoneOf(m, "backend")
    BY <1>2, OneTold
  <2> HIDE DEF m
  <2>3. Road(r) /\ Range(r) = Range(m) \cup {v} /\ LastSays(r, "volume", Word(v)) /\ LastSays(r, "backend", Word(b))
        /\ ~NoneOf(r, "backend") /\ ~NoneOf(r, "volume")
    BY <1>2, <2>1, <2>2, OneTold
  <2> QED BY <1>2, <1>10, <2>2, <2>3
<1> QED BY <1>3, <1>7, <1>8, <1>9, <1>10

\* A look of the host, and what it tells then.
HostLooks(p) ==
    /\ world'.up = world.up /\ appCore'.status = Health(world)
    /\ Level(appCore') = IF world.up THEN Level(world') ELSE Level(appCore)
    /\ ~world.up \/ ~p => Level(world') = Level(world)
    /\ p => world.up
    /\ ~p => Level(appCore') = Level(appCore) \/ page.phase = "asked"
    /\ page' = page /\ events' = events \o Says(HealthEvents(appCore, world), world', p)
    /\ odd'.moved = odd.moved \/ (page.phase = "ready" /\ p)
    /\ odd'.recovered = odd.recovered \/ (page.phase = "ready" /\ appCore.status # Health(world))
    /\ odd'.strayed = odd.strayed \/ odd'.strayed
    /\ \A r \in Boots(replies') :
         r \in Boots(replies) \/ (Level(r) = Level(appCore') /\ r.status = appCore'.status)
    /\ \A c \in Range(sent) : c.op = "set" =>
         c \in Range(sent') \/ odd'.strayed \/ (p /\ c.vol = world'.vol)

LEMMA LooksKeep ==
    ASSUME MixerInv, NEW p \in BOOLEAN, HostLooks(p), AsksOnce'
    PROVE  Road(events') /\ VolumeTold' /\ HealthTold' /\ AlarmIsTrue' /\ ThumbWaits'
<1>1. Road(events) /\ VolumeTold /\ HealthTold /\ AlarmIsTrue /\ ThumbWaits
  BY DEF MixerInv, MixerShape
<1>2. events' = events \o Says(HealthEvents(appCore, world), world', p) /\ page' = page
  BY DEF HostLooks
<1>3. LastSays(events, "backend", appCore.status)
  BY <1>1 DEF HealthTold
<1>4. /\ Road(events') /\ Range(events) \subseteq Range(events') /\ (p => VolumeEvent(world') \in Range(events'))
      /\ p => LastSays(events', "volume", Level(world')) /\ ~NoneOf(events', "volume")
      /\ ~p => \A y : LastSays(events, "volume", y) => LastSays(events', "volume", y)
      /\ NoneOf(events', "volume") => NoneOf(events, "volume") /\ ~p
      /\ LastSays(events', "backend", Health(world))
      /\ NoneOf(events', "backend") => NoneOf(events, "backend") /\ appCore.status = Health(world)
      /\ \A e \in Range(events') : e.kind = "backend" =>
           e \in Range(events) \/ (appCore.status # Health(world) /\ e.status = Health(world))
  <2>1. SaidSo(events, events', appCore, world, world', p)
    BY <1>1, <1>2, <1>3, SaidOnRoad
  <2> QED BY <2>1 DEF SaidSo
<1>5. appCore'.status = Health(world) /\ world'.up = world.up /\ (world.up => Health(world) = "ready")
      /\ (~world.up => Health(world) = "degraded") /\ world.up \in BOOLEAN /\ odd.moved \in BOOLEAN
  BY DEF HostLooks, Health, MixerInv, MixerShape
<1>6. \A r \in Boots(replies') : r \in Boots(replies) \/ (Level(r) = Level(appCore') /\ r.status = appCore'.status)
  BY DEF HostLooks
<1>7. VolumeTold'
  <2> SUFFICES ASSUME ~odd'.moved PROVE VolumeTold'
    BY DEF VolumeTold
  <2>1. Level(appCore') = IF world.up THEN Level(world') ELSE Level(appCore)
    BY DEF HostLooks
  <2>2. /\ ~world.up \/ ~p => Level(world') = Level(world)
        /\ p => world.up
        /\ ~p => Level(appCore') = Level(appCore) \/ page.phase = "asked"
    BY DEF HostLooks
  <2>3. ~odd.moved \/ (page.phase = "ready" /\ p)
    BY <1>5 DEF HostLooks
  <2>4. ~odd.moved /\ page.phase # "ready" => Level(appCore) = Level(world)
    BY <1>1 DEF VolumeTold
  <2>5. page.phase # "ready" => Level(appCore') = Level(world')
    BY <2>1, <2>2, <2>3, <2>4
  <2>6. ~p => ~odd.moved /\ Level(appCore') = Level(appCore)
    BY <2>1, <2>2, <2>3, <2>4
  <2>7. LastSays(events', "volume", Level(appCore'))
    <3>1. CASE p
      BY <1>4, <2>1, <2>2, <3>1
    <3>2. CASE ~p
      <4>1. LastSays(events, "volume", Level(appCore))
        BY <1>1, <2>6, <3>2 DEF VolumeTold
      <4> QED BY <1>4, <2>6, <3>2, <4>1
    <3> QED BY <3>1, <3>2
  <2>8. NoneOf(events', "volume") =>
           /\ page.phase = "ready" \/ page.raced => Level(page) = Level(appCore')
           /\ ~page.raced => \A r \in Boots(replies') : Level(r) = Level(appCore')
    BY <1>1, <1>4, <1>6, <2>6 DEF VolumeTold
  <2>9. Level(page') = Level(page)
    BY <1>2
  <2> QED BY <1>2, <2>5, <2>7, <2>8, <2>9 DEF VolumeTold
<1>8. HealthTold'
  <2>1. LastSays(events', "backend", appCore'.status)
    BY <1>4, <1>5
  <2>2. NoneOf(events', "backend") /\ appCore'.status = "degraded" =>
         /\ page.phase = "ready" => page.notice # None
         /\ page.notice # None \/ \A r \in Boots(replies') : r.status = "degraded"
    BY <1>1, <1>4, <1>5, <1>6 DEF HealthTold
  <2> QED BY <1>2, <2>1, <2>2 DEF HealthTold
<1>9. AlarmIsTrue'
  <2> SUFFICES ASSUME ~odd'.recovered PROVE AlarmIsTrue'
    BY DEF AlarmIsTrue
  <2>1. odd.recovered => page.phase = "ready" /\ appCore.status # Health(world)
    BY DEF HostLooks
  <2>2. page.phase = "ready" /\ NoneOf(events', "backend") /\ page.notice = "degraded" => appCore'.status = "degraded"
    BY <1>1, <1>4, <1>5, <2>1 DEF AlarmIsTrue
  <2>3. page.phase # "ready" => (appCore'.status = "degraded" => ~world'.up)
    BY <1>5
  <2>4. ASSUME page.phase # "ready", appCore'.status # "degraded"
        PROVE  /\ page.notice # "degraded" /\ \A r \in Boots(replies') : r.status # "degraded"
               /\ \A e \in Range(events') : e.kind = "backend" => e.status # "degraded"
    <3>1. world.up /\ Health(world) = "ready" /\ appCore'.status = "ready"
      BY <1>5, <2>4
    <3>2. appCore.status # "degraded"
      BY <1>1, <2>1, <2>4, <3>1 DEF AlarmIsTrue
    <3>3. /\ page.notice # "degraded" /\ \A r \in Boots(replies) : r.status # "degraded"
          /\ \A e \in Range(events) : e.kind = "backend" => e.status # "degraded"
      BY <1>1, <2>1, <2>4, <3>2 DEF AlarmIsTrue
    <3> QED BY <1>4, <1>6, <3>1, <3>3
  <2> QED BY <1>2, <2>2, <2>3, <2>4 DEF AlarmIsTrue
<1>10. ThumbWaits'
  <2>1. odd.strayed => odd'.strayed
    BY DEF HostLooks
  <2>2. \A c \in Range(sent) : c.op = "set" => c \in Range(sent') \/ odd'.strayed \/ (p /\ c.vol = world'.vol)
    BY DEF HostLooks
  <2>3. VolumeEvent(world').kind = "volume" /\ VolumeEvent(world').vol = world'.vol
    BY DEF VolumeEvent
  <2> QED BY <1>1, <1>2, <1>4, <2>1, <2>2, <2>3 DEF ThumbWaits
<1> QED BY <1>4, <1>7, <1>8, <1>9, <1>10

\* Two fields of the world change.
LEMMA WorldChanges ==
    ASSUME NEW r, NEW u, NEW v, NEW m, NEW l, r = [up |-> u, vol |-> v, muted |-> m, live |-> l], NEW a, NEW b,
           NEW s, s = [r EXCEPT !.vol = a, !.muted = b] \/ s = [r EXCEPT !.muted = b, !.vol = a]
    PROVE  s = [up |-> u, vol |-> s.vol, muted |-> s.muted, live |-> l] /\ s.vol = a /\ s.muted = b
<1>1. CASE s = [r EXCEPT !.vol = a, !.muted = b]
  BY <1>1
<1>2. CASE s = [r EXCEPT !.muted = b, !.vol = a]
  BY <1>2
<1> QED BY <1>1, <1>2

\* And of what the core holds.
LEMMA CoreChanges ==
    ASSUME NEW r, NEW v, NEW m, NEW x, NEW t, r = [vol |-> v, muted |-> m, restore |-> x, status |-> t], NEW a, NEW b,
           NEW s, s = [r EXCEPT !.vol = a, !.muted = b]
    PROVE  s = [vol |-> a, muted |-> b, restore |-> x, status |-> t]
OBVIOUS

LEMMA LookedSees ==
    ASSUME MixerShape, NEW c, NEW v, c = [vol |-> appCore.vol, muted |-> appCore.muted, restore |-> v, status |-> appCore.status],
           NEW w, w.up = world.up, appCore' = Looked(c, w)
    PROVE  /\ appCore' = [vol |-> appCore'.vol, muted |-> appCore'.muted, restore |-> appCore'.restore, status |-> appCore'.status]
           /\ appCore'.status \in {"ready", "degraded"} /\ appCore'.status = Health(world)
           /\ Level(appCore') = IF world.up THEN Level(w) ELSE Level(appCore)
<1>1. Health(w) = Health(world) /\ Health(world) \in {"ready", "degraded"}
  BY DEF Health
<1>2. Noted(c, w) = [vol |-> appCore.vol, muted |-> appCore.muted, restore |-> v, status |-> Health(world)]
  BY <1>1 DEF Noted
<1>3. CASE world.up
  <2>1. appCore' = [vol |-> w.vol, muted |-> w.muted, restore |-> v, status |-> Health(world)]
    <3> DEFINE n == Noted(c, w)
    <3>1. appCore' = [n EXCEPT !.vol = w.vol, !.muted = w.muted]
      BY <1>1, <1>3 DEF Looked
    <3>2. n = [vol |-> appCore.vol, muted |-> appCore.muted, restore |-> v, status |-> Health(world)]
      BY <1>2
    <3> HIDE DEF n
    <3> QED BY <3>1, <3>2, CoreChanges
  <2> QED BY <1>1, <1>3, <2>1 DEF Level
<1>4. CASE ~world.up
  <2>1. appCore' = [vol |-> appCore.vol, muted |-> appCore.muted, restore |-> v, status |-> Health(world)]
    BY <1>2, <1>4 DEF Looked
  <2> QED BY <1>1, <1>4, <2>1 DEF Level
<1> QED BY <1>3, <1>4

LEMMA EmitsMarks ==
    ASSUME MixerShape, NEW x, NEW p \in BOOLEAN, Emits(Says(HealthEvents(appCore, world), x, p))
    PROVE  /\ odd' = [moved |-> odd'.moved, recovered |-> odd'.recovered, strayed |-> odd'.strayed]
           /\ odd'.moved \in BOOLEAN /\ odd'.recovered \in BOOLEAN /\ odd'.strayed = odd.strayed
           /\ odd'.moved = odd.moved \/ (page.phase = "ready" /\ p)
           /\ odd'.recovered = odd.recovered \/ (page.phase = "ready" /\ appCore.status # Health(world))
           /\ events' = events \o Says(HealthEvents(appCore, world), x, p)
<1> DEFINE es == Says(HealthEvents(appCore, world), x, p)
           a == page.phase = "ready" /\ \E e \in Range(es) : e.kind = "volume"
           b == page.phase = "ready" /\ \E e \in Range(es) : e.kind = "backend"
<1>1. odd' = [odd EXCEPT !.moved = @ /\ ~a, !.recovered = @ /\ ~b]
  BY DEF Emits
<1>2. (a => page.phase = "ready" /\ p) /\ (b => page.phase = "ready" /\ appCore.status # Health(world))
  BY KindsSaid
<1>3. a \in BOOLEAN /\ b \in BOOLEAN
  OBVIOUS
<1>4. events' = events \o es
  BY DEF Emits, Told
<1> HIDE DEF a, b, es
<1>5. odd' = [moved |-> odd.moved /\ ~a, recovered |-> odd.recovered /\ ~b, strayed |-> odd.strayed]
  BY <1>1 DEF MixerShape
<1>6. odd'.moved \in BOOLEAN /\ odd'.recovered \in BOOLEAN /\ (~a => odd'.moved = odd.moved) /\ (~b => odd'.recovered = odd.recovered)
  BY <1>3, <1>5 DEF MixerShape
<1>7. odd' = [moved |-> odd'.moved, recovered |-> odd'.recovered, strayed |-> odd'.strayed] /\ odd'.strayed = odd.strayed
  BY <1>5
<1> QED BY <1>2, <1>4, <1>6, <1>7 DEF es

\* The host takes the first command.
LEMMA Runs1 ==
    ASSUME MixerInv, sent # <<>>, sent' = Tail(sent)
    PROVE  /\ Hauls(sent, sent', {"bootstrap"}) /\ Road(sent')
           /\ \A c \in Range(sent) : c = Head(sent) \/ c \in Range(sent')
           /\ Head(sent) \in Range(sent)
<1>1. Road(sent') /\ Range(sent) = Range(sent') \cup {Head(sent)}
  BY RoadMoves DEF MixerInv, MixerShape
<1>2. Hauls(sent, sent', {"bootstrap"})
  BY DEF Hauls
<1> QED BY <1>1, <1>2

LEMMA PollLooks == ASSUME MixerInv, PollServer PROVE MixerInv'
<1> DEFINE p == Changed(appCore, world)
<1>1. MixerShape /\ p \in BOOLEAN
  BY DEF MixerInv, Changed
<1>2. world' = world /\ page' = page /\ sent' = sent /\ replies' = replies /\ appCore' = Looked(appCore, world)
  BY DEF PollServer
<1>3. Emits(Says(HealthEvents(appCore, world), world', p))
  BY <1>2 DEF PollServer, Says
<1>4. /\ appCore' = [vol |-> appCore'.vol, muted |-> appCore'.muted, restore |-> appCore'.restore, status |-> appCore'.status]
      /\ appCore'.status \in {"ready", "degraded"} /\ appCore'.status = Health(world)
      /\ Level(appCore') = IF world.up THEN Level(world) ELSE Level(appCore)
  BY <1>1, <1>2, LookedSees DEF MixerShape
<1>5. /\ odd' = [moved |-> odd'.moved, recovered |-> odd'.recovered, strayed |-> odd'.strayed]
      /\ odd'.moved \in BOOLEAN /\ odd'.recovered \in BOOLEAN /\ odd'.strayed = odd.strayed
      /\ odd'.moved = odd.moved \/ (page.phase = "ready" /\ p)
      /\ odd'.recovered = odd.recovered \/ (page.phase = "ready" /\ appCore.status # Health(world))
      /\ events' = events \o Says(HealthEvents(appCore, world), world', p)
  BY <1>1, <1>3, EmitsMarks
<1>6. (p => world.up) /\ (world.up /\ ~p => Level(world) = Level(appCore))
  BY DEF Changed, Level
<1>7. AsksOnce'
  <2>1. Hauls(sent, sent', {"bootstrap"}) /\ Hauls(replies, replies', {"bootstrap"})
    BY <1>2 DEF Hauls
  <2> QED BY <1>2, <2>1, RoadsKeep
<1> HIDE DEF p
<1>8. HostLooks(p)
  BY <1>2, <1>4, <1>5, <1>6 DEF HostLooks
<1>9. Road(events') /\ VolumeTold' /\ HealthTold' /\ AlarmIsTrue' /\ ThumbWaits'
  BY <1>1, <1>7, <1>8, LooksKeep
<1>10. MixerShape'
  BY <1>1, <1>2, <1>4, <1>5, <1>9 DEF MixerShape
<1> QED BY <1>7, <1>9, <1>10 DEF MixerInv

\* The bootstrap, which looks and tells nobody of the volume.
LEMMA BootstrapLooks == ASSUME MixerInv, GetBootstrap PROVE MixerInv'
<1>1. MixerShape /\ AsksOnce
  BY DEF MixerInv
<1>2. world' = world /\ page' = page /\ appCore' = Looked(appCore, world)
      /\ sent # <<>> /\ sent' = Tail(sent) /\ Head(sent).op = "bootstrap"
  BY DEF GetBootstrap, Run
<1>3. Emits(Says(HealthEvents(appCore, world), world', FALSE))
  <2>1. Says(HealthEvents(appCore, world), world', FALSE) = HealthEvents(appCore, world)
    <3>1. \/ appCore.status = Health(world) /\ Says(HealthEvents(appCore, world), world', FALSE) = <<>>
          \/ appCore.status # Health(world) /\ Says(HealthEvents(appCore, world), world', FALSE)
                                                = <<[kind |-> "backend", status |-> Health(world)]>>
      BY WhatIsSaid
    <3> QED BY <3>1 DEF HealthEvents
  <2> QED BY <2>1 DEF GetBootstrap
<1>4. /\ appCore' = [vol |-> appCore'.vol, muted |-> appCore'.muted, restore |-> appCore'.restore, status |-> appCore'.status]
      /\ appCore'.status \in {"ready", "degraded"} /\ appCore'.status = Health(world)
      /\ Level(appCore') = IF world.up THEN Level(world) ELSE Level(appCore)
  BY <1>1, <1>2, LookedSees DEF MixerShape
<1>5. /\ odd' = [moved |-> odd'.moved, recovered |-> odd'.recovered, strayed |-> odd'.strayed]
      /\ odd'.moved \in BOOLEAN /\ odd'.recovered \in BOOLEAN /\ odd'.strayed = odd.strayed
      /\ odd'.moved = odd.moved \/ (page.phase = "ready" /\ FALSE)
      /\ odd'.recovered = odd.recovered \/ (page.phase = "ready" /\ appCore.status # Health(world))
      /\ events' = events \o Says(HealthEvents(appCore, world), world', FALSE)
  BY <1>1, <1>3, EmitsMarks
<1> DEFINE b == [op |-> "bootstrap", vol |-> appCore'.vol, muted |-> appCore'.muted,
                 status |-> appCore'.status, rows |-> List(link, world)]
<1>6. replies' = Append(replies, b)
  <2>1. PICK S : replies \in Seq(S)
    BY <1>1 DEF MixerShape, Road
  <2>2. replies' = replies \o <<b>>
    BY DEF GetBootstrap, Returned
  <2> HIDE DEF b
  <2> QED BY <2>1, <2>2
<1>7. b.op = "bootstrap" /\ Level(b) = Level(appCore') /\ b.status = appCore'.status
  BY DEF Level
<1> HIDE DEF b
<1>8. Road(sent') /\ (\A c \in Range(sent) : c = Head(sent) \/ c \in Range(sent')) /\ Head(sent) \in Range(sent)
  BY <1>2, Runs1
<1>9. ~Lacks(sent, {"bootstrap"}) /\ page.phase = "asked" /\ Lacks(replies, {"bootstrap"})
  BY <1>1, <1>2, <1>8 DEF AsksOnce, Lacks
<1>10. Road(replies') /\ Range(replies') = Range(replies) \cup {b} /\ AtMostOne(replies', {"bootstrap"})
  BY <1>1, <1>6, <1>9, RoadGrows, OneMore DEF MixerShape
<1>11. Lacks(sent', {"bootstrap"}) /\ AtMostOne(sent', {"bootstrap"})
  BY <1>1, <1>2, OneLess DEF AsksOnce, MixerShape
<1>12. AsksOnce'
  BY <1>1, <1>2, <1>9, <1>10, <1>11 DEF AsksOnce
<1>13. \A r \in Boots(replies') : r \in Boots(replies) \/ (Level(r) = Level(appCore') /\ r.status = appCore'.status)
  BY <1>7, <1>10 DEF Boots
<1>14. \A c \in Range(sent) : c.op = "set" => c \in Range(sent')
  BY <1>2, <1>8
<1>15. HostLooks(FALSE)
  BY <1>2, <1>4, <1>5, <1>9, <1>13, <1>14 DEF HostLooks
<1>16. Road(events') /\ VolumeTold' /\ HealthTold' /\ AlarmIsTrue' /\ ThumbWaits'
  BY <1>12, <1>15, LooksKeep
<1>17. MixerShape'
  BY <1>1, <1>2, <1>4, <1>5, <1>8, <1>10, <1>16 DEF MixerShape
<1> QED BY <1>12, <1>16, <1>17 DEF MixerInv

\* A handler of the volume that publishes.
LEMMA HandlesLook ==
    ASSUME MixerInv, sent # <<>>, sent' = Tail(sent), Head(sent).op # "bootstrap",
           NEW w, w = [up |-> world.up, vol |-> w.vol, muted |-> w.muted, live |-> world.live], ~world.up => Level(w) = Level(world),
           NEW c, NEW v, c = [vol |-> appCore.vol, muted |-> appCore.muted, restore |-> v, status |-> appCore.status],
           Handles(w, c), Head(sent).op = "set" => world.up /\ Head(sent).vol = w.vol
    PROVE  MixerInv'
<1> DEFINE p == world.up
<1>1. MixerShape /\ p \in BOOLEAN /\ w.up = world.up
  BY DEF MixerInv, MixerShape
<1>2. world' = w /\ page' = page /\ replies' = replies /\ appCore' = Looked(c, w)
  BY DEF Handles
<1>3. Emits(Says(HealthEvents(appCore, world), world', p))
  <2>1. c.status = appCore.status /\ Health(w) = Health(world)
    BY <1>1 DEF Health
  <2>2. HealthEvents(c, w) = HealthEvents(appCore, world)
    BY <2>1 DEF HealthEvents
  <2>3. PublishEvents(c, w) = Says(HealthEvents(appCore, world), w, p)
    BY <1>1, <2>2 DEF PublishEvents, Says
  <2> QED BY <1>2, <2>3 DEF Handles
<1>4. /\ appCore' = [vol |-> appCore'.vol, muted |-> appCore'.muted, restore |-> appCore'.restore, status |-> appCore'.status]
      /\ appCore'.status \in {"ready", "degraded"} /\ appCore'.status = Health(world)
      /\ Level(appCore') = IF world.up THEN Level(w) ELSE Level(appCore)
  BY <1>1, <1>2, LookedSees
<1>5. /\ odd' = [moved |-> odd'.moved, recovered |-> odd'.recovered, strayed |-> odd'.strayed]
      /\ odd'.moved \in BOOLEAN /\ odd'.recovered \in BOOLEAN /\ odd'.strayed = odd.strayed
      /\ odd'.moved = odd.moved \/ (page.phase = "ready" /\ p)
      /\ odd'.recovered = odd.recovered \/ (page.phase = "ready" /\ appCore.status # Health(world))
      /\ events' = events \o Says(HealthEvents(appCore, world), world', p)
  BY <1>1, <1>3, EmitsMarks
<1>6. Road(sent') /\ Hauls(sent, sent', {"bootstrap"}) /\ (\A k \in Range(sent) : k = Head(sent) \/ k \in Range(sent'))
  BY Runs1
<1>7. AsksOnce'
  <2>1. Hauls(replies, replies', {"bootstrap"})
    BY <1>2 DEF Hauls
  <2> QED BY <1>2, <1>6, <2>1, RoadsKeep
<1> HIDE DEF p
<1>8. \A k \in Range(sent) : k.op = "set" => k \in Range(sent') \/ odd'.strayed \/ (p /\ k.vol = world'.vol)
  BY <1>2, <1>6 DEF p
<1>9. HostLooks(p)
  <2>1. p => world.up
    BY DEF p
  <2>2. ~p => ~world.up
    BY DEF p
  <2> QED BY <1>1, <1>2, <1>4, <1>5, <1>8, <2>1, <2>2 DEF HostLooks
<1>10. Road(events') /\ VolumeTold' /\ HealthTold' /\ AlarmIsTrue' /\ ThumbWaits'
  BY <1>1, <1>7, <1>9, LooksKeep
<1>11. MixerShape'
  BY <1>1, <1>2, <1>4, <1>5, <1>6, <1>10 DEF MixerShape
<1> QED BY <1>7, <1>10, <1>11 DEF MixerInv

\* A volume that could not be set: the server is down, and the slide is lost.
LEMMA LostSlideLooks == ASSUME MixerInv, SetVolume, ~world.up PROVE MixerInv'
<1>1. MixerShape /\ AsksOnce
  BY DEF MixerInv
<1>2. world' = world /\ page' = page /\ appCore' = Looked(appCore, world) /\ replies' = replies
      /\ sent # <<>> /\ sent' = Tail(sent) /\ Head(sent).op = "set"
      /\ odd' = [odd EXCEPT !.strayed = TRUE] /\ events' = events \o HealthEvents(appCore, world)
  BY DEF SetVolume, Run, Told
<1>3. events' = events \o Says(HealthEvents(appCore, world), world', FALSE)
  <2>1. Says(HealthEvents(appCore, world), world', FALSE) = HealthEvents(appCore, world)
    <3>1. \/ appCore.status = Health(world) /\ Says(HealthEvents(appCore, world), world', FALSE) = <<>>
          \/ appCore.status # Health(world) /\ Says(HealthEvents(appCore, world), world', FALSE)
                                                = <<[kind |-> "backend", status |-> Health(world)]>>
      BY WhatIsSaid
    <3> QED BY <3>1 DEF HealthEvents
  <2> QED BY <1>2, <2>1
<1>4. /\ appCore' = [vol |-> appCore'.vol, muted |-> appCore'.muted, restore |-> appCore'.restore, status |-> appCore'.status]
      /\ appCore'.status \in {"ready", "degraded"} /\ appCore'.status = Health(world)
      /\ Level(appCore') = IF world.up THEN Level(world) ELSE Level(appCore)
  BY <1>1, <1>2, LookedSees DEF MixerShape
<1>5. odd' = [moved |-> odd.moved, recovered |-> odd.recovered, strayed |-> TRUE]
  BY <1>1, <1>2 DEF MixerShape
<1>6. Road(sent') /\ Hauls(sent, sent', {"bootstrap"})
  BY <1>2, Runs1
<1>7. AsksOnce'
  <2>1. Hauls(replies, replies', {"bootstrap"})
    BY <1>2 DEF Hauls
  <2> QED BY <1>2, <1>6, <2>1, RoadsKeep
<1>8. HostLooks(FALSE)
  BY <1>2, <1>3, <1>4, <1>5 DEF HostLooks
<1>9. Road(events') /\ VolumeTold' /\ HealthTold' /\ AlarmIsTrue' /\ ThumbWaits'
  BY <1>7, <1>8, LooksKeep
<1>10. MixerShape'
  BY <1>1, <1>2, <1>4, <1>5, <1>6, <1>9 DEF MixerShape
<1> QED BY <1>7, <1>9, <1>10 DEF MixerInv

LEMMA VolumeCommandsLook ==
    ASSUME MixerInv, (SetVolume /\ world.up) \/ ResetVolume \/ (ToggleMute /\ world.up)
    PROVE  MixerInv'
<1>1. MixerShape
  BY DEF MixerInv
<1>2. ASSUME NEW v PROVE [appCore EXCEPT !.restore = v]
                           = [vol |-> appCore.vol, muted |-> appCore.muted, restore |-> v, status |-> appCore.status]
  BY <1>1 DEF MixerShape
<1>3. appCore = [vol |-> appCore.vol, muted |-> appCore.muted, restore |-> appCore.restore, status |-> appCore.status]
  BY <1>1 DEF MixerShape
<1>4. CASE SetVolume /\ world.up
  <2>1. sent # <<>> /\ sent' = Tail(sent) /\ Head(sent).op = "set"
    BY <1>4 DEF SetVolume, Run
  <2> DEFINE v == Head(sent).vol
             w == [world EXCEPT !.vol = v, !.muted = @ /\ v = 0]
  <2>2. Handles(w, IF v > 0 THEN [appCore EXCEPT !.restore = None] ELSE appCore)
    BY <1>4 DEF SetVolume
  <2> DEFINE b == world.muted /\ v = 0
  <2>6. w = [world EXCEPT !.vol = v, !.muted = b]
    OBVIOUS
  <2> HIDE DEF w, b
  <2>3. w = [up |-> world.up, vol |-> w.vol, muted |-> w.muted, live |-> world.live] /\ w.vol = Head(sent).vol
    BY <1>1, <2>6, WorldChanges DEF MixerShape
  <2>4. CASE v > 0
    <3>1. Handles(w, [appCore EXCEPT !.restore = None])
      BY <2>2, <2>4
    <3> QED BY <1>2, <1>4, <2>1, <2>3, <3>1, HandlesLook
  <2>5. CASE ~(v > 0)
    <3>1. Handles(w, appCore)
      BY <2>2, <2>5
    <3> QED BY <1>3, <1>4, <2>1, <2>3, <3>1, HandlesLook
  <2> QED BY <2>4, <2>5
<1>5. CASE ResetVolume
  <2>1. sent # <<>> /\ sent' = Tail(sent) /\ Head(sent).op = "reset"
    BY <1>5 DEF ResetVolume, Run
  <2>2. CASE world.up
    <3> DEFINE w == [world EXCEPT !.vol = Half, !.muted = FALSE]
    <3>1. Handles(w, [appCore EXCEPT !.restore = None])
      BY <1>5, <2>2 DEF ResetVolume
    <3>3. w = [world EXCEPT !.vol = Half, !.muted = FALSE]
      OBVIOUS
    <3> HIDE DEF w
    <3>2. w = [up |-> world.up, vol |-> w.vol, muted |-> w.muted, live |-> world.live]
      BY <1>1, <3>3, WorldChanges DEF MixerShape
    <3> QED BY <1>2, <2>1, <2>2, <3>1, <3>2, HandlesLook
  <2>3. CASE ~world.up
    <3>1. Handles(world, appCore)
      BY <1>5, <2>3 DEF ResetVolume
    <3>2. world = [up |-> world.up, vol |-> world.vol, muted |-> world.muted, live |-> world.live]
      BY <1>1 DEF MixerShape
    <3> QED BY <1>3, <2>1, <3>1, <3>2, HandlesLook
  <2> QED BY <2>2, <2>3
<1>6. CASE ToggleMute /\ world.up
  <2>1. sent # <<>> /\ sent' = Tail(sent) /\ Head(sent).op = "mute"
    BY <1>6 DEF ToggleMute, Run
  <2>2. CASE world.muted
    <3> DEFINE w == [world EXCEPT !.muted = FALSE, !.vol = IF appCore.restore = None THEN @ ELSE appCore.restore]
    <3>1. Handles(w, [appCore EXCEPT !.restore = None])
      BY <1>6, <2>2 DEF ToggleMute
    <3> DEFINE a == IF appCore.restore = None THEN world.vol ELSE appCore.restore
    <3>3. w = [world EXCEPT !.muted = FALSE, !.vol = a]
      OBVIOUS
    <3> HIDE DEF w, a
    <3>2. w = [up |-> world.up, vol |-> w.vol, muted |-> w.muted, live |-> world.live]
      BY <1>1, <3>3, WorldChanges DEF MixerShape
    <3> QED BY <1>2, <1>6, <2>1, <3>1, <3>2, HandlesLook
  <2>3. CASE ~world.muted
    <3> DEFINE w == [world EXCEPT !.muted = TRUE, !.vol = 0]
    <3>1. Handles(w, [appCore EXCEPT !.restore = world.vol])
      BY <1>6, <2>3 DEF ToggleMute
    <3>3. w = [world EXCEPT !.muted = TRUE, !.vol = 0]
      OBVIOUS
    <3> HIDE DEF w
    <3>2. w = [up |-> world.up, vol |-> w.vol, muted |-> w.muted, live |-> world.live]
      BY <1>1, <3>3, WorldChanges DEF MixerShape
    <3> QED BY <1>2, <1>6, <2>1, <3>1, <3>2, HandlesLook
  <2> QED BY <2>2, <2>3
<1> QED BY <1>4, <1>5, <1>6

\* What another program does to the output, and what becomes of the server.
LEMMA WorldTurns ==
    ASSUME MixerInv, (\E v \in Volumes, m \in BOOLEAN : Meddle(v, m)) \/ ServerEnds \/ ServerStarts
    PROVE  MixerInv'
<1>1. MixerShape /\ VolumeTold /\ HealthTold /\ AlarmIsTrue /\ ThumbWaits /\ AsksOnce
  BY DEF MixerInv
<1>2. page' = page /\ appCore' = appCore /\ sent' = sent /\ events' = events /\ replies' = replies
  BY DEF Meddle, ServerEnds, ServerStarts, channel
<1>3. /\ world' = [up |-> world'.up, vol |-> world'.vol, muted |-> world'.muted, live |-> world'.live] /\ world'.up \in BOOLEAN
      /\ odd' = [moved |-> odd'.moved, recovered |-> odd'.recovered, strayed |-> odd'.strayed]
      /\ odd'.moved \in BOOLEAN /\ odd'.recovered \in BOOLEAN /\ odd'.strayed = odd.strayed
      /\ (odd.moved => odd'.moved) /\ (odd.recovered => odd'.recovered)
      /\ page.phase = "ready" \/ odd'.moved \/ Level(world') = Level(world)
      /\ page.phase = "ready" \/ odd'.recovered \/ ~world'.up \/ world'.up = world.up
  <2>1. ASSUME NEW v \in Volumes, NEW m \in BOOLEAN, Meddle(v, m)
        PROVE  /\ world' = [up |-> world.up, vol |-> v, muted |-> m, live |-> world.live]
               /\ odd' = [moved |-> odd.moved \/ page.phase # "ready", recovered |-> odd.recovered, strayed |-> odd.strayed]
    <3>1. world' = [world EXCEPT !.vol = v, !.muted = m]
      BY <2>1 DEF Meddle
    <3>2. world' = [up |-> world.up, vol |-> world'.vol, muted |-> world'.muted, live |-> world.live]
          /\ world'.vol = v /\ world'.muted = m
      BY <1>1, <3>1, WorldChanges DEF MixerShape
    <3>3. odd' = [odd EXCEPT !.moved = odd.moved \/ page.phase # "ready"]
      BY <2>1 DEF Meddle
    <3> DEFINE b == odd.moved \/ page.phase # "ready"
    <3>4. odd' = [odd EXCEPT !.moved = b]
      BY <3>3
    <3> HIDE DEF b
    <3>5. odd' = [moved |-> b, recovered |-> odd.recovered, strayed |-> odd.strayed]
      BY <1>1, <3>4 DEF MixerShape
    <3> QED BY <3>2, <3>5 DEF b
  <2>2. CASE \E v \in Volumes, m \in BOOLEAN : Meddle(v, m)
    <3>1. PICK v \in Volumes, m \in BOOLEAN : Meddle(v, m)
      BY <2>2
    <3> DEFINE b == odd.moved \/ page.phase # "ready"
    <3>2. /\ world' = [up |-> world.up, vol |-> v, muted |-> m, live |-> world.live]
          /\ odd' = [moved |-> b, recovered |-> odd.recovered, strayed |-> odd.strayed]
      BY <2>1, <3>1
    <3>3. b \in BOOLEAN /\ (odd.moved => b) /\ (page.phase = "ready" \/ b)
      BY <1>1 DEF MixerShape
    <3> HIDE DEF b
    <3> QED BY <1>1, <3>2, <3>3 DEF MixerShape
  <2>3. CASE ServerEnds
    <3>1. world' = [world EXCEPT !.up = FALSE, !.live = NoRows] /\ odd' = odd
      BY <2>3 DEF ServerEnds
    <3> DEFINE l == NoRows
    <3>2. world' = [world EXCEPT !.up = FALSE, !.live = l]
      BY <3>1
    <3> HIDE DEF l
    <3>3. world' = [up |-> FALSE, vol |-> world.vol, muted |-> world.muted, live |-> l]
      BY <1>1, <3>2 DEF MixerShape
    <3> QED BY <1>1, <3>1, <3>3 DEF MixerShape, Level
  <2>4. CASE ServerStarts
    <3>1. world' = [world EXCEPT !.up = TRUE]
      BY <2>4 DEF ServerStarts
    <3>2. world' = [up |-> TRUE, vol |-> world.vol, muted |-> world.muted, live |-> world.live]
      BY <1>1, <3>1 DEF MixerShape
    <3> DEFINE b == odd.recovered \/ page.phase # "ready"
    <3>4. odd' = [odd EXCEPT !.recovered = b]
      BY <2>4 DEF ServerStarts
    <3> HIDE DEF b
    <3>5. odd' = [moved |-> odd.moved, recovered |-> b, strayed |-> odd.strayed]
      BY <1>1, <3>4 DEF MixerShape
    <3> QED BY <1>1, <3>2, <3>5 DEF MixerShape, Level, b
  <2> QED BY <2>2, <2>3, <2>4
<1>4. MixerShape'
  BY <1>1, <1>2, <1>3 DEF MixerShape
<1>5. VolumeTold'
  <2>1. Level(page') = Level(page) /\ Level(appCore') = Level(appCore) /\ Boots(replies') = Boots(replies)
    BY <1>2
  <2> QED BY <1>1, <1>2, <1>3, <2>1 DEF VolumeTold
<1>6. HealthTold'
  BY <1>1, <1>2 DEF HealthTold
<1>7. AlarmIsTrue'
  BY <1>1, <1>2, <1>3 DEF AlarmIsTrue
<1>8. ThumbWaits'
  BY <1>1, <1>2, <1>3 DEF ThumbWaits
<1>9. AsksOnce'
  BY <1>1, <1>2 DEF AsksOnce
<1> QED BY <1>4, <1>5, <1>6, <1>7, <1>8, <1>9 DEF MixerInv

\* The thumb moves, the command follows.
LEMMA SlidesWait == ASSUME MixerInv, NEW x \in Volumes, SlideSystem(x) PROVE MixerInv'
<1>1. MixerShape /\ VolumeTold /\ HealthTold /\ AlarmIsTrue /\ ThumbWaits /\ AsksOnce
  BY DEF MixerInv
<1>2. world' = world /\ appCore' = appCore /\ events' = events /\ replies' = replies
  BY DEF SlideSystem, UnchangedHost
<1> DEFINE c == [op |-> "set", vol |-> x]
<1>3. sent' = Append(sent, c)
  BY DEF SlideSystem, Invoke
<1>4. c.op = "set" /\ c.vol = x
  OBVIOUS
<1> HIDE DEF c
<1>5. page' = [phase |-> page.phase, vol |-> page.vol, muted |-> page.muted, raced |-> page.raced,
               notice |-> page.notice, thumb |-> x, rows |-> page.rows, drag |-> page.drag]
  BY <1>1 DEF SlideSystem, MixerShape
<1> DEFINE b == odd.strayed \/ page.phase # "ready"
<1>6. odd' = [odd EXCEPT !.strayed = b]
  BY DEF SlideSystem
<1>7. b \in BOOLEAN /\ (page.phase # "ready" => b) /\ (odd.strayed => b)
  BY <1>1 DEF MixerShape
<1> HIDE DEF b
<1>8. odd' = [moved |-> odd.moved, recovered |-> odd.recovered, strayed |-> b]
  BY <1>1, <1>6 DEF MixerShape
<1>9. Road(sent') /\ Range(sent') = Range(sent) \cup {c} /\ Hauls(sent, sent', {"bootstrap"})
  BY <1>1, <1>3, <1>4, RoadGrows DEF MixerShape, Hauls
<1>10. AsksOnce'
  <2>1. Hauls(replies, replies', {"bootstrap"})
    BY <1>2 DEF Hauls
  <2> QED BY <1>5, <1>9, <2>1, RoadsKeep
<1>11. MixerShape'
  BY <1>1, <1>2, <1>5, <1>7, <1>8, <1>9 DEF MixerShape
<1>12. page'.phase = page.phase /\ page'.vol = page.vol /\ Level(page') = Level(page) /\ page'.raced = page.raced
       /\ page'.notice = page.notice /\ page'.thumb = x
  BY <1>5 DEF Level
<1>13. odd'.moved = odd.moved /\ odd'.recovered = odd.recovered /\ odd'.strayed = b
  BY <1>8
<1>14. VolumeTold'
  <2>1. Level(appCore') = Level(appCore) /\ Boots(replies') = Boots(replies) /\ Level(world') = Level(world)
    BY <1>2
  <2> QED BY <1>1, <1>2, <1>12, <1>13, <2>1 DEF VolumeTold
<1>15. HealthTold'
  BY <1>1, <1>2, <1>12 DEF HealthTold
<1>16. AlarmIsTrue'
  BY <1>1, <1>2, <1>12, <1>13 DEF AlarmIsTrue
<1>17. ThumbWaits'
  BY <1>4, <1>7, <1>9, <1>12, <1>13 DEF ThumbWaits
<1> QED BY <1>10, <1>11, <1>14, <1>15, <1>16, <1>17 DEF MixerInv

\* The page starts to listen, then asks.
LEMMA BeginningsKeep == ASSUME MixerInv, StartListening \/ Ask PROVE MixerInv'
<1>1. MixerShape /\ VolumeTold /\ HealthTold /\ AlarmIsTrue /\ ThumbWaits /\ AsksOnce
  BY DEF MixerInv
<1>2. world' = world /\ appCore' = appCore /\ events' = events /\ replies' = replies /\ odd' = odd
  BY DEF StartListening, Ask, UnchangedHost, channel
<1> DEFINE h == IF page.phase = "loading" THEN "listening" ELSE "asked"
<1>3. StartListening => page' = [page EXCEPT !.phase = h] /\ page.phase = "loading"
  BY DEF StartListening
<1>4. Ask => page' = [page EXCEPT !.phase = h] /\ page.phase = "listening"
  BY DEF Ask
<1>14. page' = [page EXCEPT !.phase = h]
  BY <1>3, <1>4
<1>15. (h = "listening" /\ page.phase = "loading") \/ (h = "asked" /\ page.phase = "listening")
  BY <1>3, <1>4
<1> HIDE DEF h
<1>5. page' = [phase |-> h, vol |-> page.vol, muted |-> page.muted, raced |-> page.raced,
               notice |-> page.notice, thumb |-> page.thumb, rows |-> page.rows, drag |-> page.drag]
  BY <1>1, <1>14 DEF MixerShape
<1>6. page.phase # "ready" /\ page'.phase # "ready" /\ page.phase # "asked" /\ page'.phase \in {"listening", "asked"}
      /\ page'.vol = page.vol /\ Level(page') = Level(page) /\ page'.raced = page.raced
      /\ page'.notice = page.notice /\ page'.thumb = page.thumb
  BY <1>5, <1>15 DEF Level
<1>7. /\ Road(sent') /\ AtMostOne(sent', {"bootstrap"}) /\ (page'.phase # "asked" => Lacks(sent', {"bootstrap"}))
      /\ \A c \in Range(sent) : c \in Range(sent')
  <2>1. CASE sent' = sent /\ page'.phase = "listening"
    BY <1>1, <1>6, <2>1 DEF AsksOnce, MixerShape
  <2>2. CASE sent' = Append(sent, [op |-> "bootstrap"]) /\ page'.phase = "asked"
    <3> DEFINE c == [op |-> "bootstrap"]
    <3>1. Road(sent) /\ Lacks(sent, {"bootstrap"})
      BY <1>1, <1>6 DEF AsksOnce, MixerShape
    <3> HIDE DEF c
    <3>2. Road(Append(sent, c)) /\ AtMostOne(Append(sent, c), {"bootstrap"}) /\ Range(Append(sent, c)) = Range(sent) \cup {c}
      BY <3>1, OneMore, RoadGrows
    <3> QED BY <2>2, <3>2 DEF c
  <2>3. StartListening => sent' = sent /\ page'.phase = "listening"
    BY <1>3, <1>5, <1>15 DEF StartListening, channel
  <2>4. Ask => sent' = Append(sent, [op |-> "bootstrap"]) /\ page'.phase = "asked"
    BY <1>4, <1>5, <1>15 DEF Ask, Invoke
  <2> QED BY <2>1, <2>2, <2>3, <2>4
<1>8. AsksOnce'
  BY <1>1, <1>2, <1>6, <1>7 DEF AsksOnce
<1>9. MixerShape'
  BY <1>1, <1>2, <1>5, <1>6, <1>7 DEF MixerShape
<1>10. VolumeTold'
  <2>1. Level(appCore') = Level(appCore) /\ Boots(replies') = Boots(replies) /\ Level(world') = Level(world)
    BY <1>2
  <2> QED BY <1>1, <1>2, <1>6, <2>1 DEF VolumeTold
<1>11. HealthTold'
  BY <1>1, <1>2, <1>6 DEF HealthTold
<1>12. AlarmIsTrue'
  BY <1>1, <1>2, <1>6 DEF AlarmIsTrue
<1>13. ThumbWaits'
  BY <1>1, <1>2, <1>6 DEF ThumbWaits
<1> QED BY <1>8, <1>9, <1>10, <1>11, <1>12, <1>13 DEF MixerInv

\* The page hears a volume.
LEMMA VolumeArrives == ASSUME MixerInv, OnVolume PROVE MixerInv'
<1>1. MixerShape /\ VolumeTold /\ HealthTold /\ AlarmIsTrue /\ ThumbWaits /\ AsksOnce
  BY DEF MixerInv
<1> DEFINE e == Head(events)
<1>2. world' = world /\ appCore' = appCore /\ sent' = sent /\ replies' = replies
      /\ events # <<>> /\ e.kind = "volume" /\ events' = Tail(events)
  BY DEF OnVolume, TakesEvent, Event, UnchangedHost
<1>3. Road(events') /\ Range(events) = Range(events') \cup {e}
  BY <1>1, <1>2, RoadMoves DEF MixerShape
<1>4. \A k, x : LastSays(events, k, x) => LastSays(events', k, x) /\ (e.kind = k /\ NoneOf(events', k) => Word(e) = x)
  BY <1>1, <1>2, SaysLess DEF MixerShape
<1>5. (NoneOf(events', "backend") => NoneOf(events, "backend")) /\ Word(e) = <<e.vol, e.muted>>
  BY <1>2, <1>3 DEF NoneOf, Word
<1>6. \A f \in Range(events) : f.kind = "volume" => f = e \/ f \in Range(events')
  BY <1>3
<1> DEFINE x == e.vol
           y == e.muted
<1>7. CASE page.phase = "loading"
  <2>1. page' = page /\ odd' = [odd EXCEPT !.strayed = odd.strayed]
    BY <1>7 DEF OnVolume, TakesEvent, Hears
  <2>2. odd' = odd
    BY <1>1, <2>1 DEF MixerShape
  <2>3. AsksOnce'
    BY <1>1, <1>2, <2>1 DEF AsksOnce
  <2>4. MixerShape'
    BY <1>1, <1>2, <1>3, <2>1, <2>2 DEF MixerShape
  <2>5. ~page.raced /\ Boots(replies) = {}
    BY <1>1, <1>7 DEF AsksOnce, Lacks, Boots
  <2>6. VolumeTold'
    BY <1>1, <1>2, <1>4, <1>7, <2>1, <2>2, <2>5 DEF VolumeTold, Level
  <2>7. HealthTold'
    BY <1>1, <1>2, <1>4, <1>5, <2>1 DEF HealthTold
  <2>8. AlarmIsTrue'
    BY <1>1, <1>2, <1>3, <1>5, <2>1, <2>2 DEF AlarmIsTrue
  <2>9. ThumbWaits'
    BY <1>1, <1>7, <2>1, <2>2 DEF ThumbWaits
  <2> QED BY <2>3, <2>4, <2>6, <2>7, <2>8, <2>9 DEF MixerInv
<1>8. CASE page.phase # "loading"
  <2> DEFINE t == IF x # page.vol /\ page.drag # System THEN x ELSE page.thumb
             z == page.phase # "ready"
             a == Astray(page, x)
  <2>1. odd' = [odd EXCEPT !.strayed = a]
    BY <1>8 DEF OnVolume, Hears
  <2>2. page' = [[page EXCEPT !.vol = x, !.muted = y, !.thumb = t] EXCEPT !.raced = z]
    BY <1>8 DEF OnVolume, TakesEvent, Hears, WithVolume
  <2>3. a \in BOOLEAN /\ z \in BOOLEAN /\ z = (page.phase # "ready")
    BY <1>1 DEF Astray, MixerShape
  <2>4. a \/ t = x \/ (~odd.strayed /\ x = page.vol /\ t = page.thumb)
    BY <1>1 DEF Astray, MixerShape
  <2> HIDE DEF t, z, a, x, y
  <2>5. page' = [phase |-> page.phase, vol |-> x, muted |-> y, raced |-> z,
               notice |-> page.notice, thumb |-> t, rows |-> page.rows, drag |-> page.drag]
    BY <1>1, <2>2 DEF MixerShape
  <2>6. odd' = [moved |-> odd.moved, recovered |-> odd.recovered, strayed |-> a]
    BY <1>1, <2>1 DEF MixerShape
  <2>7. page'.phase = page.phase /\ page'.vol = x /\ Level(page') = <<x, y>> /\ page'.raced = z
        /\ page'.notice = page.notice /\ page'.thumb = t
    BY <2>5 DEF Level
  <2>8. odd'.moved = odd.moved /\ odd'.recovered = odd.recovered /\ odd'.strayed = a
    BY <2>6
  <2>9. AsksOnce'
    BY <1>1, <1>2, <1>8, <2>3, <2>7 DEF AsksOnce, MixerShape
  <2>10. MixerShape'
    BY <1>1, <1>2, <1>3, <2>3, <2>5, <2>6 DEF MixerShape
  <2>11. VolumeTold'
    <3> SUFFICES ASSUME ~odd.moved PROVE VolumeTold'
      BY <2>8 DEF VolumeTold
    <3>1. LastSays(events, "volume", Level(appCore)) /\ (page.phase # "ready" => Level(appCore) = Level(world))
      BY <1>1 DEF VolumeTold
    <3>2. LastSays(events', "volume", Level(appCore)) /\ (NoneOf(events', "volume") => <<x, y>> = Level(appCore))
      BY <1>2, <1>4, <1>5, <3>1 DEF x, y
    <3>3. Level(appCore') = Level(appCore) /\ Level(world') = Level(world)
      BY <1>2
    <3>4. ~page'.raced => page'.phase = "ready"
      BY <2>3, <2>7
    <3>5. ~page'.raced => Boots(replies') = {}
      BY <3>4, <2>9 DEF AsksOnce, Lacks, Boots
    <3> QED BY <2>7, <3>1, <3>2, <3>3, <3>5 DEF VolumeTold
  <2>12. HealthTold'
    BY <1>1, <1>2, <1>4, <1>5, <2>7 DEF HealthTold
  <2>13. AlarmIsTrue'
    BY <1>1, <1>2, <1>3, <1>5, <2>7, <2>8 DEF AlarmIsTrue
  <2>14. ThumbWaits'
    BY <1>1, <1>2, <1>6, <2>4, <2>7, <2>8 DEF ThumbWaits, x
  <2> QED BY <2>9, <2>10, <2>11, <2>12, <2>13, <2>14 DEF MixerInv
<1> QED BY <1>7, <1>8

\* The page hears a status.
LEMMA StatusArrives == ASSUME MixerInv, OnBackend PROVE MixerInv'
<1>1. MixerShape /\ VolumeTold /\ HealthTold /\ AlarmIsTrue /\ ThumbWaits /\ AsksOnce
  BY DEF MixerInv
<1> DEFINE e == Head(events)
<1>2. world' = world /\ appCore' = appCore /\ sent' = sent /\ replies' = replies /\ odd' = odd
      /\ events # <<>> /\ e.kind = "backend" /\ events' = Tail(events)
  BY DEF OnBackend, TakesEvent, Event, UnchangedHost
<1>3. Road(events') /\ Range(events) = Range(events') \cup {e}
  BY <1>1, <1>2, RoadMoves DEF MixerShape
<1>4. \A k, x : LastSays(events, k, x) => LastSays(events', k, x) /\ (e.kind = k /\ NoneOf(events', k) => Word(e) = x)
  BY <1>1, <1>2, SaysLess DEF MixerShape
<1>5. (NoneOf(events', "volume") => NoneOf(events, "volume")) /\ Word(e) = e.status
      /\ \A f \in Range(events) : f.kind = "volume" => f \in Range(events')
  BY <1>2, <1>3 DEF NoneOf, Word
<1> DEFINE x == IF page.phase = "loading" THEN page.notice ELSE IF e.status = "degraded" THEN "degraded" ELSE None
<1>6. page' = [phase |-> page.phase, vol |-> page.vol, muted |-> page.muted, raced |-> page.raced,
               notice |-> x, thumb |-> page.thumb, rows |-> page.rows, drag |-> page.drag]
  <2>1. CASE page.phase = "loading"
    <3>1. page' = page
      BY <2>1 DEF OnBackend, TakesEvent, Hears
    <3> QED BY <1>1, <2>1, <3>1 DEF MixerShape
  <2>2. CASE page.phase # "loading"
    <3>1. page' = [page EXCEPT !.notice = x]
      BY <2>2 DEF OnBackend, TakesEvent, Hears
    <3> HIDE DEF x
    <3> QED BY <1>1, <3>1 DEF MixerShape
  <2> QED BY <2>1, <2>2
<1>7. /\ page.phase # "loading" /\ e.status = "degraded" => x = "degraded"
      /\ page.phase # "loading" /\ e.status # "degraded" => x = None
      /\ page.phase = "loading" => x = page.notice
  OBVIOUS
<1> HIDE DEF x
<1>8. page'.phase = page.phase /\ page'.vol = page.vol /\ Level(page') = Level(page) /\ page'.raced = page.raced
      /\ page'.notice = x /\ page'.thumb = page.thumb
  BY <1>6 DEF Level
<1>9. AsksOnce'
  BY <1>1, <1>2, <1>8 DEF AsksOnce
<1>10. MixerShape'
  BY <1>1, <1>2, <1>3, <1>6 DEF MixerShape
<1>11. VolumeTold'
  <2>1. Level(appCore') = Level(appCore) /\ Boots(replies') = Boots(replies) /\ Level(world') = Level(world)
    BY <1>2
  <2> QED BY <1>1, <1>2, <1>4, <1>5, <1>8, <2>1 DEF VolumeTold
<1>12. HealthTold'
  <2>1. LastSays(events', "backend", appCore.status) /\ (NoneOf(events', "backend") => e.status = appCore.status)
    BY <1>1, <1>2, <1>4, <1>5 DEF HealthTold
  <2>2. page.phase = "loading" => Boots(replies) = {}
    BY <1>1 DEF AsksOnce, Lacks, Boots
  <2>3. Boots(replies') = Boots(replies) /\ appCore' = appCore
    BY <1>2
  <2> QED BY <1>7, <1>8, <2>1, <2>2, <2>3, NoticeAssumption DEF HealthTold
<1>13. AlarmIsTrue'
  <2>1. NoneOf(events', "backend") => e.status = appCore.status
    BY <1>1, <1>2, <1>4, <1>5 DEF HealthTold
  <2>2. e \in Range(events) /\ \A f \in Range(events') : f \in Range(events)
    BY <1>3
  <2>3. Boots(replies') = Boots(replies)
    BY <1>2
  <2> HIDE DEF e
  <2>4. ASSUME ~odd.recovered, page.phase = "ready", NoneOf(events', "backend"), x = "degraded" PROVE appCore.status = "degraded"
    BY <1>7, <2>1, <2>4, NoticeAssumption
  <2>5. ASSUME ~odd.recovered, page.phase # "ready"
        PROVE  /\ appCore.status = "degraded" => ~world.up
               /\ \/ appCore.status = "degraded"
                  \/ /\ x # "degraded" /\ \A r \in Boots(replies) : r.status # "degraded"
                     /\ \A f \in Range(events') : f.kind = "backend" => f.status # "degraded"
    BY <1>1, <1>2, <1>7, <2>2, <2>5, NoticeAssumption DEF AlarmIsTrue
  <2> QED BY <1>2, <1>8, <2>3, <2>4, <2>5 DEF AlarmIsTrue
<1>14. ThumbWaits'
  BY <1>1, <1>2, <1>5, <1>8 DEF ThumbWaits
<1> QED BY <1>9, <1>10, <1>11, <1>12, <1>13, <1>14 DEF MixerInv

\* The answer to the bootstrap; a volume that was heard before it wins.
LEMMA BootstrapArrives == ASSUME MixerInv, OnBootstrap PROVE MixerInv'
<1>1. MixerShape /\ VolumeTold /\ HealthTold /\ AlarmIsTrue /\ ThumbWaits /\ AsksOnce
  BY DEF MixerInv
<1> DEFINE r == Head(replies)
<1>2. world' = world /\ appCore' = appCore /\ sent' = sent /\ events' = events
      /\ replies # <<>> /\ r.op = "bootstrap" /\ replies' = Tail(replies)
  BY DEF OnBootstrap, TakesReply, Reply, UnchangedHost
<1>3. Road(replies') /\ Range(replies) = Range(replies') \cup {r}
  BY <1>1, <1>2, RoadMoves DEF MixerShape
<1>4. Lacks(replies', {"bootstrap"}) /\ AtMostOne(replies', {"bootstrap"})
  BY <1>1, <1>2, OneLess DEF AsksOnce, MixerShape
<1>5. r \in Boots(replies) /\ Boots(replies') = {}
  BY <1>2, <1>3, <1>4 DEF Boots, Lacks
<1>6. page.phase = "asked" /\ Lacks(sent, {"bootstrap"})
  BY <1>1, <1>5 DEF AsksOnce, Lacks, Boots
<1> DEFINE q == WithRows(page, r.rows)
           n == IF r.status = "degraded" THEN "degraded" ELSE page.notice
           p == [q EXCEPT !.phase = "ready", !.raced = FALSE, !.notice = IF r.status = "degraded" THEN "degraded" ELSE @]
           x == r.vol
           y == r.muted
           d == q.drag
           rs == q.rows
<1>7. q = [phase |-> page.phase, vol |-> page.vol, muted |-> page.muted, raced |-> page.raced, notice |-> page.notice,
           thumb |-> page.thumb, rows |-> rs, drag |-> d]
  <2>1. RowsOnly(page, q) /\ q.notice = page.notice
    BY <1>1, RowsAreRowsOnly DEF MixerShape
  <2>2. d = q.drag
    <3>1. RowsOnly(page, q)
      BY <2>1
    <3> HIDE DEF q
    <3> QED OBVIOUS
  <2>3. rs = q.rows
    OBVIOUS
  <2> HIDE DEF q, d, rs
  <2>4. d = q.drag
    BY <2>2
  <2> QED BY <2>1, <2>2, <2>3 DEF RowsOnly
<1>8. d = System <=> page.drag = System
  <2>1. d = IF page.drag \in StreamIds /\ (page.drag \notin DOMAIN r.rows \/ ~SameRow(page.rows, r.rows, page.drag))
            THEN None ELSE page.drag
    <3> DEFINE z == [i \in DOMAIN r.rows |-> [vol |-> r.rows[i].vol, muted |-> r.rows[i].muted,
                                       thumb |-> ThumbOf(page.rows, r.rows, i, page.drag)]]
               f == IF page.drag \in StreamIds /\ (page.drag \notin DOMAIN r.rows \/ ~SameRow(page.rows, r.rows, page.drag))
                    THEN None ELSE page.drag
    <3>1. q = [page EXCEPT !.rows = z, !.drag = f]
      BY DEF WithRows
    <3>2. d = q.drag
      OBVIOUS
    <3> HIDE DEF z, f, q, d
    <3>3. q.drag = f
      BY <1>1, <3>1 DEF MixerShape
    <3> QED BY <3>2, <3>3 DEF f
  <2>2. System \notin StreamIds
    BY StreamsAssumption DEF System
  <2> HIDE DEF d, r
  <2> QED BY <2>1, <2>2, NoticeAssumption
<1>9. p = [phase |-> "ready", vol |-> page.vol, muted |-> page.muted, raced |-> FALSE, notice |-> n,
           thumb |-> page.thumb, rows |-> rs, drag |-> d]
  <2> DEFINE o == [q EXCEPT !.phase = "ready", !.raced = FALSE]
  <2>1. o = [q EXCEPT !.phase = "ready", !.raced = FALSE]
    OBVIOUS
  <2>2. p = [o EXCEPT !.notice = IF r.status = "degraded" THEN "degraded" ELSE o.notice]
    OBVIOUS
  <2> HIDE DEF q, d, rs, o, p
  <2>3. o = [phase |-> "ready", vol |-> page.vol, muted |-> page.muted, raced |-> FALSE, notice |-> page.notice,
             thumb |-> page.thumb, rows |-> rs, drag |-> d]
    BY <1>7, <2>1
  <2>4. o.notice = page.notice
    BY <2>3
  <2>5. p = [o EXCEPT !.notice = n]
    BY <2>2, <2>4
  <2> HIDE DEF n
  <2> QED BY <2>3, <2>5
<1> DEFINE c == page.raced
           u == IF c THEN page.vol ELSE x
           m == IF c THEN page.muted ELSE y
           t == IF ~c /\ x # page.vol /\ page.drag # System THEN x ELSE page.thumb
           a == IF c THEN odd.strayed ELSE Astray(page, x)
<1>10. page' = IF c THEN p ELSE WithVolume(p, x, y)
  BY DEF OnBootstrap, TakesReply
<1>11. odd' = [odd EXCEPT !.strayed = a]
  BY DEF OnBootstrap
<1> HIDE DEF q, p, d, rs, n, x, y
<1>12. page' = [phase |-> "ready", vol |-> u, muted |-> m, raced |-> FALSE, notice |-> n,
                thumb |-> t, rows |-> rs, drag |-> d]
  <2>1. CASE c
    <3>1. page' = p
      BY <1>10, <2>1
    <3>2. u = page.vol /\ m = page.muted /\ t = page.thumb
      BY <2>1
    <3> HIDE DEF u, m, t
    <3> QED BY <1>9, <3>1, <3>2
  <2>2. CASE ~c
    <3>1. page' = [p EXCEPT !.vol = x, !.muted = y, !.thumb = IF x # p.vol /\ p.drag # System THEN x ELSE p.thumb]
      BY <1>10, <2>2 DEF WithVolume
    <3>2. p.vol = page.vol /\ p.thumb = page.thumb /\ (p.drag = System <=> page.drag = System)
      BY <1>8, <1>9
    <3>3. page' = [p EXCEPT !.vol = x, !.muted = y, !.thumb = t] /\ u = x /\ m = y
      BY <2>2, <3>1, <3>2
    <3> HIDE DEF u, m, t
    <3> QED BY <1>9, <3>3
  <2> QED BY <2>1, <2>2
<1>13. c \in BOOLEAN /\ a \in BOOLEAN
  BY <1>1 DEF Astray, MixerShape
<1>14. IF c THEN u = page.vol /\ m = page.muted /\ t = page.thumb /\ a = odd.strayed
       ELSE u = x /\ m = y /\ (a \/ t = x \/ (~odd.strayed /\ x = page.vol /\ t = page.thumb))
  BY <1>1 DEF Astray, MixerShape
<1>15. c = page.raced
  OBVIOUS
<1> HIDE DEF u, m, t, a, c
<1>16. odd' = [moved |-> odd.moved, recovered |-> odd.recovered, strayed |-> a]
  BY <1>1, <1>11 DEF MixerShape
<1>17. page'.phase = "ready" /\ page'.vol = u /\ Level(page') = <<u, m>> /\ page'.raced = FALSE
       /\ page'.notice = n /\ page'.thumb = t
  BY <1>12 DEF Level
<1>18. odd'.moved = odd.moved /\ odd'.recovered = odd.recovered /\ odd'.strayed = a
  BY <1>16
<1>19. AsksOnce'
  BY <1>1, <1>2, <1>4, <1>6, <1>17 DEF AsksOnce
<1>20. MixerShape'
  BY <1>1, <1>2, <1>3, <1>12, <1>13, <1>16 DEF MixerShape
<1>21. VolumeTold'
  <2> SUFFICES ASSUME ~odd.moved PROVE VolumeTold'
    BY <1>18 DEF VolumeTold
  <2>1. Level(appCore') = Level(appCore) /\ LastSays(events', "volume", Level(appCore))
    BY <1>1, <1>2 DEF VolumeTold
  <2>2. NoneOf(events, "volume") => <<u, m>> = Level(appCore)
    <3>1. CASE c
      BY <1>1, <1>14, <1>15, <3>1 DEF VolumeTold, Level
    <3>2. CASE ~c
      <4>1. NoneOf(events, "volume") => Level(r) = Level(appCore)
        BY <1>1, <1>5, <1>15, <3>2 DEF VolumeTold
      <4>2. Level(r) = <<x, y>>
        BY DEF Level, x, y
      <4> QED BY <1>14, <3>2, <4>1, <4>2
    <3> QED BY <3>1, <3>2
  <2> QED BY <1>2, <1>5, <1>17, <2>1, <2>2 DEF VolumeTold
<1>22. n = "degraded" \/ (r.status # "degraded" /\ n = page.notice)
  BY DEF n
<1>23. HealthTold'
  <2>1. NoneOf(events, "backend") /\ appCore.status = "degraded" => page.notice # None \/ r.status = "degraded"
    BY <1>1, <1>5 DEF HealthTold
  <2>2. LastSays(events, "backend", appCore.status)
    BY <1>1 DEF HealthTold
  <2> QED BY <1>2, <1>5, <1>17, <1>22, <2>1, <2>2, NoticeAssumption DEF HealthTold
<1>24. AlarmIsTrue'
  <2>1. ASSUME ~odd.recovered, n = "degraded" PROVE appCore.status = "degraded"
    <3>1. appCore.status = "degraded" \/ (page.notice # "degraded" /\ r.status # "degraded")
      BY <1>1, <1>5, <1>6, <2>1 DEF AlarmIsTrue
    <3> QED BY <2>1, <3>1 DEF n
  <2> QED BY <1>2, <1>17, <1>18, <2>1 DEF AlarmIsTrue
<1>25. ThumbWaits'
  <2>1. odd.strayed \/ page.thumb = page.vol
    BY <1>1, <1>6 DEF ThumbWaits
  <2> QED BY <1>14, <1>17, <1>18, <2>1 DEF ThumbWaits
<1> QED BY <1>19, <1>20, <1>21, <1>23, <1>24, <1>25 DEF MixerInv

\* Every step of the mixer page.
LEMMA MixerSteps == ASSUME MixerInv, MixerNext PROVE MixerInv'
<1>1. CASE MixerUser
  BY <1>1, GesturesAreQuiet, QuietKeeps, SlidesWait DEF MixerUser
<1>2. CASE MixerWorld
  BY <1>2, GesturesAreQuiet, QuietKeeps, WorldTurns DEF MixerWorld
<1>3. CASE MixerHost
  BY <1>3, BootstrapLooks, LostSlideLooks, VolumeCommandsLook, StreamCommandsAreQuiet, QuietKeeps DEF MixerHost
<1>4. CASE MixerDelivery
  BY <1>4, VolumeArrives, StatusArrives, RowsArriveQuietly, QuietKeeps DEF MixerDelivery
<1>5. CASE MixerAnswers
  BY <1>5, BootstrapArrives, RowsArriveQuietly, QuietKeeps DEF MixerAnswers
<1>6. CASE BackoffEnds \/ PollServer \/ StartListening \/ Ask \/ Refresh
  BY <1>6, GesturesAreQuiet, QuietKeeps, PollLooks, BeginningsKeep
<1> QED BY <1>1, <1>2, <1>3, <1>4, <1>5, <1>6 DEF MixerNext

LEMMA MixerStutters == ASSUME MixerInv, UNCHANGED <<mixer, channel, occasions>> PROVE MixerInv'
<1>1. UNCHANGED <<world, appCore, page, odd, sent, events, replies>>
  BY DEF mixer, channel
<1>2. Level(world') = Level(world) /\ Level(appCore') = Level(appCore) /\ Level(page') = Level(page) /\ Boots(replies') = Boots(replies)
  BY <1>1
<1>3. MixerShape' /\ AsksOnce'
  BY <1>1 DEF MixerInv, MixerShape, AsksOnce
<1>4. VolumeTold' /\ HealthTold'
  BY <1>1, <1>2 DEF MixerInv, VolumeTold, HealthTold
<1>5. AlarmIsTrue' /\ ThumbWaits'
  BY <1>1, <1>2 DEF MixerInv, AlarmIsTrue, ThumbWaits
<1> QED BY <1>3, <1>4, <1>5 DEF MixerInv

LEMMA MixerStarts ==
    ASSUME MixerInit(TRUE), sent = <<>>, events = <<>>, replies = <<>>
    PROVE  MixerInv
<1>1. Road(<<>>) /\ Range(<<>>) = {} /\ DOMAIN <<>> = {}
  <2>1. <<>> \in Seq({})
    OBVIOUS
  <2> QED BY <2>1 DEF Road, Range
<1>2. /\ world = [up |-> world.up, vol |-> Half, muted |-> FALSE, live |-> world.live] /\ world.up \in BOOLEAN
      /\ appCore = [vol |-> Half, muted |-> FALSE, restore |-> None, status |-> appCore.status]
      /\ appCore.status = IF world.up THEN "ready" ELSE "degraded"
      /\ page = [phase |-> "loading", vol |-> 0, muted |-> FALSE, raced |-> FALSE,
                  notice |-> None, thumb |-> 0, rows |-> page.rows, drag |-> None]
      /\ odd = [moved |-> FALSE, recovered |-> FALSE, strayed |-> FALSE]
  <2> DEFINE nr == NoRows
  <2>1. PICK u \in BOOLEAN :
         /\ world = [up |-> u, vol |-> Half, muted |-> FALSE,
                     live |-> IF u THEN [i \in StreamIds |-> Stream(Half, FALSE)] ELSE NoRows]
         /\ appCore = [vol |-> Half, muted |-> FALSE, restore |-> None,
                    status |-> IF u THEN "ready" ELSE "degraded"]
    BY DEF MixerInit
  <2>2. odd = [moved |-> FALSE, recovered |-> FALSE, strayed |-> FALSE]
    BY DEF MixerInit, Calm
  <2>3. page = [phase |-> "loading", vol |-> 0, muted |-> FALSE, raced |-> FALSE,
                  notice |-> None, thumb |-> 0, rows |-> nr, drag |-> None]
    BY DEF MixerInit
  <2> HIDE DEF nr
  <2>4. page.rows = nr
    BY <2>3
  <2>5. world.up = u /\ world.live = (IF u THEN [i \in StreamIds |-> Stream(Half, FALSE)] ELSE NoRows)
    BY <2>1
  <2>6. appCore.status = IF u THEN "ready" ELSE "degraded"
    BY <2>1
  <2> QED BY <2>1, <2>2, <2>3, <2>4, <2>5, <2>6
<1>10. /\ world.vol = Half /\ world.muted = FALSE /\ appCore.vol = Half /\ appCore.muted = FALSE /\ appCore.restore = None
       /\ page.phase = "loading" /\ page.vol = 0 /\ page.muted = FALSE /\ page.raced = FALSE /\ page.notice = None
       /\ page.thumb = 0 /\ page.drag = None
       /\ odd.moved = FALSE /\ odd.recovered = FALSE /\ odd.strayed = FALSE
  BY <1>2
<1>3. MixerShape
  <2>1. world = [up |-> world.up, vol |-> world.vol, muted |-> world.muted, live |-> world.live] /\ world.up \in BOOLEAN
    BY <1>2, <1>10
  <2>2. appCore = [vol |-> appCore.vol, muted |-> appCore.muted, restore |-> appCore.restore, status |-> appCore.status]
        /\ appCore.status \in {"ready", "degraded"}
    BY <1>2, <1>10
  <2>3. page = [phase |-> page.phase, vol |-> page.vol, muted |-> page.muted, raced |-> page.raced,
               notice |-> page.notice, thumb |-> page.thumb, rows |-> page.rows, drag |-> page.drag]
    BY <1>2, <1>10
  <2>4. odd = [moved |-> odd.moved, recovered |-> odd.recovered, strayed |-> odd.strayed]
    BY <1>2, <1>10
  <2> QED BY <1>1, <1>10, <2>1, <2>2, <2>3, <2>4 DEF MixerShape
<1>4. Level(world) = <<Half, FALSE>> /\ Level(appCore) = <<Half, FALSE>> /\ Boots(replies) = {}
  BY <1>1, <1>10 DEF Level, Boots
<1>5. AsksOnce
  BY <1>1, <1>10 DEF AsksOnce, Lacks, AtMostOne
<1>6. VolumeTold
  BY <1>1, <1>4, <1>10 DEF VolumeTold, LastSays
<1>7. HealthTold
  BY <1>1, <1>4, <1>10 DEF HealthTold, LastSays
<1>8. AlarmIsTrue
  BY <1>1, <1>2, <1>4, <1>10, NoticeAssumption DEF AlarmIsTrue
<1>9. ThumbWaits
  BY <1>10 DEF ThumbWaits
<1> QED BY <1>3, <1>5, <1>6, <1>7, <1>8, <1>9 DEF MixerInv

LEMMA MixerShows == MixerInv => MixerAgrees
<1> SUFFICES ASSUME MixerInv, AtRest PROVE MixerAgrees
  BY DEF MixerAgrees
<1>1. MixerShape /\ VolumeTold /\ HealthTold /\ AlarmIsTrue /\ ThumbWaits
  BY DEF MixerInv
<1>2. sent = <<>> /\ events = <<>> /\ page.phase = "ready"
  BY DEF AtRest, NothingUnderWay
<1>3. Range(<<>>) = {}
  BY DEF Range
<1>4. NoneOf(events, "volume") /\ NoneOf(events, "backend")
  BY <1>2, <1>3 DEF NoneOf
<1>5. odd.moved \/ <<page.vol, page.muted>> = <<appCore.vol, appCore.muted>>
  BY <1>1, <1>2, <1>4 DEF VolumeTold, Level
<1>6. appCore.status = "degraded" => page.notice # None
  BY <1>1, <1>2, <1>4 DEF HealthTold
<1>7. page.notice = "degraded" => odd.recovered \/ appCore.status = "degraded"
  BY <1>1, <1>2, <1>4 DEF AlarmIsTrue
<1>8. odd.strayed \/ page.thumb = page.vol
  BY <1>1, <1>2, <1>3 DEF ThumbWaits
<1> QED BY <1>5, <1>6, <1>7, <1>8 DEF MixerAgrees

-----------------------------------------------------------------------------
(* The settings page.                                                       *)

SaveOps == {"update", "modifier", "autostart"}
EndOps == {"done", "failed"}

DeskCommands ==
    [op : {"bootstrap", "recommend"}, orphan : BOOLEAN]
    \cup [op : {"update"}, item : Items, keys : KeySets, orphan : BOOLEAN]
    \cup [op : {"modifier"}, modifier : Modifiers, orphan : BOOLEAN]
    \cup [op : {"autostart"}, auto : BOOLEAN, orphan : BOOLEAN]
DeskAnswers ==
    [op : {"bootstrap"}, config : Drafts, status : KeySets] \cup [op : {"recommend", "done", "failed"}]
DeskEvents == [kind : {"keys"}, status : KeySets]

StoreShape == store \in [conf : Drafts, file : Drafts, new : BOOLEAN, bound : KeySets, startup : BOOLEAN]
PastShape == past \in [edited : BOOLEAN, half : BOOLEAN, overwritten : BOOLEAN, missed : BOOLEAN,
                       misread : BOOLEAN, unsaved : BOOLEAN]
DeskShape ==
    /\ desk = [phase |-> desk.phase, listens |-> desk.listens, base |-> desk.base, draft |-> desk.draft,
               status |-> desk.status, saving |-> desk.saving, shown |-> desk.shown]
    /\ desk.phase \in {"closed", "loading", "ready"} /\ desk.listens \in BOOLEAN
    /\ Ready => desk.base \in Drafts /\ desk.draft \in Drafts
    /\ desk.saving = None \/ desk.saving \in [draft : Drafts, todo : Seq(LaterCommands)]
RoadShape == sent \in Seq(DeskCommands) /\ events \in Seq(DeskEvents) /\ replies \in Seq(DeskAnswers)
SettingsShape == StoreShape /\ PastShape /\ DeskShape /\ RoadShape

\* Whose commands and answers are under way: a page has at most one of a save.
OwnCommands ==
    /\ desk.phase = "closed" => events = <<>> /\ replies = <<>> /\ \A c \in Range(sent) : c.orphan
    /\ desk.phase = "loading" =>
         /\ \A i \in DOMAIN sent : sent[i].orphan \/ (i = Len(sent) /\ sent[i].op = "bootstrap")
         /\ replies = <<>> \/ (sent = <<>> /\ \E r : r.op = "bootstrap" /\ replies = <<r>>)
         /\ desk.saving = None
    /\ Ready => /\ \A c \in Range(sent) : ~c.orphan
                /\ Lacks(sent, {"bootstrap"}) /\ Lacks(replies, {"bootstrap"})
                /\ AtMostOne(sent, SaveOps) /\ AtMostOne(replies, EndOps)
                /\ Lacks(sent, SaveOps) \/ Lacks(replies, EndOps)
                /\ desk.saving = None => Lacks(sent, SaveOps) /\ Lacks(replies, EndOps)

\* The last status on its way is the listener's, and the page's if none is on its way.
LastHeard == IF events = <<>> THEN desk.status = store.bound ELSE events[Len(events)].status = store.bound
StatusTold ==
    ~past.missed =>
      /\ desk.phase = "loading" => events = <<>> /\ \A r \in Range(replies) : r.status = store.bound
      /\ Ready /\ ~desk.listens => events = <<>>
      /\ Ready => LastHeard

FileTold == store.new \/ past.unsaved \/ store.file = store.conf

\* Memory has configuration d, the registration is a; or it is known why not.
NoConf == past.edited \/ past.half \/ past.overwritten
NoAuto == past.misread \/ past.half
Alike(c, d) == c.item = d.item /\ c.keys = d.keys /\ c.modifier = d.modifier
ConfIs(d) == NoConf \/ Alike(store.conf, d)
AutoIs(a) == NoAuto \/ store.startup = a
\* The patch of draft d was adopted.
PatchIs(d) ==
    \/ NoConf
    \/ store.conf.item = d.item /\ store.conf.keys = d.keys /\ store.conf.modifier = desk.base.modifier

\* What a save has still to send, after the patch and after the modifier.
ModifierStep(d) == [op |-> "modifier", modifier |-> d.modifier, orphan |-> FALSE]
AutostartStep(d) == [op |-> "autostart", auto |-> d.auto, orphan |-> FALSE]
LastSteps(d, b) == IF d.auto # b.auto THEN <<AutostartStep(d)>> ELSE <<>>
LaterSteps(d, b) == IF d.modifier # b.modifier THEN <<ModifierStep(d)>> \o LastSteps(d, b) ELSE LastSteps(d, b)

\* What memory and registration are when a save's command is sent, or answered.
SendsUpdate(c, s) ==
    /\ c.item = s.draft.item /\ c.keys = s.draft.keys /\ s.todo = LaterSteps(s.draft, desk.base)
    /\ ConfIs(desk.base) /\ AutoIs(desk.base.auto)
SendsModifier(c, s) ==
    /\ c.modifier = s.draft.modifier /\ s.draft.modifier # desk.base.modifier
    /\ s.todo = LastSteps(s.draft, desk.base) /\ PatchIs(s.draft) /\ AutoIs(desk.base.auto)
SendsAutostart(c, s) ==
    c.auto = s.draft.auto /\ s.todo = <<>> /\ ConfIs(s.draft) /\ AutoIs(desk.base.auto)
EndsStep(s) ==
    \/ s.todo = LaterSteps(s.draft, desk.base) /\ PatchIs(s.draft) /\ AutoIs(desk.base.auto)
    \/ s.todo = LastSteps(s.draft, desk.base) /\ ConfIs(s.draft) /\ AutoIs(desk.base.auto)
    \/ s.todo = <<>> /\ ConfIs(s.draft) /\ AutoIs(s.draft.auto)
BaseIs == ConfIs(desk.base) /\ AutoIs(desk.base.auto)
Presettled(s) == NoConf \/ s.draft.modifier = desk.base.modifier \/ s.draft.keys = s.draft.modifier

SaveTold ==
    /\ desk.phase = "loading" => \A r \in Range(replies) : ConfIs(r.config) /\ AutoIs(r.config.auto)
    /\ Ready /\ desk.saving = None => BaseIs
    /\ Ready /\ desk.saving # None =>
         /\ \A c \in Range(sent) :
              /\ c.op = "update" => SendsUpdate(c, desk.saving)
              /\ c.op = "modifier" => SendsModifier(c, desk.saving)
              /\ c.op = "autostart" => SendsAutostart(c, desk.saving)
         /\ \A r \in Range(replies) :
              /\ r.op = "done" => EndsStep(desk.saving)
              /\ r.op = "failed" => BaseIs
         /\ Presettled(desk.saving)

SettingsInv == SettingsShape /\ OwnCommands /\ StatusTold /\ FileTold /\ SaveTold

LEMMA OnePut ==
    ASSUME NEW S, NEW x \in S, NEW q \in Seq(S)
    PROVE  <<x>> \o q \in Seq(S) /\ Head(<<x>> \o q) = x /\ Tail(<<x>> \o q) = q /\ <<x>> \o q # <<>>
<1>1. <<x>> \in Seq(S) /\ Len(<<x>>) = 1 /\ <<x>>[1] = x
  OBVIOUS
<1> DEFINE o == <<x>>
           z == o \o q
<1>2. o \in Seq(S) /\ Len(o) = 1 /\ o[1] = x
  BY <1>1
<1> HIDE DEF o
<1>3. Len(q) \in Nat
  BY LenProperties
<1>4. z \in Seq(S) /\ Len(z) = 1 + Len(q) /\ \A i \in 1 .. (1 + Len(q)) : z[i] = IF i <= 1 THEN o[i] ELSE q[i - 1]
  <2>1. /\ o \o q \in Seq(S) /\ Len(o \o q) = Len(o) + Len(q)
        /\ \A i \in 1 .. Len(o) + Len(q) : (o \o q)[i] = IF i <= Len(o) THEN o[i] ELSE q[i - Len(o)]
    BY <1>2, ConcatProperties
  <2> QED BY <1>2, <2>1
<1> HIDE DEF z
<1>5. z # <<>> /\ z[1] = x
  BY <1>2, <1>3, <1>4
<1>6. Tail(z) \in Seq(S) /\ Len(Tail(z)) = Len(q) /\ \A i \in 1 .. Len(q) : Tail(z)[i] = z[i + 1]
  BY <1>3, <1>4, <1>5, HeadTailProperties
<1>7. \A i \in 1 .. Len(q) : z[i + 1] = q[i]
  BY <1>3, <1>4
<1> DEFINE w == Tail(z)
<1>8. w \in Seq(S) /\ Len(w) = Len(q) /\ \A i \in 1 .. Len(w) : w[i] = q[i]
  BY <1>6, <1>7
<1> HIDE DEF w
<1>9. w = q
  BY <1>8, SeqEqual
<1>10. Head(z) = x
  BY <1>5
<1> QED BY <1>4, <1>5, <1>9, <1>10 DEF z, w, o

LEMMA TwoPut ==
    ASSUME NEW S, NEW x \in S, NEW q \in Seq(S), NEW r \in Seq(S)
    PROVE  Head((<<x>> \o q) \o r) = x /\ Tail((<<x>> \o q) \o r) = q \o r
<1> DEFINE o == <<x>>
<1>1. o \in Seq(S)
  OBVIOUS
<1> HIDE DEF o
<1>2. (o \o q) \o r = o \o (q \o r)
  BY <1>1, ConcatAssociative
<1>3. q \o r \in Seq(S)
  BY ConcatProperties
<1> DEFINE z == q \o r
<1>4. z \in Seq(S) /\ (<<x>> \o q) \o r = <<x>> \o z
  BY <1>2, <1>3 DEF o
<1> HIDE DEF z
<1>5. Head(<<x>> \o z) = x /\ Tail(<<x>> \o z) = z
  BY <1>4, OnePut
<1> QED BY <1>4, <1>5 DEF z

LEMMA PlanSplits ==
    ASSUME NEW d \in Drafts, NEW b \in Drafts
    PROVE  /\ Head(Plan(d, b)) = [op |-> "update", item |-> d.item, keys |-> d.keys, orphan |-> FALSE]
           /\ Tail(Plan(d, b)) = LaterSteps(d, b) /\ LaterSteps(d, b) \in Seq(LaterCommands)
           /\ LastSteps(d, b) \in Seq(LaterCommands)
           /\ d.modifier = b.modifier => LaterSteps(d, b) = LastSteps(d, b)
           /\ d.modifier # b.modifier => /\ LaterSteps(d, b) # <<>> /\ Head(LaterSteps(d, b)) = ModifierStep(d)
                                         /\ Tail(LaterSteps(d, b)) = LastSteps(d, b)
           /\ d.auto = b.auto => LastSteps(d, b) = <<>>
           /\ d.auto # b.auto => /\ LastSteps(d, b) # <<>> /\ Head(LastSteps(d, b)) = AutostartStep(d)
                                 /\ Tail(LastSteps(d, b)) = <<>>
<1> DEFINE u == [op |-> "update", item |-> d.item, keys |-> d.keys, orphan |-> FALSE]
           m == ModifierStep(d)
           a == AutostartStep(d)
           ms == IF d.modifier # b.modifier THEN <<m>> ELSE <<>>
           as == LastSteps(d, b)
<1>1. m \in LaterCommands /\ a \in LaterCommands
  BY DEF LaterCommands, ModifierStep, AutostartStep, Drafts
<1>2. Plan(d, b) = (<<u>> \o ms) \o as
  BY DEF Plan, LastSteps, ModifierStep, AutostartStep
<1>3. as = IF d.auto # b.auto THEN <<a>> ELSE <<>>
  BY DEF LastSteps
<1>4. LaterSteps(d, b) = IF d.modifier # b.modifier THEN <<m>> \o as ELSE as
  BY DEF LaterSteps
<1>5. ms = IF d.modifier # b.modifier THEN <<m>> ELSE <<>>
  OBVIOUS
<1> HIDE DEF u, m, a, ms, as
<1>6. <<a>> \in Seq(LaterCommands) /\ <<m>> \in Seq(LaterCommands) /\ <<>> \in Seq(LaterCommands)
      /\ Head(<<a>>) = a /\ Tail(<<a>>) = <<>> /\ <<a>> # <<>>
  BY <1>1
<1>7. as \in Seq(LaterCommands) /\ ms \in Seq(LaterCommands)
  <2>1. as \in Seq(LaterCommands)
    <3>1. as = <<a>> \/ as = <<>>
      BY <1>3
    <3> QED BY <1>6, <3>1
  <2>2. ms \in Seq(LaterCommands)
    <3>1. ms = <<m>> \/ ms = <<>>
      BY <1>5
    <3> QED BY <1>6, <3>1
  <2> QED BY <2>1, <2>2
<1>8. <<m>> \o as \in Seq(LaterCommands) /\ Head(<<m>> \o as) = m /\ Tail(<<m>> \o as) = as /\ <<m>> \o as # <<>>
  BY <1>1, <1>7, OnePut
<1>9. <<>> \o as = as /\ ms \o as = IF d.modifier # b.modifier THEN <<m>> \o as ELSE as
  <2>1. <<>> \o as = as
    BY <1>7, ConcatEmptySeq
  <2>2. CASE d.modifier = b.modifier
    BY <1>5, <2>1, <2>2
  <2>3. CASE d.modifier # b.modifier
    BY <1>5, <2>1, <2>3
  <2> QED BY <2>2, <2>3
<1>10. Head((<<u>> \o ms) \o as) = u /\ Tail((<<u>> \o ms) \o as) = ms \o as
  <2> DEFINE S == LaterCommands \cup {u}
  <2>1. u \in S /\ LaterCommands \subseteq S
    OBVIOUS
  <2> HIDE DEF S
  <2>2. ms \in Seq(S) /\ as \in Seq(S)
    BY <1>7, <2>1, SeqMonotonic
  <2>3. \A x \in S, q \in Seq(S), r \in Seq(S) : Head((<<x>> \o q) \o r) = x /\ Tail((<<x>> \o q) \o r) = q \o r
    BY TwoPut
  <2> QED BY <2>1, <2>2, <2>3, Zenon
<1> QED BY <1>2, <1>3, <1>4, <1>6, <1>7, <1>8, <1>9, <1>10 DEF u, m, a, as

LEMMA RoadsAreRoads == ASSUME RoadShape PROVE Road(sent) /\ Road(events) /\ Road(replies)
BY DEF RoadShape, Road

\* The host takes the first command, and answers r to a page that is still there.
Takes(r) ==
    /\ sent # <<>> /\ sent' = Tail(sent) /\ desk' = desk /\ r \in DeskAnswers
    /\ replies' = replies \o (IF Head(sent).orphan THEN <<>> ELSE <<r>>)
    /\ r.op = "bootstrap" <=> Head(sent).op = "bootstrap"
    /\ r.op \in EndOps <=> Head(sent).op \in SaveOps
    /\ events' \in Seq(DeskEvents) /\ (desk.phase = "closed" => events' = events)
Took(r) ==
    /\ Head(sent) \in DeskCommands /\ RoadShape' /\ OwnCommands' /\ desk' = desk
    /\ desk.phase = "loading" => /\ Head(sent).op # "bootstrap" => Range(replies') = {}
                                 /\ \A a \in Range(replies') : a = r
    /\ Ready => /\ ~Head(sent).orphan /\ Head(sent).op # "bootstrap" /\ Head(sent) \in Range(sent)
                /\ Range(sent') \subseteq Range(sent) /\ Range(replies') = Range(replies) \cup {r}
                /\ Head(sent).op \in SaveOps =>
                     desk.saving # None /\ Lacks(sent', SaveOps) /\ Lacks(replies, EndOps)

LEMMA HostTakes == ASSUME SettingsInv, NEW r, Takes(r) PROVE Took(r)
<1> DEFINE c == Head(sent)
<1>1. RoadShape /\ OwnCommands /\ DeskShape
  BY DEF SettingsInv, SettingsShape
<1>2. /\ sent # <<>> /\ sent' = Tail(sent) /\ desk' = desk /\ r \in DeskAnswers
      /\ replies' = replies \o (IF c.orphan THEN <<>> ELSE <<r>>)
      /\ r.op = "bootstrap" <=> c.op = "bootstrap"
      /\ r.op \in EndOps <=> c.op \in SaveOps
      /\ events' \in Seq(DeskEvents) /\ (desk.phase = "closed" => events' = events)
  BY DEF Takes
<1>3. sent \in Seq(DeskCommands) /\ replies \in Seq(DeskAnswers) /\ Road(sent) /\ Road(replies)
  BY <1>1, RoadsAreRoads DEF RoadShape
<1>4. c \in DeskCommands /\ sent' \in Seq(DeskCommands)
  BY <1>2, <1>3
<1>5. Range(sent) = Range(sent') \cup {c} /\ Len(sent') = Len(sent) - 1 /\ DOMAIN sent' = 1..(Len(sent) - 1)
      /\ Len(sent) \in Nat \ {0} /\ DOMAIN sent = 1..Len(sent) /\ c = sent[1]
      /\ \A i \in 1..(Len(sent) - 1) : sent'[i] = sent[i + 1]
  BY <1>2, <1>3, RoadMoves
<1>6. c.orphan => replies' = replies
  BY <1>2, <1>3
<1>7. ~c.orphan => replies' = Append(replies, r)
  BY <1>2, <1>3
<1>8. Road(Append(replies, r)) /\ Range(Append(replies, r)) = Range(replies) \cup {r} /\ Append(replies, r) \in Seq(DeskAnswers)
  BY <1>2, <1>3, RoadGrows
<1>9. c.op \in SaveOps => c.op # "bootstrap" /\ r.op # "bootstrap"
  BY <1>2 DEF SaveOps
<1> HIDE DEF c
<1>10. RoadShape'
  BY <1>2, <1>3, <1>4, <1>6, <1>7, <1>8 DEF RoadShape
<1>11. CASE desk.phase = "closed"
  <2>1. c.orphan /\ replies' = <<>> /\ events' = <<>> /\ \A d \in Range(sent') : d.orphan
    BY <1>1, <1>2, <1>5, <1>6, <1>11 DEF OwnCommands
  <2>2. OwnCommands'
    BY <1>2, <1>11, <2>1 DEF OwnCommands, Ready
  <2> QED BY <1>2, <1>4, <1>10, <1>11, <2>2 DEF Took, Ready, c
<1>12. CASE desk.phase = "loading"
  <2>1. replies = <<>> /\ (c.orphan \/ (Len(sent) = 1 /\ c.op = "bootstrap"))
        /\ \A i \in 1..Len(sent) : sent[i].orphan \/ (i = Len(sent) /\ sent[i].op = "bootstrap")
    <3>1. /\ \A i \in DOMAIN sent : sent[i].orphan \/ (i = Len(sent) /\ sent[i].op = "bootstrap")
          /\ replies = <<>> \/ sent = <<>>
      BY <1>1, <1>12 DEF OwnCommands
    <3>2. 1 \in DOMAIN sent /\ DOMAIN sent = 1..Len(sent)
      BY <1>5
    <3>3. c.orphan \/ (1 = Len(sent) /\ c.op = "bootstrap")
      BY <1>5, <3>1, <3>2
    <3>4. sent # <<>>
      BY <1>2
    <3> QED BY <3>1, <3>2, <3>3, <3>4, Zenon
  <2>2. \A i \in DOMAIN sent' : sent'[i].orphan \/ (i = Len(sent') /\ sent'[i].op = "bootstrap")
    BY <1>5, <2>1
  <2>3. Range(<<>>) = {} /\ Range(<<r>>) = {r}
    BY DEF Range
  <2>4. replies' = <<>> \/ (~c.orphan /\ sent' = <<>> /\ replies' = <<r>>)
    <3>1. CASE c.orphan
      BY <1>6, <2>1, <3>1
    <3>2. CASE ~c.orphan
      <4>1. replies' = <<r>>
        BY <1>7, <2>1, <3>2
      <4>2. sent' = <<>>
        BY <1>4, <1>5, <2>1, <3>2
      <4> QED BY <3>2, <4>1, <4>2
    <3> QED BY <3>1, <3>2
  <2>5. desk.saving = None
    BY <1>1, <1>12 DEF OwnCommands
  <2>6. OwnCommands'
    BY <1>2, <1>12, <2>1, <2>2, <2>4, <2>5 DEF OwnCommands, Ready
  <2>7. (\A a \in Range(replies') : a = r) /\ (c.op # "bootstrap" => Range(replies') = {})
    BY <2>1, <2>3, <2>4
  <2> QED BY <1>2, <1>4, <1>10, <1>12, <2>6, <2>7 DEF Took, Ready, c
<1>13. CASE Ready
  <2>1. /\ \A d \in Range(sent) : ~d.orphan
        /\ Lacks(sent, {"bootstrap"}) /\ Lacks(replies, {"bootstrap"})
        /\ AtMostOne(sent, SaveOps) /\ AtMostOne(replies, EndOps)
        /\ Lacks(sent, SaveOps) \/ Lacks(replies, EndOps)
        /\ desk.saving = None => Lacks(sent, SaveOps) /\ Lacks(replies, EndOps)
    BY <1>1, <1>13 DEF OwnCommands
  <2>2. ~c.orphan /\ c.op # "bootstrap" /\ replies' = Append(replies, r) /\ r.op # "bootstrap" /\ c \in Range(sent)
        /\ Range(sent') \subseteq Range(sent) /\ Range(replies') = Range(replies) \cup {r}
    BY <1>2, <1>5, <1>7, <1>8, <2>1 DEF Lacks
  <2>3. (c.op \in SaveOps => Lacks(sent', SaveOps)) /\ AtMostOne(sent', SaveOps)
    BY <1>2, <1>3, <2>1, OneLess DEF c
  <2>4. c.op \in SaveOps => desk.saving # None /\ Lacks(replies, EndOps)
    BY <2>1, <2>2 DEF Lacks
  <2>5. AtMostOne(replies', EndOps)
    BY <1>2, <1>3, <2>1, <2>2, <2>4, OneMore
  <2>6. (\A d \in Range(sent') : ~d.orphan) /\ Lacks(sent', {"bootstrap"}) /\ Lacks(replies', {"bootstrap"})
    BY <2>1, <2>2 DEF Lacks
  <2>7. Lacks(sent', SaveOps) \/ Lacks(replies', EndOps)
    BY <1>2, <2>1, <2>2, <2>3 DEF Lacks
  <2>8. desk.saving = None => Lacks(sent', SaveOps) /\ Lacks(replies', EndOps)
    BY <1>2, <2>1, <2>2, <2>4 DEF Lacks
  <2>9. OwnCommands'
    BY <1>2, <1>13, <2>3, <2>5, <2>6, <2>7, <2>8 DEF OwnCommands, Ready
  <2> QED BY <1>2, <1>4, <1>10, <1>13, <2>2, <2>3, <2>4, <2>9 DEF Took, Ready, c
<1> QED BY <1>1, <1>11, <1>12, <1>13 DEF DeskShape, Ready

\* The status, when a command leaves the listener alone.
LEMMA StatusKeeps ==
    ASSUME SettingsInv, NEW r, Took(r), events' = events, store'.bound = store.bound, past'.missed = past.missed,
           Head(sent).op = "bootstrap" => r.status = store.bound
    PROVE  StatusTold'
<1>1. StatusTold /\ desk' = desk
  BY DEF SettingsInv, Took
<1>2. desk.phase = "loading" => \A a \in Range(replies') : a.status = store'.bound
  BY DEF Took
<1> QED BY <1>1, <1>2 DEF StatusTold, LastHeard, Ready

\* A command that is none of a save, and changes nothing the page could see.
LEMMA SaveKeeps ==
    ASSUME SettingsInv, NEW r, Took(r), Head(sent).op \notin SaveOps, r.op \notin EndOps,
           store' = store, NoConf' = NoConf, Ready => NoAuto' = NoAuto,
           Head(sent).op = "bootstrap" => ConfIs(r.config)' /\ AutoIs(r.config.auto)'
    PROVE  SaveTold'
<1>1. SaveTold /\ desk' = desk
  BY DEF SettingsInv, Took
<1>2. desk.phase = "loading" => \A a \in Range(replies') : ConfIs(r.config)' /\ AutoIs(r.config.auto)' /\ a = r
  BY DEF Took
<1>3. Ready => Range(sent') \subseteq Range(sent) /\ Range(replies') = Range(replies) \cup {r}
  BY DEF Took
<1>4. r.op # "done" /\ r.op # "failed"
  BY DEF EndOps
<1>5. Ready => BaseIs' = BaseIs
  BY <1>1 DEF BaseIs, ConfIs, AutoIs
<1>6. ASSUME Ready, NEW s PROVE /\ EndsStep(s) => EndsStep(s)'
                                /\ Presettled(s) => Presettled(s)'
                                /\ \A c : /\ SendsUpdate(c, s) => SendsUpdate(c, s)'
                                          /\ SendsModifier(c, s) => SendsModifier(c, s)'
                                          /\ SendsAutostart(c, s) => SendsAutostart(c, s)'
  BY <1>1, <1>6 DEF EndsStep, Presettled, SendsUpdate, SendsModifier, SendsAutostart, ConfIs, AutoIs, PatchIs
<1>7. desk.phase = "loading" => \A a \in Range(replies') : ConfIs(a.config)' /\ AutoIs(a.config.auto)'
  BY <1>2
<1>8. ASSUME Ready, desk.saving # None
      PROVE  /\ \A c \in Range(sent') :
                  /\ c.op = "update" => SendsUpdate(c, desk.saving)'
                  /\ c.op = "modifier" => SendsModifier(c, desk.saving)'
                  /\ c.op = "autostart" => SendsAutostart(c, desk.saving)'
             /\ \A a \in Range(replies') :
                  /\ a.op = "done" => EndsStep(desk.saving)'
                  /\ a.op = "failed" => BaseIs'
             /\ Presettled(desk.saving)'
  BY <1>1, <1>3, <1>4, <1>5, <1>6, <1>8 DEF SaveTold
<1> QED BY <1>1, <1>5, <1>7, <1>8 DEF SaveTold, Ready

\* A command of a save.
LEMMA SaveTakes ==
    ASSUME SettingsInv, NEW r, Took(r), Head(sent).op \in SaveOps, r.op \in EndOps,
           Ready => /\ r.op = "done" => EndsStep(desk.saving)'
                    /\ r.op = "failed" => BaseIs'
                    /\ Presettled(desk.saving)'
    PROVE  SaveTold'
<1>1. desk' = desk
  BY DEF Took
<1>2. desk.phase = "loading" => Range(replies') = {}
  BY DEF Took, SaveOps
<1>3. ASSUME Ready
      PROVE  /\ desk.saving # None
             /\ \A c \in Range(sent') : c.op \notin SaveOps
             /\ \A a \in Range(replies') : a = r \/ a.op \notin EndOps
  BY <1>3 DEF Took, Lacks
<1>4. Ready /\ desk.saving # None =>
         /\ \A c \in Range(sent') :
              /\ c.op = "update" => SendsUpdate(c, desk.saving)'
              /\ c.op = "modifier" => SendsModifier(c, desk.saving)'
              /\ c.op = "autostart" => SendsAutostart(c, desk.saving)'
         /\ \A a \in Range(replies') :
              /\ a.op = "done" => EndsStep(desk.saving)'
              /\ a.op = "failed" => BaseIs'
         /\ Presettled(desk.saving)'
  BY <1>3 DEF SaveOps, EndOps
<1>5. Ready => desk.saving # None
  BY <1>3
<1> QED BY <1>1, <1>2, <1>4, <1>5 DEF SaveTold, Ready

\* What is known when a command of a save is taken.
LEMMA SaveKnown ==
    ASSUME SettingsInv, NEW r, Took(r), Head(sent).op \in SaveOps, Ready
    PROVE  /\ Head(sent).op = "update" => SendsUpdate(Head(sent), desk.saving)
           /\ Head(sent).op = "modifier" => SendsModifier(Head(sent), desk.saving)
           /\ Head(sent).op = "autostart" => SendsAutostart(Head(sent), desk.saving)
           /\ BaseIs \/ Head(sent).op # "update"
           /\ Presettled(desk.saving)
BY DEF Took, SettingsInv, SaveTold, SendsUpdate, BaseIs

\* One flag of the history changes, or two.
LEMMA PastFlag ==
    ASSUME PastShape, NEW b \in BOOLEAN
    PROVE  /\ past' = [past EXCEPT !.misread = b] =>
                PastShape' /\ past'.missed = past.missed /\ NoConf' = NoConf /\ past'.misread = b /\ past'.unsaved = past.unsaved
           /\ past' = [past EXCEPT !.unsaved = b] =>
                PastShape' /\ past'.missed = past.missed /\ NoConf' = NoConf /\ NoAuto' = NoAuto /\ past'.unsaved = b
           /\ past' = [past EXCEPT !.unsaved = TRUE, !.half = TRUE] =>
                PastShape' /\ past'.missed = past.missed /\ NoConf' /\ NoAuto' /\ past'.unsaved
           /\ past' = [past EXCEPT !.unsaved = FALSE, !.missed = b] =>
                PastShape' /\ past'.missed = b /\ NoConf' = NoConf /\ NoAuto' = NoAuto /\ past'.unsaved = FALSE
           /\ past' = [past EXCEPT !.half = TRUE] =>
                PastShape' /\ past'.missed = past.missed /\ NoConf' /\ NoAuto' /\ past'.unsaved = past.unsaved
           /\ past' = [past EXCEPT !.edited = TRUE, !.unsaved = FALSE, !.missed = b] =>
                PastShape' /\ past'.missed = b /\ NoConf' /\ NoAuto' = NoAuto /\ past'.unsaved = FALSE
           /\ past' = [past EXCEPT !.overwritten = b] =>
                PastShape' /\ past'.missed = past.missed /\ NoAuto' = NoAuto /\ past'.unsaved = past.unsaved
                /\ past'.overwritten = b /\ past'.edited = past.edited /\ past'.half = past.half
           /\ past' = NewPage(past) =>
                PastShape' /\ past'.missed = FALSE /\ past'.unsaved = past.unsaved
BY DEF PastShape, NoConf, NoAuto, NewPage

LEMMA CommandShapes ==
    ASSUME NEW c \in DeskCommands
    PROVE  /\ c.orphan \in BOOLEAN /\ c.op \in {"bootstrap", "recommend"} \cup SaveOps
           /\ c.op = "update" => c.item \in Items /\ c.keys \in KeySets
           /\ c.op = "modifier" => c.modifier \in Modifiers
           /\ c.op = "autostart" => c.auto \in BOOLEAN
BY DEF DeskCommands, SaveOps

LEMMA AnswerShapes ==
    /\ \A c \in Drafts, k \in KeySets : [op |-> "bootstrap", config |-> c, status |-> k] \in DeskAnswers
    /\ \A o \in {"recommend", "done", "failed"} : [op |-> o] \in DeskAnswers
BY DEF DeskAnswers

\* The bootstrap of a page.
LEMMA SettingsAreGiven == ASSUME SettingsInv, GetSettings PROVE SettingsInv'
<1>1. SettingsShape /\ FileTold
  BY DEF SettingsInv
<1>0. PICK r, b : r = [op |-> "bootstrap", config |-> store.conf, status |-> store.bound] /\ b = (store.startup # store.conf.auto)
  OBVIOUS
<1>2. store' = store /\ desk' = desk /\ events' = events /\ sent # <<>> /\ sent' = Tail(sent)
      /\ Head(sent).op = "bootstrap"
  BY DEF GetSettings, Runs
<1>3. past' = [past EXCEPT !.misread = b]
  BY <1>0 DEF GetSettings
<1>4. replies' = replies \o (IF Head(sent).orphan THEN <<>> ELSE <<r>>)
  BY <1>0 DEF GetSettings, Answers, Returned
<1>5. r.op = "bootstrap" /\ r.config = store.conf /\ r.status = store.bound /\ b \in BOOLEAN /\ r \in DeskAnswers
  BY <1>0, <1>1, AnswerShapes DEF SettingsShape, StoreShape
<1>7. Took(r)
  <2>1. Takes(r)
    BY <1>1, <1>2, <1>4, <1>5 DEF Takes, EndOps, SaveOps, SettingsShape, RoadShape
  <2> QED BY <2>1, HostTakes
<1>8. PastShape' /\ past'.missed = past.missed /\ NoConf' = NoConf /\ past'.misread = b /\ past'.unsaved = past.unsaved
  BY <1>1, <1>3, <1>5, PastFlag DEF SettingsShape
<1>9. StatusTold'
  BY <1>2, <1>5, <1>7, <1>8, StatusKeeps
<1>10. ~Ready
  BY <1>2, <1>7 DEF Took
<1>11. ConfIs(r.config)' /\ AutoIs(r.config.auto)'
  BY <1>0, <1>2, <1>5, <1>8 DEF ConfIs, AutoIs, Alike, NoAuto
<1>12. SaveTold'
  BY <1>2, <1>5, <1>7, <1>8, <1>10, <1>11, SaveKeeps DEF EndOps, SaveOps
<1>13. FileTold'
  BY <1>1, <1>2, <1>8 DEF FileTold
<1>14. SettingsShape' /\ OwnCommands'
  BY <1>1, <1>2, <1>7, <1>8 DEF SettingsShape, Took, StoreShape, DeskShape, Ready
<1> QED BY <1>9, <1>12, <1>13, <1>14 DEF SettingsInv

\* The recommended list, and a patch that is rejected.
LEMMA PlainAnswers == ASSUME SettingsInv, RecommendedBlacklist \/ UpdateRejected PROVE SettingsInv'
<1>1. SettingsShape /\ FileTold
  BY DEF SettingsInv
<1>2. store' = store /\ desk' = desk /\ past' = past /\ events' = events /\ sent # <<>> /\ sent' = Tail(sent)
  BY DEF RecommendedBlacklist, UpdateRejected, Runs
<1>3. NoConf' = NoConf /\ NoAuto' = NoAuto
  BY <1>2 DEF NoConf, NoAuto
<1>4. ASSUME NEW r, r \in DeskAnswers, replies' = replies \o (IF Head(sent).orphan THEN <<>> ELSE <<r>>),
             r.op # "bootstrap", Head(sent).op # "bootstrap", r.op \in EndOps <=> Head(sent).op \in SaveOps
      PROVE  Took(r) /\ StatusTold' /\ (SaveTold' => SettingsInv')
  <2>1. Takes(r)
    BY <1>1, <1>2, <1>4 DEF Takes, SettingsShape, RoadShape
  <2>2. Took(r)
    BY <2>1, HostTakes
  <2>3. StatusTold'
    BY <1>2, <1>4, <2>2, StatusKeeps
  <2>4. SettingsShape' /\ OwnCommands' /\ FileTold'
    BY <1>1, <1>2, <2>2 DEF SettingsShape, Took, StoreShape, DeskShape, Ready, PastShape, FileTold
  <2> QED BY <2>2, <2>3, <2>4 DEF SettingsInv
<1>5. CASE RecommendedBlacklist
  <2> DEFINE r == [op |-> "recommend"]
  <2>1. replies' = replies \o (IF Head(sent).orphan THEN <<>> ELSE <<r>>) /\ Head(sent).op = "recommend"
    BY <1>5 DEF RecommendedBlacklist, Answers, Returned, Runs
  <2>2. r \in DeskAnswers /\ r.op = "recommend"
    BY AnswerShapes
  <2> HIDE DEF r
  <2>3. Took(r) /\ (SaveTold' => SettingsInv')
    BY <1>4, <2>1, <2>2 DEF EndOps, SaveOps
  <2> QED BY <1>2, <1>3, <2>1, <2>2, <2>3, SaveKeeps DEF EndOps, SaveOps
<1>6. CASE UpdateRejected
  <2> DEFINE r == [op |-> "failed"]
  <2>1. replies' = replies \o (IF Head(sent).orphan THEN <<>> ELSE <<r>>) /\ Head(sent).op = "update"
    BY <1>6 DEF UpdateRejected, Answers, Returned, Runs
  <2>2. r \in DeskAnswers /\ r.op = "failed"
    BY AnswerShapes
  <2> HIDE DEF r
  <2>3. Took(r) /\ (SaveTold' => SettingsInv')
    BY <1>4, <2>1, <2>2 DEF EndOps, SaveOps
  <2>4. Ready => BaseIs /\ Presettled(desk.saving)
    BY <2>1, <2>3, SaveKnown DEF SaveOps
  <2>5. Ready => BaseIs' /\ Presettled(desk.saving)'
    BY <1>2, <2>4 DEF BaseIs, Presettled, ConfIs, AutoIs, NoConf, NoAuto
  <2> QED BY <2>1, <2>2, <2>3, <2>5, SaveTakes DEF EndOps, SaveOps
<1> QED BY <1>5, <1>6

\* What memory and the file are after an adoption.
LEMMA StoreMoves ==
    ASSUME StoreShape, NEW c \in Drafts, NEW k \in KeySets, NEW a \in BOOLEAN
    PROVE  /\ store' = [store EXCEPT !.conf = c, !.file = c, !.new = FALSE, !.bound = k] =>
                StoreShape' /\ store'.conf = c /\ store'.file = c /\ store'.bound = k /\ store'.startup = store.startup
           /\ store' = [store EXCEPT !.conf = c] =>
                StoreShape' /\ store'.conf = c /\ store'.bound = store.bound /\ store'.startup = store.startup
           /\ store' = [store EXCEPT !.startup = a] =>
                StoreShape' /\ store'.conf = store.conf /\ store'.file = store.file /\ store'.new = store.new
                /\ store'.bound = store.bound /\ store'.startup = a
           /\ store' = [store EXCEPT !.file = c, !.new = TRUE] =>
                StoreShape' /\ store'.conf = store.conf /\ store'.new = TRUE
                /\ store'.bound = store.bound /\ store'.startup = store.startup
BY DEF StoreShape

LEMMA FieldMoves ==
    ASSUME NEW c \in Drafts, NEW i \in Items, NEW k \in KeySets
    PROVE  [c EXCEPT !.item = i] \in Drafts /\ [c EXCEPT !.keys = k] \in Drafts /\ [c EXCEPT !.auto = ~@] \in Drafts
BY DEF Drafts

\* The patch, adopted, or left in memory by a save that failed.
LEMMA PatchesKeep == ASSUME SettingsInv, UpdateSettings \/ UpdateUnsaved PROVE SettingsInv'
<1>1. SettingsShape /\ FileTold
  BY DEF SettingsInv
<1>2. desk' = desk /\ events' = events /\ sent # <<>> /\ sent' = Tail(sent) /\ Head(sent).op = "update"
  BY DEF UpdateSettings, UpdateUnsaved, Runs, Adopted
<1>3. PICK p, c : p = Patched /\ c = Head(sent)
  OBVIOUS
<1>4. c \in DeskCommands
  BY <1>1, <1>2, <1>3 DEF SettingsShape, RoadShape
<1>5. p \in Drafts /\ p.item = c.item /\ p.keys = c.keys /\ p.modifier = store.conf.modifier
  <2>1. store.conf \in Drafts /\ c.item \in Items /\ c.keys \in KeySets
    BY <1>1, <1>2, <1>3, <1>4, CommandShapes DEF SettingsShape, StoreShape
  <2>2. p = [store.conf EXCEPT !.item = c.item, !.keys = c.keys]
    BY <1>3 DEF Patched
  <2>3. PICK q : q = store.conf
    OBVIOUS
  <2>4. q \in Drafts /\ p = [q EXCEPT !.item = c.item, !.keys = c.keys]
    BY <2>1, <2>2, <2>3
  <2>5. p \in Drafts /\ p.item = c.item /\ p.keys = c.keys /\ p.modifier = q.modifier
    BY <2>1, <2>4 DEF Drafts
  <2> QED BY <2>3, <2>5
<1>6. ASSUME NEW r, r \in DeskAnswers, replies' = replies \o (IF Head(sent).orphan THEN <<>> ELSE <<r>>),
             r.op \in EndOps, store'.bound = store.bound, past'.missed = past.missed, StoreShape', PastShape', FileTold',
             Took(r) => SaveTold'
      PROVE  SettingsInv'
  <2>1. Takes(r)
    BY <1>1, <1>2, <1>6 DEF Takes, SettingsShape, RoadShape, SaveOps, EndOps
  <2>2. Took(r)
    BY <2>1, HostTakes
  <2>3. StatusTold'
    BY <1>2, <1>6, <2>2, StatusKeeps
  <2>4. SettingsShape' /\ OwnCommands'
    BY <1>1, <1>2, <1>6, <2>2 DEF SettingsShape, Took, DeskShape, Ready
  <2> QED BY <1>6, <2>2, <2>3, <2>4 DEF SettingsInv
<1>7. CASE UpdateSettings
  <2> DEFINE r == [op |-> "done"]
  <2>1. replies' = replies \o (IF Head(sent).orphan THEN <<>> ELSE <<r>>)
    BY <1>7 DEF UpdateSettings, Answers, Returned
  <2>2. r \in DeskAnswers /\ r.op = "done"
    BY AnswerShapes
  <2> HIDE DEF r
  <2>3. StoreShape' /\ store'.conf = p /\ store'.file = p /\ store'.bound = store.bound /\ store'.startup = store.startup
    <3>1. store' = [store EXCEPT !.conf = p, !.file = p, !.new = FALSE, !.bound = store.bound]
      BY <1>3, <1>7 DEF UpdateSettings, Adopted
    <3>2. store.bound \in KeySets /\ StoreShape
      BY <1>1 DEF SettingsShape, StoreShape
    <3> QED BY <1>5, <3>1, <3>2, StoreMoves
  <2>4. PastShape' /\ past'.missed = past.missed /\ NoConf' = NoConf /\ NoAuto' = NoAuto
    <3>1. past' = [past EXCEPT !.unsaved = FALSE]
      BY <1>7 DEF UpdateSettings
    <3> QED BY <1>1, <3>1, PastFlag DEF SettingsShape
  <2>5. FileTold'
    BY <2>3 DEF FileTold
  <2>6. ASSUME Took(r) PROVE SaveTold'
    <3>1. Ready => SendsUpdate(c, desk.saving) /\ Presettled(desk.saving)
      BY <1>2, <1>3, <2>6, SaveKnown DEF SaveOps
    <3>2. Ready => EndsStep(desk.saving)' /\ Presettled(desk.saving)'
      BY <1>2, <1>5, <2>3, <2>4, <3>1
         DEF SendsUpdate, EndsStep, Presettled, ConfIs, AutoIs, PatchIs, Alike
    <3> QED BY <1>2, <2>2, <2>6, <3>2, SaveTakes DEF EndOps, SaveOps
  <2> QED BY <1>6, <2>1, <2>2, <2>3, <2>4, <2>5, <2>6 DEF EndOps
<1>8. CASE UpdateUnsaved
  <2> DEFINE r == [op |-> "failed"]
  <2>1. replies' = replies \o (IF Head(sent).orphan THEN <<>> ELSE <<r>>)
    BY <1>8 DEF UpdateUnsaved, Answers, Returned
  <2>2. r \in DeskAnswers /\ r.op = "failed"
    BY AnswerShapes
  <2> HIDE DEF r
  <2>3. StoreShape' /\ store'.bound = store.bound
    <3>1. store' = [store EXCEPT !.conf = p]
      BY <1>3, <1>8 DEF UpdateUnsaved
    <3>2. store.bound \in KeySets /\ StoreShape
      BY <1>1 DEF SettingsShape, StoreShape
    <3> QED BY <1>5, <3>1, <3>2, StoreMoves
  <2>4. PastShape' /\ past'.missed = past.missed /\ NoConf' /\ NoAuto' /\ past'.unsaved
    <3>1. past' = [past EXCEPT !.unsaved = TRUE, !.half = TRUE]
      BY <1>8 DEF UpdateUnsaved
    <3> QED BY <1>1, <3>1, PastFlag DEF SettingsShape
  <2>5. FileTold'
    BY <2>4 DEF FileTold
  <2>6. ASSUME Took(r) PROVE SaveTold'
    <3>1. BaseIs' /\ Presettled(desk.saving)'
      BY <2>4 DEF BaseIs, Presettled, ConfIs, AutoIs
    <3> QED BY <1>2, <2>2, <2>6, <3>1, SaveTakes DEF EndOps, SaveOps
  <2> QED BY <1>6, <2>1, <2>2, <2>3, <2>4, <2>5, <2>6 DEF EndOps
<1> QED BY <1>7, <1>8

\* The status after the listener was told of other shortcuts.
LEMMA TellsStatus ==
    ASSUME SettingsInv, desk' = desk, NEW k \in KeySets, store'.bound = k, past'.missed = Sees(TRUE),
           IF desk.phase # "closed" THEN Told(<<[kind |-> "keys", status |-> k]>>) ELSE UNCHANGED events
    PROVE  StatusTold' /\ events' \in Seq(DeskEvents) /\ (desk.phase = "closed" => events' = events)
<1> DEFINE e == [kind |-> "keys", status |-> k]
<1>1. events \in Seq(DeskEvents) /\ Road(events)
  BY RoadsAreRoads DEF SettingsInv, SettingsShape, RoadShape
<1>2. e \in DeskEvents /\ e.status = k
  BY DEF DeskEvents
<1>3. CASE desk.phase = "closed"
  BY <1>1, <1>3 DEF StatusTold, Ready, Sees
<1>4. CASE desk.phase # "closed"
  <2>1. events' = events \o <<e>>
    BY <1>4 DEF Told
  <2> HIDE DEF e
  <2>2. events' = Append(events, e)
    BY <1>1, <2>1
  <2>3. events' \in Seq(DeskEvents) /\ events' # <<>> /\ Len(events') = Len(events) + 1 /\ events'[Len(events) + 1] = e
    BY <1>1, <1>2, <2>2
  <2>4. StatusTold'
    BY <1>2, <2>3 DEF StatusTold, LastHeard, Ready, Sees
  <2> QED BY <1>4, <2>3, <2>4
<1> QED BY <1>3, <1>4

\* The modifier, which brings the preset's shortcuts.
LEMMA ModifierKeeps == ASSUME SettingsInv, SetModifier PROVE SettingsInv'
<1>1. SettingsShape /\ FileTold
  BY DEF SettingsInv
<1>2. desk' = desk /\ sent # <<>> /\ sent' = Tail(sent) /\ Head(sent).op = "modifier"
  BY DEF SetModifier, Runs
<1>3. PICK q, c : q = store.conf /\ c = Head(sent)
  OBVIOUS
<1>4. PICK p : p = [q EXCEPT !.modifier = c.modifier, !.keys = c.modifier]
  OBVIOUS
<1>5. PICK b : b = (p # q)
  OBVIOUS
<1>6. b \in BOOLEAN
  BY <1>5
<1>7. Adopted(p, b) /\ past' = [past EXCEPT !.unsaved = FALSE, !.missed = Sees(b)]
  BY <1>3, <1>4, <1>5 DEF SetModifier
<1>8. q \in Drafts /\ c \in DeskCommands /\ c.modifier \in Modifiers /\ c.modifier \in KeySets
  BY <1>1, <1>2, <1>3, CommandShapes DEF SettingsShape, StoreShape, RoadShape, KeySets
<1>9. p \in Drafts /\ p.item = q.item /\ p.keys = c.modifier /\ p.modifier = c.modifier
  BY <1>4, <1>8 DEF Drafts
<1>10. PICK k : k = IF b THEN p.keys ELSE store.bound
  OBVIOUS
<1>11. StoreShape' /\ store'.conf = p /\ store'.file = p /\ store'.bound = k /\ store'.startup = store.startup
  <2>1. store' = [store EXCEPT !.conf = p, !.file = p, !.new = FALSE, !.bound = k]
    BY <1>7, <1>10 DEF Adopted
  <2>2. k \in KeySets /\ StoreShape
    BY <1>1, <1>8, <1>9, <1>10 DEF SettingsShape, StoreShape
  <2> QED BY <1>9, <2>1, <2>2, StoreMoves
<1>12. PICK z : z = Sees(b)
  OBVIOUS
<1>13. PastShape' /\ past'.missed = z /\ NoConf' = NoConf /\ NoAuto' = NoAuto
  <2>1. z \in BOOLEAN
    BY <1>1, <1>12 DEF SettingsShape, PastShape, Sees
  <2>2. past' = [past EXCEPT !.unsaved = FALSE, !.missed = z]
    BY <1>7, <1>12
  <2> QED BY <1>1, <2>1, <2>2 DEF SettingsShape, PastShape, NoConf, NoAuto
<1> DEFINE r == [op |-> "done"]
<1>14. replies' = replies \o (IF Head(sent).orphan THEN <<>> ELSE <<r>>)
  BY DEF SetModifier, Answers, Returned
<1>15. r \in DeskAnswers /\ r.op = "done"
  BY AnswerShapes
<1> HIDE DEF r
<1>16. b => StatusTold' /\ events' \in Seq(DeskEvents) /\ (desk.phase = "closed" => events' = events)
  <2> SUFFICES ASSUME b PROVE StatusTold' /\ events' \in Seq(DeskEvents) /\ (desk.phase = "closed" => events' = events)
    OBVIOUS
  <2>1. p.keys \in KeySets /\ store'.bound = p.keys
    BY <1>8, <1>9, <1>10, <1>11
  <2>2. past'.missed = Sees(TRUE)
    BY <1>12, <1>13
  <2>3. IF desk.phase # "closed" THEN Told(<<[kind |-> "keys", status |-> p.keys]>>) ELSE UNCHANGED events
    BY <1>7 DEF Adopted
  <2> QED BY <1>2, <2>1, <2>2, <2>3, TellsStatus
<1>17. ~b => events' = events /\ store'.bound = store.bound /\ past'.missed = past.missed
  BY <1>7, <1>10, <1>11, <1>12, <1>13 DEF Adopted, Sees
<1>18. Took(r)
  <2>1. Takes(r)
    BY <1>1, <1>2, <1>6, <1>14, <1>15, <1>16, <1>17 DEF Takes, SettingsShape, RoadShape, SaveOps, EndOps
  <2> QED BY <2>1, HostTakes
<1>19. StatusTold'
  <2>1. CASE b
    BY <1>16, <2>1
  <2>2. CASE ~b
    BY <1>2, <1>17, <1>18, <2>2, StatusKeeps
  <2> QED BY <1>6, <2>1, <2>2
<1>20. SaveTold'
  <2>1. Ready => SendsModifier(c, desk.saving) /\ Presettled(desk.saving)
    BY <1>2, <1>3, <1>18, SaveKnown DEF SaveOps
  <2>2. Ready => EndsStep(desk.saving)' /\ Presettled(desk.saving)'
    BY <1>2, <1>3, <1>9, <1>11, <1>13, <2>1
       DEF SendsModifier, EndsStep, Presettled, ConfIs, AutoIs, PatchIs, Alike
  <2> QED BY <1>2, <1>15, <1>18, <2>2, SaveTakes DEF EndOps, SaveOps
<1>21. FileTold'
  BY <1>11 DEF FileTold
<1>22. SettingsShape' /\ OwnCommands'
  BY <1>1, <1>2, <1>11, <1>13, <1>18 DEF SettingsShape, Took, DeskShape, Ready
<1> QED BY <1>19, <1>20, <1>21, <1>22 DEF SettingsInv

\* The registration, and a later command that fails.
LEMMA LaterCommandsKeep == ASSUME SettingsInv, SetAutostart \/ LaterCommandFails PROVE SettingsInv'
<1>1. SettingsShape /\ FileTold
  BY DEF SettingsInv
<1>2. desk' = desk /\ events' = events /\ sent # <<>> /\ sent' = Tail(sent) /\ Head(sent).op \in {"modifier", "autostart"}
  BY DEF SetAutostart, LaterCommandFails, Runs
<1>3. PICK c : c = Head(sent)
  OBVIOUS
<1>4. c \in DeskCommands
  BY <1>1, <1>2, <1>3 DEF SettingsShape, RoadShape
<1>5. ASSUME NEW r, r \in DeskAnswers, replies' = replies \o (IF Head(sent).orphan THEN <<>> ELSE <<r>>),
             r.op \in EndOps, store'.bound = store.bound, past'.missed = past.missed, StoreShape', PastShape', FileTold',
             Took(r) => SaveTold'
      PROVE  SettingsInv'
  <2>1. Takes(r)
    BY <1>1, <1>2, <1>5 DEF Takes, SettingsShape, RoadShape, SaveOps, EndOps
  <2>2. Took(r)
    BY <2>1, HostTakes
  <2>3. StatusTold'
    BY <1>2, <1>5, <2>2, StatusKeeps
  <2>4. SettingsShape' /\ OwnCommands'
    BY <1>1, <1>2, <1>5, <2>2 DEF SettingsShape, Took, DeskShape, Ready
  <2> QED BY <1>5, <2>2, <2>3, <2>4 DEF SettingsInv
<1>6. CASE SetAutostart
  <2> DEFINE r == [op |-> "done"]
  <2>1. replies' = replies \o (IF Head(sent).orphan THEN <<>> ELSE <<r>>) /\ c.op = "autostart" /\ past' = past
    BY <1>3, <1>6 DEF SetAutostart, Answers, Returned, Runs
  <2>2. r \in DeskAnswers /\ r.op = "done"
    BY AnswerShapes
  <2> HIDE DEF r
  <2>3. StoreShape' /\ store'.conf = store.conf /\ store'.file = store.file /\ store'.new = store.new
        /\ store'.bound = store.bound /\ store'.startup = c.auto
    <3>1. store' = [store EXCEPT !.startup = c.auto]
      BY <1>3, <1>6 DEF SetAutostart
    <3>2. c.auto \in BOOLEAN /\ StoreShape
      BY <1>1, <1>4, <2>1, CommandShapes DEF SettingsShape
    <3> QED BY <3>1, <3>2 DEF StoreShape
  <2>4. PastShape' /\ past'.missed = past.missed /\ NoConf' = NoConf /\ NoAuto' = NoAuto
    BY <1>1, <2>1 DEF SettingsShape, PastShape, NoConf, NoAuto
  <2>5. FileTold'
    BY <1>1, <2>1, <2>3 DEF FileTold
  <2>6. ASSUME Took(r) PROVE SaveTold'
    <3>1. Ready => SendsAutostart(c, desk.saving) /\ Presettled(desk.saving)
      BY <1>3, <2>1, <2>6, SaveKnown DEF SaveOps
    <3>2. Ready => EndsStep(desk.saving)' /\ Presettled(desk.saving)'
      BY <1>2, <2>3, <2>4, <3>1
         DEF SendsAutostart, EndsStep, Presettled, ConfIs, AutoIs, PatchIs, Alike
    <3> QED BY <1>2, <2>2, <2>6, <3>2, SaveTakes DEF EndOps, SaveOps
  <2> QED BY <1>5, <2>1, <2>2, <2>3, <2>4, <2>5, <2>6 DEF EndOps
<1>7. CASE LaterCommandFails
  <2> DEFINE r == [op |-> "failed"]
  <2>1. replies' = replies \o (IF Head(sent).orphan THEN <<>> ELSE <<r>>) /\ store' = store
    BY <1>7 DEF LaterCommandFails, Answers, Returned
  <2>2. r \in DeskAnswers /\ r.op = "failed"
    BY AnswerShapes
  <2> HIDE DEF r
  <2>4. PastShape' /\ past'.missed = past.missed /\ NoConf' /\ NoAuto' /\ past'.unsaved = past.unsaved
    <3>1. past' = [past EXCEPT !.half = TRUE]
      BY <1>7 DEF LaterCommandFails
    <3> QED BY <1>1, <3>1, PastFlag DEF SettingsShape
  <2>5. FileTold' /\ StoreShape'
    BY <1>1, <2>1, <2>4 DEF FileTold, StoreShape, SettingsShape
  <2>6. ASSUME Took(r) PROVE SaveTold'
    <3>1. BaseIs' /\ Presettled(desk.saving)'
      BY <2>4 DEF BaseIs, Presettled, ConfIs, AutoIs
    <3> QED BY <1>2, <2>2, <2>6, <3>1, SaveTakes DEF EndOps, SaveOps
  <2> QED BY <1>5, <2>1, <2>2, <2>4, <2>5, <2>6 DEF EndOps
<1> QED BY <1>6, <1>7

\* The file is edited, and read again.
LEMMA FileEditsKeep == ASSUME SettingsInv, EditFile PROVE SettingsInv'
<1>1. SettingsShape /\ OwnCommands /\ StatusTold /\ SaveTold
  BY DEF SettingsInv
<1>2. desk' = desk /\ past' = past /\ sent' = sent /\ events' = events /\ replies' = replies
  BY DEF EditFile, channel
<1>3. PICK c : c \in Drafts /\ store' = [store EXCEPT !.file = c, !.new = TRUE]
  <2>1. PICK c \in {[p EXCEPT !.item = "other"] : p \in Presets} \cup {[p EXCEPT !.keys = "custom"] : p \in Presets} :
          store' = [store EXCEPT !.file = c, !.new = TRUE]
    BY DEF EditFile
  <2>2. \A p \in Presets : p \in Drafts
    <3>1. \A m \in Modifiers : Config("plain", m, m, FALSE) \in Drafts
      BY DEF Config, Drafts, Items, KeySets
    <3> QED BY <3>1 DEF Presets
  <2>3. \A p \in Presets : [p EXCEPT !.item = "other"] \in Drafts /\ [p EXCEPT !.keys = "custom"] \in Drafts
    BY <2>2 DEF Drafts, Items, KeySets
  <2> QED BY <2>1, <2>3
<1>4. StoreShape' /\ store'.conf = store.conf /\ store'.new = TRUE
                /\ store'.bound = store.bound /\ store'.startup = store.startup
  BY <1>1, <1>3 DEF SettingsShape, StoreShape
<1>5. FileTold'
  BY <1>4 DEF FileTold
<1>6. SettingsShape' /\ OwnCommands'
  BY <1>1, <1>2, <1>4 DEF SettingsShape, OwnCommands, Ready, DeskShape, RoadShape, PastShape
<1>7. StatusTold'
  BY <1>1, <1>2, <1>4 DEF StatusTold, LastHeard, Ready
<1>8. SaveTold'
  BY <1>1, <1>2, <1>4 DEF SaveTold, Ready, BaseIs, ConfIs, AutoIs, NoConf, NoAuto, SendsUpdate, SendsModifier,
                          SendsAutostart, EndsStep, Presettled, PatchIs
<1> QED BY <1>5, <1>6, <1>7, <1>8 DEF SettingsInv

LEMMA ReloadsKeep == ASSUME SettingsInv, Reload PROVE SettingsInv'
<1>1. SettingsShape /\ OwnCommands /\ StatusTold /\ SaveTold
  BY DEF SettingsInv
<1>2. desk' = desk /\ sent' = sent /\ replies' = replies
  BY DEF Reload
<1>3. PICK p, b : p = store.file /\ b = (p.keys # store.conf.keys \/ p.modifier # store.conf.modifier)
  OBVIOUS
<1>4. b \in BOOLEAN
  BY <1>3
<1>5. Adopted(p, b) /\ past' = [past EXCEPT !.edited = TRUE, !.unsaved = FALSE, !.missed = Sees(b)]
  BY <1>3 DEF Reload
<1>6. PICK k : k = IF b THEN p.keys ELSE store.bound
  OBVIOUS
<1>7. p \in Drafts /\ p.keys \in KeySets /\ k \in KeySets
  BY <1>1, <1>3, <1>6 DEF SettingsShape, StoreShape, Drafts
<1>8. StoreShape' /\ store'.conf = p /\ store'.file = p /\ store'.bound = k /\ store'.startup = store.startup
  <2>1. store' = [store EXCEPT !.conf = p, !.file = p, !.new = FALSE, !.bound = k]
    BY <1>5, <1>6 DEF Adopted
  <2> QED BY <1>1, <1>7, <2>1, StoreMoves DEF SettingsShape
<1>9. PICK z : z = Sees(b)
  OBVIOUS
<1>10. PastShape' /\ past'.missed = z /\ NoConf' /\ NoAuto' = NoAuto
  <2>1. z \in BOOLEAN
    BY <1>1, <1>9 DEF SettingsShape, PastShape, Sees
  <2>2. past' = [past EXCEPT !.edited = TRUE, !.unsaved = FALSE, !.missed = z]
    BY <1>5, <1>9
  <2> QED BY <1>1, <2>1, <2>2 DEF SettingsShape, PastShape, NoConf, NoAuto
<1>11. StatusTold' /\ events' \in Seq(DeskEvents) /\ (desk.phase = "closed" => events' = events)
  <2>1. CASE b
    <3>1. past'.missed = Sees(TRUE) /\ store'.bound = p.keys
      BY <1>6, <1>8, <1>9, <1>10, <2>1
    <3>2. IF desk.phase # "closed" THEN Told(<<[kind |-> "keys", status |-> p.keys]>>) ELSE UNCHANGED events
      BY <1>5, <2>1 DEF Adopted
    <3> QED BY <1>2, <1>7, <3>1, <3>2, TellsStatus
  <2>2. CASE ~b
    <3>1. events' = events /\ store'.bound = store.bound /\ past'.missed = past.missed
      BY <1>5, <1>6, <1>8, <1>9, <1>10, <2>2 DEF Adopted, Sees
    <3> QED BY <1>1, <1>2, <3>1 DEF StatusTold, LastHeard, Ready, SettingsShape, RoadShape
  <2> QED BY <1>4, <2>1, <2>2
<1>12. FileTold'
  BY <1>8 DEF FileTold
<1>13. SettingsShape' /\ OwnCommands'
  <2>1. desk.phase = "closed" => events' = <<>>
    BY <1>1, <1>11 DEF OwnCommands
  <2> QED BY <1>1, <1>2, <1>8, <1>10, <1>11, <2>1 DEF SettingsShape, OwnCommands, Ready, DeskShape, RoadShape
<1>14. SaveTold'
  BY <1>1, <1>2, <1>8, <1>10 DEF SaveTold, Ready, BaseIs, ConfIs, AutoIs, NoAuto, SendsUpdate, SendsModifier,
                          SendsAutostart, EndsStep, Presettled, PatchIs
<1> QED BY <1>11, <1>12, <1>13, <1>14 DEF SettingsInv

\* A change of the draft.
LEMMA DraftsKeep ==
    ASSUME SettingsInv, Ready, store' = store, past' = past, sent' = sent, events' = events,
           replies' = replies \/ (replies # <<>> /\ Head(replies).op = "recommend" /\ replies' = Tail(replies)),
           NEW d \in Drafts, Draft(d)
    PROVE  SettingsInv'
<1>1. SettingsShape /\ OwnCommands /\ StatusTold /\ SaveTold /\ FileTold
  BY DEF SettingsInv
<1>2. desk' = [phase |-> desk.phase, listens |-> desk.listens, base |-> desk.base, draft |-> d,
               status |-> desk.status, saving |-> desk.saving, shown |-> None]
  BY <1>1 DEF SettingsShape, DeskShape, Draft
<1>3. desk'.phase = desk.phase /\ desk'.listens = desk.listens /\ desk'.base = desk.base /\ desk'.draft = d
      /\ desk'.status = desk.status /\ desk'.saving = desk.saving /\ desk'.shown = None
  BY <1>2
<1>4. DeskShape'
  BY <1>1, <1>2, <1>3 DEF DeskShape, SettingsShape, Ready
<1>5. Hauls(replies, replies', EndOps) /\ Hauls(replies, replies', {"bootstrap"})
  BY DEF Hauls
<1>6. Road(replies)
  BY <1>1, RoadsAreRoads DEF SettingsShape
<1>7. /\ Lacks(replies, EndOps) => Lacks(replies', EndOps)
      /\ AtMostOne(replies, EndOps) => AtMostOne(replies', EndOps)
      /\ \A a \in Range(replies') : a.op \in EndOps => a \in Range(replies)
  BY <1>5, <1>6, HaulsKeep
<1>8. Lacks(replies, {"bootstrap"}) => Lacks(replies', {"bootstrap"})
  BY <1>5, <1>6, HaulsKeep
<1>9. RoadShape'
  <2>1. replies \in Seq(DeskAnswers) /\ sent \in Seq(DeskCommands) /\ events \in Seq(DeskEvents)
    BY <1>1 DEF SettingsShape, RoadShape
  <2>2. replies' \in Seq(DeskAnswers)
    <3>1. CASE replies' = replies
      BY <2>1, <3>1
    <3>2. CASE replies # <<>> /\ replies' = Tail(replies)
      BY <2>1, <3>2
    <3> QED BY <3>1, <3>2
  <2> QED BY <2>1, <2>2 DEF RoadShape
<1>10. OwnCommands'
  BY <1>1, <1>3, <1>7, <1>8 DEF OwnCommands, Ready
<1>11. StatusTold'
  BY <1>1, <1>3 DEF StatusTold, LastHeard, Ready
<1>12. NoConf' = NoConf /\ NoAuto' = NoAuto
  BY DEF NoConf, NoAuto
<1>13. \A a \in Range(replies') : a.op \in {"done", "failed"} => a \in Range(replies)
  BY <1>7 DEF EndOps
<1>14. SaveTold'
  BY <1>1, <1>3, <1>12, <1>13 DEF SaveTold, Ready, BaseIs, ConfIs, AutoIs, SendsUpdate, SendsModifier,
                          SendsAutostart, EndsStep, Presettled, PatchIs
<1>15. FileTold' /\ SettingsShape'
  BY <1>1, <1>4, <1>9 DEF FileTold, SettingsShape, StoreShape, PastShape
<1> QED BY <1>10, <1>11, <1>14, <1>15 DEF SettingsInv

\* Only a ready page has answers to a save, or to the recommended list.
LEMMA AnswersAreReady ==
    ASSUME SettingsInv, replies # <<>>, Head(replies).op # "bootstrap"
    PROVE  Ready
<1>1. OwnCommands /\ DeskShape
  BY DEF SettingsInv, SettingsShape
<1>2. CASE desk.phase = "loading"
  <2>1. PICK r : r.op = "bootstrap" /\ replies = <<r>>
    BY <1>1, <1>2 DEF OwnCommands
  <2>2. Head(replies) = r
    BY <2>1
  <2> QED BY <2>1, <2>2
<1>3. desk.phase # "closed"
  BY <1>1 DEF OwnCommands
<1> QED BY <1>1, <1>2, <1>3 DEF DeskShape, Ready

LEMMA EditsKeep ==
    ASSUME SettingsInv,
           \/ \E item \in Items : Type(item)
           \/ Record \/ (\E m \in Modifiers : PickModifier(m)) \/ FlipAutostart \/ ResetDraft \/ OnRecommended
    PROVE  SettingsInv'
<1>1. Ready => desk.base \in Drafts /\ desk.draft \in Drafts
  BY DEF SettingsInv, SettingsShape, DeskShape
<1>2. CASE \E item \in Items : Type(item)
  <2>1. PICK item \in Items : Type(item)
    BY <1>2
  <2>2. Ready /\ UNCHANGED <<store, past, channel>> /\ Draft([desk.draft EXCEPT !.item = item])
    BY <2>1 DEF Type, ByHand
  <2>3. PICK d : d = [desk.draft EXCEPT !.item = item]
    OBVIOUS
  <2>4. d \in Drafts /\ Draft(d)
    BY <1>1, <2>2, <2>3 DEF Drafts
  <2> QED BY <2>2, <2>4, DraftsKeep DEF channel
<1>3. CASE Record
  <2>2. Ready /\ UNCHANGED <<store, past, channel>> /\ Draft([desk.draft EXCEPT !.keys = "custom"])
    BY <1>3 DEF Record, ByHand
  <2>3. PICK d : d = [desk.draft EXCEPT !.keys = "custom"]
    OBVIOUS
  <2>4. d \in Drafts /\ Draft(d)
    BY <1>1, <2>2, <2>3 DEF Drafts, KeySets
  <2> QED BY <2>2, <2>4, DraftsKeep DEF channel
<1>4. CASE \E m \in Modifiers : PickModifier(m)
  <2>1. PICK m \in Modifiers : PickModifier(m)
    BY <1>4
  <2>2. Ready /\ UNCHANGED <<store, past, channel>> /\ Draft([desk.draft EXCEPT !.modifier = m, !.keys = m])
    BY <2>1 DEF PickModifier, ByHand
  <2>3. PICK d : d = [desk.draft EXCEPT !.modifier = m, !.keys = m]
    OBVIOUS
  <2>4. d \in Drafts /\ Draft(d)
    BY <1>1, <2>2, <2>3 DEF Drafts, KeySets
  <2> QED BY <2>2, <2>4, DraftsKeep DEF channel
<1>5. CASE FlipAutostart
  <2>2. Ready /\ UNCHANGED <<store, past, channel>> /\ Draft([desk.draft EXCEPT !.auto = ~@])
    BY <1>5 DEF FlipAutostart, ByHand
  <2>3. PICK d : d = [desk.draft EXCEPT !.auto = ~@]
    OBVIOUS
  <2>4. d \in Drafts /\ Draft(d)
    BY <1>1, <2>2, <2>3 DEF Drafts
  <2> QED BY <2>2, <2>4, DraftsKeep DEF channel
<1>6. CASE ResetDraft
  <2>2. Ready /\ UNCHANGED <<store, past, channel>> /\ Draft(desk.base)
    BY <1>6 DEF ResetDraft, ByHand
  <2>3. PICK d : d = desk.base
    OBVIOUS
  <2> QED BY <1>1, <2>2, <2>3, DraftsKeep DEF channel
<1>7. CASE OnRecommended
  <2>1. replies # <<>> /\ Head(replies).op = "recommend" /\ replies' = Tail(replies) /\ UNCHANGED <<store, past, sent, events>>
    BY <1>7 DEF OnRecommended, Reply
  <2>2. Ready
    BY <2>1, AnswersAreReady
  <2>3. PICK d : d = [desk.draft EXCEPT !.item = "other"]
    OBVIOUS
  <2>4. d \in Drafts /\ Draft(d)
    BY <1>1, <1>7, <2>2, <2>3 DEF Drafts, Items, OnRecommended
  <2> QED BY <2>1, <2>2, <2>4, DraftsKeep
<1> QED BY <1>2, <1>3, <1>4, <1>5, <1>6, <1>7

\* The recommended list is asked for.
LEMMA RecommendKeeps == ASSUME SettingsInv, Recommend PROVE SettingsInv'
<1>1. SettingsShape /\ OwnCommands /\ StatusTold /\ SaveTold /\ FileTold
  BY DEF SettingsInv
<1> DEFINE c == [op |-> "recommend", orphan |-> FALSE]
<1>2. Ready /\ sent' = Append(sent, c) /\ UNCHANGED <<store, desk, past, events, replies>>
  BY DEF Recommend, Invoke
<1>3. c \in DeskCommands /\ c.op = "recommend" /\ ~c.orphan
  BY DEF DeskCommands
<1> HIDE DEF c
<1>4. Road(sent) /\ sent \in Seq(DeskCommands)
  BY <1>1, RoadsAreRoads DEF SettingsShape, RoadShape
<1>5. sent' \in Seq(DeskCommands) /\ Range(sent') = Range(sent) \cup {c}
  BY <1>2, <1>3, <1>4, RoadGrows
<1>6. AtMostOne(sent, SaveOps) => AtMostOne(sent', SaveOps)
  BY <1>2, <1>3, <1>4, OneMore DEF SaveOps
<1>7. (Lacks(sent, SaveOps) => Lacks(sent', SaveOps)) /\ (Lacks(sent, {"bootstrap"}) => Lacks(sent', {"bootstrap"}))
  BY <1>3, <1>5 DEF Lacks, SaveOps
<1>8. OwnCommands'
  BY <1>1, <1>2, <1>3, <1>5, <1>6, <1>7 DEF OwnCommands, Ready
<1>9. StatusTold' /\ FileTold'
  BY <1>1, <1>2 DEF StatusTold, FileTold, LastHeard, Ready
<1>10. SettingsShape'
  BY <1>1, <1>2, <1>5 DEF SettingsShape, RoadShape, DeskShape, StoreShape, PastShape, Ready
<1>11. NoConf' = NoConf /\ NoAuto' = NoAuto
  BY <1>2 DEF NoConf, NoAuto
<1>12. SaveTold'
  BY <1>1, <1>2, <1>3, <1>5, <1>11 DEF SaveTold, Ready, BaseIs, ConfIs, AutoIs, SendsUpdate, SendsModifier,
                          SendsAutostart, EndsStep, Presettled, PatchIs
<1> QED BY <1>8, <1>9, <1>10, <1>12 DEF SettingsInv

\* The page listens.
LEMMA ListensKeep == ASSUME SettingsInv, ListenKeys PROVE SettingsInv'
<1>1. SettingsShape /\ OwnCommands /\ StatusTold /\ SaveTold /\ FileTold
  BY DEF SettingsInv
<1>2. UNCHANGED <<store, past, sent, events, replies>>
  BY DEF ListenKeys, channel
<1>3. desk' = [phase |-> desk.phase, listens |-> TRUE, base |-> desk.base, draft |-> desk.draft,
               status |-> desk.status, saving |-> desk.saving, shown |-> desk.shown]
  BY <1>1 DEF SettingsShape, DeskShape, ListenKeys
<1>4. desk'.phase = desk.phase /\ desk'.base = desk.base /\ desk'.draft = desk.draft /\ desk'.listens
      /\ desk'.status = desk.status /\ desk'.saving = desk.saving /\ desk'.listens \in BOOLEAN
  BY <1>3
<1>5. DeskShape'
  BY <1>1, <1>3, <1>4 DEF DeskShape, SettingsShape, Ready
<1>6. NoConf' = NoConf /\ NoAuto' = NoAuto
  BY <1>2 DEF NoConf, NoAuto
<1>7. OwnCommands' /\ StatusTold'
  BY <1>1, <1>2, <1>4 DEF OwnCommands, StatusTold, LastHeard, Ready
<1>8. SaveTold'
  BY <1>1, <1>2, <1>4, <1>6 DEF SaveTold, Ready, BaseIs, ConfIs, AutoIs, SendsUpdate, SendsModifier,
                          SendsAutostart, EndsStep, Presettled, PatchIs
<1>9. FileTold' /\ SettingsShape'
  BY <1>1, <1>2, <1>5 DEF FileTold, SettingsShape, StoreShape, PastShape, RoadShape
<1> QED BY <1>7, <1>8, <1>9 DEF SettingsInv

\* A page is opened, and closed.
LEMMA OpensKeep == ASSUME SettingsInv, OpenPage PROVE SettingsInv'
<1>1. SettingsShape /\ OwnCommands /\ FileTold
  BY DEF SettingsInv
<1> DEFINE c == [op |-> "bootstrap", orphan |-> FALSE]
<1>2. desk.phase = "closed" /\ sent' = Append(sent, c) /\ UNCHANGED <<store, events, replies>> /\ past' = NewPage(past)
  BY DEF OpenPage, Invoke
<1>3. c \in DeskCommands /\ c.op = "bootstrap" /\ ~c.orphan
  BY DEF DeskCommands
<1> HIDE DEF c
<1>4. desk' = [phase |-> "loading", listens |-> FALSE, base |-> None, draft |-> None,
               status |-> None, saving |-> None, shown |-> None]
  BY DEF OpenPage, ClosedDesk
<1>5. desk'.phase = "loading" /\ desk'.listens = FALSE /\ desk'.saving = None
  BY <1>4
<1>6. DeskShape'
  BY <1>4, <1>5 DEF DeskShape, Ready
<1>7. events = <<>> /\ replies = <<>> /\ \A d \in Range(sent) : d.orphan
  BY <1>1, <1>2 DEF OwnCommands
<1>8. sent \in Seq(DeskCommands) /\ Road(sent)
  BY <1>1, RoadsAreRoads DEF SettingsShape, RoadShape
<1>9. sent' \in Seq(DeskCommands)
  BY <1>2, <1>3, <1>8
<1>10. \A i \in DOMAIN sent' : sent'[i].orphan \/ (i = Len(sent') /\ sent'[i].op = "bootstrap")
  <2> DEFINE n == Len(sent)
  <2>1. n \in Nat /\ DOMAIN sent = 1..n /\ DOMAIN sent' = 1..(n + 1) /\ Len(sent') = n + 1 /\ sent'[n + 1] = c
        /\ \A i \in 1..n : sent'[i] = sent[i]
    BY <1>2, <1>8, RoadGrows
  <2>2. \A i \in DOMAIN sent : sent[i].orphan
    BY <1>7 DEF Range
  <2> HIDE DEF n
  <2>3. \A i \in 1..(n + 1) : i = n + 1 \/ i \in 1..n
    BY <2>1
  <2> QED BY <1>3, <2>1, <2>2, <2>3
<1>11. OwnCommands'
  BY <1>2, <1>5, <1>7, <1>10 DEF OwnCommands, Ready
<1>12. Range(<<>>) = {} /\ Range(replies') = {}
  BY <1>2, <1>7 DEF Range
<1>13. StatusTold' /\ SaveTold'
  BY <1>2, <1>5, <1>7, <1>12 DEF StatusTold, SaveTold, Ready
<1>14. PastShape' /\ FileTold'
  BY <1>1, <1>2 DEF PastShape, NewPage, FileTold, SettingsShape
<1>15. SettingsShape'
  BY <1>1, <1>2, <1>6, <1>9, <1>14 DEF SettingsShape, RoadShape, StoreShape
<1> QED BY <1>11, <1>13, <1>14, <1>15 DEF SettingsInv

LEMMA ClosesKeep == ASSUME SettingsInv, ClosePage PROVE SettingsInv'
<1>1. SettingsShape /\ FileTold
  BY DEF SettingsInv
<1>2. UNCHANGED <<store, past>> /\ events' = <<>> /\ replies' = <<>>
      /\ sent' = [i \in DOMAIN sent |-> [sent[i] EXCEPT !.orphan = TRUE]]
  BY DEF ClosePage
<1>3. desk' = [phase |-> "closed", listens |-> FALSE, base |-> None, draft |-> None,
               status |-> None, saving |-> None, shown |-> None]
  BY DEF ClosePage, ClosedDesk
<1>4. desk'.phase = "closed" /\ desk'.listens = FALSE /\ desk'.saving = None
  BY <1>3
<1>5. DeskShape'
  BY <1>3, <1>4 DEF DeskShape, Ready
<1>6. \A c \in DeskCommands : [c EXCEPT !.orphan = TRUE] \in DeskCommands /\ [c EXCEPT !.orphan = TRUE].orphan
  <2> TAKE c \in DeskCommands
  <2>1. CASE c \in [op : {"bootstrap", "recommend"}, orphan : BOOLEAN]
    BY <2>1 DEF DeskCommands
  <2>2. CASE c \in [op : {"update"}, item : Items, keys : KeySets, orphan : BOOLEAN]
    BY <2>2 DEF DeskCommands
  <2>3. CASE c \in [op : {"modifier"}, modifier : Modifiers, orphan : BOOLEAN]
    BY <2>3 DEF DeskCommands
  <2>4. CASE c \in [op : {"autostart"}, auto : BOOLEAN, orphan : BOOLEAN]
    BY <2>4 DEF DeskCommands
  <2> QED BY <2>1, <2>2, <2>3, <2>4 DEF DeskCommands
<1>7. sent' \in Seq(DeskCommands) /\ \A c \in Range(sent') : c.orphan
  <2> DEFINE n == Len(sent)
  <2>1. n \in Nat /\ DOMAIN sent = 1..n /\ \A i \in 1..n : sent[i] \in DeskCommands
    BY <1>1 DEF SettingsShape, RoadShape
  <2> HIDE DEF n
  <2>2. sent' = [i \in 1..n |-> [sent[i] EXCEPT !.orphan = TRUE]]
    BY <1>2, <2>1
  <2>3. \A i \in 1..n : sent'[i] \in DeskCommands /\ sent'[i].orphan
    BY <1>6, <2>1, <2>2
  <2>4. sent' \in [1..n -> DeskCommands]
    BY <2>2, <2>3
  <2>5. sent' \in Seq(DeskCommands)
    BY <2>1, <2>4
  <2>6. \A c \in Range(sent') : c.orphan
    BY <2>2, <2>3 DEF Range
  <2> QED BY <2>5, <2>6
<1>8. OwnCommands' /\ StatusTold' /\ SaveTold'
  BY <1>2, <1>4, <1>7 DEF OwnCommands, StatusTold, SaveTold, Ready
<1>9. SettingsShape' /\ FileTold'
  BY <1>1, <1>2, <1>5, <1>7 DEF SettingsShape, RoadShape, StoreShape, PastShape, FileTold
<1> QED BY <1>8, <1>9 DEF SettingsInv

\* The bootstrap arrives, and a status.
LEMMA SettingsArrive == ASSUME SettingsInv, OnSettings PROVE SettingsInv'
<1>1. SettingsShape /\ OwnCommands /\ StatusTold /\ SaveTold /\ FileTold
  BY DEF SettingsInv
<1>2. PICK r : r = Head(replies)
  OBVIOUS
<1>3. replies # <<>> /\ r.op = "bootstrap" /\ replies' = Tail(replies) /\ UNCHANGED <<store, past, sent, events>>
  BY <1>2 DEF OnSettings, Reply
<1>4. r \in DeskAnswers /\ r \in Range(replies) /\ Road(replies)
  <2>1. Road(replies) /\ replies \in Seq(DeskAnswers)
    BY <1>1, RoadsAreRoads DEF SettingsShape, RoadShape
  <2>2. r \in DeskAnswers
    BY <1>2, <1>3, <2>1
  <2> QED BY <1>2, <1>3, <2>1, <2>2, RoadMoves
<1>5. r.config \in Drafts
  BY <1>3, <1>4 DEF DeskAnswers
<1>6. desk.phase = "loading"
  BY <1>1, <1>3, <1>4 DEF OwnCommands, SettingsShape, DeskShape, Ready, Lacks
<1>7. desk' = [phase |-> "ready", listens |-> desk.listens, base |-> r.config, draft |-> r.config,
               status |-> r.status, saving |-> desk.saving, shown |-> desk.shown]
  BY <1>1, <1>2 DEF SettingsShape, DeskShape, OnSettings
<1>8. desk'.phase = "ready" /\ desk'.listens = desk.listens /\ desk'.base = r.config /\ desk'.draft = r.config
      /\ desk'.status = r.status /\ desk'.saving = desk.saving /\ desk'.shown = desk.shown
  BY <1>7
<1>9. desk.saving = None /\ sent = <<>> /\ replies' = <<>>
  <2>1. desk.saving = None /\ sent = <<>> /\ \E a : replies = <<a>>
    BY <1>1, <1>3, <1>6 DEF OwnCommands
  <2>2. PICK a : replies = <<a>>
    BY <2>1
  <2>3. Tail(<<a>>) = <<>>
    OBVIOUS
  <2> QED BY <1>3, <2>1, <2>2, <2>3
<1>10. DeskShape'
  BY <1>1, <1>5, <1>7, <1>8, <1>9 DEF DeskShape, SettingsShape, Ready
<1>11. sent' = <<>> /\ Range(<<>>) = {} /\ DOMAIN <<>> = {}
  BY <1>3, <1>9 DEF Range
<1>12. Range(sent') = {} /\ Range(replies') = {} /\ DOMAIN sent' = {} /\ DOMAIN replies' = {}
  BY <1>9, <1>11
<1>13. OwnCommands'
  BY <1>8, <1>12 DEF OwnCommands, Ready, Lacks, AtMostOne
<1>14. ConfIs(r.config) /\ AutoIs(r.config.auto)
  BY <1>1, <1>4, <1>6 DEF SaveTold
<1>15. SaveTold'
  BY <1>3, <1>8, <1>9, <1>14 DEF SaveTold, Ready, BaseIs, ConfIs, AutoIs, NoConf, NoAuto
<1>16. StatusTold'
  BY <1>1, <1>3, <1>4, <1>6, <1>8 DEF StatusTold, Ready, LastHeard
<1>17. FileTold' /\ SettingsShape'
  <2>1. RoadShape'
    BY <1>1, <1>3, <1>9 DEF SettingsShape, RoadShape
  <2> QED BY <1>1, <1>3, <1>10, <2>1 DEF FileTold, SettingsShape, StoreShape, PastShape
<1> QED BY <1>13, <1>15, <1>16, <1>17 DEF SettingsInv

LEMMA KeysArrive == ASSUME SettingsInv, OnKeys PROVE SettingsInv'
<1>1. SettingsShape /\ OwnCommands /\ StatusTold /\ SaveTold /\ FileTold
  BY DEF SettingsInv
<1>2. PICK e : e = Head(events)
  OBVIOUS
<1>3. events # <<>> /\ events' = Tail(events) /\ UNCHANGED <<store, past, sent, replies>>
  BY DEF OnKeys
<1>4. PICK s : s = IF desk.listens THEN e.status ELSE desk.status
  OBVIOUS
<1>5. desk' = [phase |-> desk.phase, listens |-> desk.listens, base |-> desk.base, draft |-> desk.draft,
               status |-> s, saving |-> desk.saving, shown |-> desk.shown]
  <2>1. CASE desk.listens
    <3>1. desk' = [desk EXCEPT !.status = s] /\ s = e.status
      BY <1>2, <1>4, <2>1 DEF OnKeys
    <3> QED BY <1>1, <3>1 DEF SettingsShape, DeskShape
  <2>2. CASE ~desk.listens
    <3>1. desk' = desk /\ s = desk.status
      BY <1>4, <2>2 DEF OnKeys
    <3> QED BY <1>1, <3>1 DEF SettingsShape, DeskShape
  <2> QED BY <2>1, <2>2
<1>6. desk'.phase = desk.phase /\ desk'.listens = desk.listens /\ desk'.base = desk.base /\ desk'.draft = desk.draft
      /\ desk'.status = s /\ desk'.saving = desk.saving
  BY <1>5
<1>7. DeskShape'
  BY <1>1, <1>5, <1>6 DEF DeskShape, SettingsShape, Ready
<1>8. events \in Seq(DeskEvents) /\ Road(events)
  BY <1>1, RoadsAreRoads DEF SettingsShape, RoadShape
<1>9. events' \in Seq(DeskEvents)
  BY <1>3, <1>8
<1>10. OwnCommands'
  BY <1>1, <1>3, <1>6 DEF OwnCommands, Ready
<1>11. NoConf' = NoConf /\ NoAuto' = NoAuto
  BY <1>3 DEF NoConf, NoAuto
<1>12. SaveTold'
  BY <1>1, <1>3, <1>6, <1>11 DEF SaveTold, Ready, BaseIs, ConfIs, AutoIs, SendsUpdate, SendsModifier,
                          SendsAutostart, EndsStep, Presettled, PatchIs
<1>13. StatusTold'
  <2>1. CASE past.missed
    BY <1>3, <2>1 DEF StatusTold
  <2>2. CASE ~past.missed /\ Ready
    <3>1. desk.listens /\ events[Len(events)].status = store.bound
      BY <1>1, <1>3, <2>2 DEF StatusTold, LastHeard
    <3> DEFINE n == Len(events)
    <3>2. n \in Nat \ {0} /\ Len(events') = n - 1 /\ e = events[1] /\ \A i \in 1..(n - 1) : events'[i] = events[i + 1]
      BY <1>2, <1>3, <1>8, RoadMoves
    <3>3. CASE n = 1
      <4>1. events' = <<>>
        BY <1>9, <3>2, <3>3
      <4>2. desk'.status = store.bound
        BY <1>4, <1>6, <3>1, <3>2, <3>3
      <4> QED BY <1>3, <1>6, <2>2, <3>1, <4>1, <4>2 DEF StatusTold, LastHeard, Ready
    <3>4. CASE n # 1
      <4> HIDE DEF n
      <4>1. n - 1 \in 1..(n - 1) /\ n - 1 + 1 = n /\ n - 1 # 0
        BY <3>2, <3>4
      <4>2. events'[Len(events')] = events[n] /\ Len(events') # 0
        BY <3>2, <4>1
      <4>3. events' # <<>>
        <5>1. Len(<<>>) = 0
          OBVIOUS
        <5> QED BY <4>2, <5>1
      <4> QED BY <1>3, <1>6, <2>2, <3>1, <4>2, <4>3 DEF StatusTold, LastHeard, Ready, n
    <3> QED BY <3>3, <3>4
  <2>3. CASE ~past.missed /\ ~Ready
    <3>1. desk.phase # "loading"
      BY <1>1, <1>3, <2>3 DEF StatusTold
    <3> QED BY <1>3, <1>6, <2>3, <3>1 DEF StatusTold, Ready
  <2> QED BY <2>1, <2>2, <2>3
<1>14. FileTold' /\ SettingsShape'
  BY <1>1, <1>3, <1>7, <1>9 DEF FileTold, SettingsShape, StoreShape, PastShape, RoadShape
<1> QED BY <1>10, <1>12, <1>13, <1>14 DEF SettingsInv

\* A save starts: its patch is sent.
LEMMA SaveKeepsOn == ASSUME SettingsInv, Save PROVE SettingsInv'
<1>1. SettingsShape /\ OwnCommands /\ StatusTold /\ SaveTold /\ FileTold
  BY DEF SettingsInv
<1>2. Ready /\ desk.saving = None /\ UNCHANGED <<store, events, replies>>
  BY DEF Save
<1>3. PICK d, b : d = desk.draft /\ b = desk.base
  OBVIOUS
<1>4. d \in Drafts /\ b \in Drafts
  BY <1>1, <1>2, <1>3 DEF SettingsShape, DeskShape
<1>5. PICK u, s, f : /\ u = Head(Plan(d, b)) /\ s = [draft |-> d, todo |-> Tail(Plan(d, b))]
                     /\ f = (past.overwritten \/ (d.modifier # b.modifier /\ d.keys # d.modifier))
  OBVIOUS
<1>6. sent' = Append(sent, u) /\ desk' = [desk EXCEPT !.saving = s, !.shown = None]
      /\ past' = [past EXCEPT !.overwritten = f]
  BY <1>3, <1>5 DEF Save, Invoke
<1>7. u = [op |-> "update", item |-> d.item, keys |-> d.keys, orphan |-> FALSE]
      /\ s.draft = d /\ s.todo = LaterSteps(d, b) /\ s \in [draft : Drafts, todo : Seq(LaterCommands)]
  BY <1>4, <1>5, PlanSplits
<1>8. s # None
  BY <1>7, AbsentAssumption
<1>9. u \in DeskCommands /\ u.op = "update" /\ ~u.orphan /\ u.item = d.item /\ u.keys = d.keys
  BY <1>4, <1>7 DEF DeskCommands, Drafts
<1>10. desk' = [phase |-> desk.phase, listens |-> desk.listens, base |-> desk.base, draft |-> desk.draft,
               status |-> desk.status, saving |-> s, shown |-> None]
  BY <1>1, <1>6 DEF SettingsShape, DeskShape
<1>11. desk'.phase = desk.phase /\ desk'.listens = desk.listens /\ desk'.base = desk.base /\ desk'.draft = desk.draft
      /\ desk'.status = desk.status /\ desk'.saving = s
  BY <1>10
<1>12. DeskShape'
  BY <1>1, <1>7, <1>10, <1>11 DEF DeskShape, SettingsShape, Ready
<1>13. f \in BOOLEAN
  BY <1>1, <1>5 DEF SettingsShape, PastShape
<1>14. PastShape' /\ past'.missed = past.missed /\ NoAuto' = NoAuto /\ past'.unsaved = past.unsaved
                /\ past'.overwritten = f /\ past'.edited = past.edited /\ past'.half = past.half
  BY <1>1, <1>6, <1>13, PastFlag DEF SettingsShape
<1>15. NoConf => NoConf'
  BY <1>5, <1>14 DEF NoConf
<1>16. sent \in Seq(DeskCommands) /\ Road(sent)
  BY <1>1, RoadsAreRoads DEF SettingsShape, RoadShape
<1>17. sent' \in Seq(DeskCommands) /\ Range(sent') = Range(sent) \cup {u}
  BY <1>6, <1>9, <1>16, RoadGrows
<1>18. Lacks(sent, SaveOps) /\ Lacks(replies, EndOps)
  BY <1>1, <1>2 DEF OwnCommands
<1>19. OwnCommands'
  <2>1. AtMostOne(sent', SaveOps)
    BY <1>6, <1>16, <1>18, OneMore
  <2>2. Lacks(sent, {"bootstrap"}) => Lacks(sent', {"bootstrap"})
    BY <1>9, <1>17 DEF Lacks
  <2> QED BY <1>1, <1>2, <1>8, <1>9, <1>11, <1>17, <1>18, <2>1, <2>2 DEF OwnCommands, Ready
<1>20. SaveTold'
  <2>1. SendsUpdate(u, s)'
    <3>1. BaseIs
      BY <1>1, <1>2 DEF SaveTold
    <3> QED BY <1>2, <1>3, <1>7, <1>9, <1>11, <1>14, <1>15, <3>1 DEF SendsUpdate, BaseIs, ConfIs, AutoIs
  <2>2. Presettled(s)'
    BY <1>3, <1>5, <1>7, <1>11, <1>14 DEF Presettled, NoConf
  <2>3. \A c \in Range(sent') : c = u \/ c.op \notin SaveOps
    BY <1>17, <1>18 DEF Lacks
  <2>4. \A r \in Range(replies') : r.op \notin EndOps
    BY <1>2, <1>18 DEF Lacks
  <2> QED BY <1>2, <1>8, <1>9, <1>11, <2>1, <2>2, <2>3, <2>4 DEF SaveTold, Ready, SaveOps, EndOps
<1>21. StatusTold' /\ FileTold'
  BY <1>1, <1>2, <1>11, <1>14 DEF StatusTold, FileTold, LastHeard, Ready
<1>22. SettingsShape'
  BY <1>1, <1>2, <1>12, <1>14, <1>17 DEF SettingsShape, RoadShape, StoreShape
<1> QED BY <1>19, <1>20, <1>21, <1>22 DEF SettingsInv

\* The answer to a command of a save reaches the page.
LEMMA StepsAreAnswered ==
    ASSUME SettingsInv, replies # <<>>, Head(replies).op \in EndOps, replies' = Tail(replies)
    PROVE  /\ Ready /\ desk.saving # None /\ desk.saving \in [draft : Drafts, todo : Seq(LaterCommands)]
           /\ Lacks(sent, SaveOps) /\ Lacks(replies', EndOps) /\ Lacks(replies', {"bootstrap"})
           /\ AtMostOne(replies', EndOps) /\ replies' \in Seq(DeskAnswers)
           /\ Head(replies).op = "done" => EndsStep(desk.saving)
           /\ Head(replies).op = "failed" => BaseIs
           /\ Presettled(desk.saving)
<1>1. OwnCommands /\ DeskShape /\ RoadShape /\ SaveTold
  BY DEF SettingsInv, SettingsShape
<1>2. Ready
  BY AnswersAreReady DEF EndOps
<1>3. replies \in Seq(DeskAnswers) /\ Road(replies)
  BY <1>1, RoadsAreRoads DEF RoadShape
<1>4. replies' \in Seq(DeskAnswers) /\ Range(replies) = Range(replies') \cup {Head(replies)}
  BY <1>3, RoadMoves
<1>5. ~Lacks(replies, EndOps)
  BY <1>4 DEF Lacks
<1>6. AtMostOne(replies, EndOps) /\ Lacks(replies, {"bootstrap"}) /\ Lacks(sent, SaveOps) /\ desk.saving # None
  BY <1>1, <1>2, <1>5 DEF OwnCommands
<1>7. AtMostOne(replies', EndOps) /\ Lacks(replies', EndOps)
  BY <1>3, <1>6, OneLess
<1>8. Lacks(replies', {"bootstrap"})
  BY <1>4, <1>6 DEF Lacks
<1>9. desk.saving \in [draft : Drafts, todo : Seq(LaterCommands)]
  BY <1>1, <1>6 DEF DeskShape
<1>10. /\ Head(replies).op = "done" => EndsStep(desk.saving)
       /\ Head(replies).op = "failed" => BaseIs
       /\ Presettled(desk.saving)
  BY <1>1, <1>2, <1>4, <1>6 DEF SaveTold
<1> QED BY <1>2, <1>4, <1>6, <1>7, <1>8, <1>9, <1>10

\* The next command of a save.
LEMMA SaveSteps == ASSUME SettingsInv, SaveGoesOn PROVE SettingsInv'
<1>1. SettingsShape /\ OwnCommands /\ StatusTold /\ FileTold
  BY DEF SettingsInv
<1>2. replies # <<>> /\ Head(replies).op = "done" /\ replies' = Tail(replies) /\ desk.saving.todo # <<>>
      /\ UNCHANGED <<store, past, events>>
  BY DEF SaveGoesOn, Reply
<1>3. /\ Ready /\ desk.saving # None /\ desk.saving \in [draft : Drafts, todo : Seq(LaterCommands)]
      /\ Lacks(sent, SaveOps) /\ Lacks(replies', EndOps) /\ Lacks(replies', {"bootstrap"})
      /\ AtMostOne(replies', EndOps) /\ replies' \in Seq(DeskAnswers)
      /\ EndsStep(desk.saving) /\ Presettled(desk.saving)
  BY <1>2, StepsAreAnswered DEF EndOps
<1>4. PICK d, b, t : d = desk.saving.draft /\ b = desk.base /\ t = desk.saving.todo
  OBVIOUS
<1>5. d \in Drafts /\ b \in Drafts /\ t \in Seq(LaterCommands) /\ t # <<>>
  BY <1>1, <1>2, <1>3, <1>4 DEF SettingsShape, DeskShape
<1>6. PICK c, s : c = Head(t) /\ s = [draft |-> d, todo |-> Tail(t)]
  OBVIOUS
<1>7. c \in LaterCommands /\ s.draft = d /\ s.todo = Tail(t) /\ s \in [draft : Drafts, todo : Seq(LaterCommands)]
  BY <1>5, <1>6
<1>8. s # None
  BY <1>7, AbsentAssumption
<1>9. c \in DeskCommands /\ ~c.orphan /\ c.op \in {"modifier", "autostart"}
  BY <1>7 DEF LaterCommands, DeskCommands
<1>10. sent' = Append(sent, c)
  BY <1>4, <1>6 DEF SaveGoesOn, Invoke
<1>11. desk' = [phase |-> desk.phase, listens |-> desk.listens, base |-> desk.base, draft |-> desk.draft,
               status |-> desk.status, saving |-> s, shown |-> desk.shown]
  <2>1. PICK v : v = desk.saving
    OBVIOUS
  <2>2. s = [v EXCEPT !.todo = Tail(@)]
    <3>1. v \in [draft : Drafts, todo : Seq(LaterCommands)] /\ v.draft = d /\ v.todo = t
      BY <1>3, <1>4, <2>1
    <3>2. PICK y : y = Tail(t)
      OBVIOUS
    <3>3. s = [draft |-> d, todo |-> y]
      BY <1>6, <3>2
    <3>4. [v EXCEPT !.todo = Tail(@)] = [v EXCEPT !.todo = y]
      BY <3>1, <3>2
    <3>5. [v EXCEPT !.todo = y] = [draft |-> d, todo |-> y]
      BY <3>1
    <3> QED BY <3>3, <3>4, <3>5
  <2>3. desk' = [desk EXCEPT !.saving = s]
    BY <2>1, <2>2 DEF SaveGoesOn
  <2> QED BY <1>1, <2>3 DEF SettingsShape, DeskShape
<1>12. desk'.phase = desk.phase /\ desk'.listens = desk.listens /\ desk'.base = desk.base /\ desk'.draft = desk.draft
      /\ desk'.status = desk.status /\ desk'.saving = s
  BY <1>11
<1>13. DeskShape'
  BY <1>1, <1>7, <1>11, <1>12 DEF DeskShape, SettingsShape, Ready
<1>14. sent \in Seq(DeskCommands) /\ Road(sent)
  BY <1>1, RoadsAreRoads DEF SettingsShape, RoadShape
<1>15. sent' \in Seq(DeskCommands) /\ Range(sent') = Range(sent) \cup {c}
  BY <1>9, <1>10, <1>14, RoadGrows
<1>16. OwnCommands'
  <2>1. AtMostOne(sent', SaveOps)
    BY <1>3, <1>10, <1>14, OneMore
  <2>2. Lacks(sent, {"bootstrap"}) => Lacks(sent', {"bootstrap"})
    BY <1>9, <1>15 DEF Lacks
  <2> QED BY <1>1, <1>3, <1>8, <1>9, <1>12, <1>15, <2>1, <2>2 DEF OwnCommands, Ready
<1>17. /\ c.op = "modifier" => SendsModifier(c, s)
       /\ c.op = "autostart" => SendsAutostart(c, s)
  <2>1. CASE t = LaterSteps(d, b) /\ PatchIs(d) /\ AutoIs(b.auto) /\ d.modifier # b.modifier
    <3>1. c = ModifierStep(d) /\ Tail(t) = LastSteps(d, b)
      BY <1>5, <1>6, <2>1, PlanSplits
    <3>2. c.op = "modifier" /\ c.modifier = d.modifier
      BY <3>1 DEF ModifierStep
    <3> QED BY <1>4, <1>7, <2>1, <3>1, <3>2 DEF SendsModifier
  <2>2. CASE t = LastSteps(d, b) /\ ConfIs(d) /\ AutoIs(b.auto)
    <3>1. c = AutostartStep(d) /\ Tail(t) = <<>>
      BY <1>5, <1>6, <2>2, PlanSplits
    <3>2. c.op = "autostart" /\ c.auto = d.auto
      BY <3>1 DEF AutostartStep
    <3> QED BY <1>4, <1>7, <2>2, <3>1, <3>2 DEF SendsAutostart
  <2>3. CASE t = LaterSteps(d, b) /\ PatchIs(d) /\ AutoIs(b.auto) /\ d.modifier = b.modifier
    <3>1. LaterSteps(d, b) = LastSteps(d, b)
      BY <1>5, <2>3, PlanSplits
    <3>2. ConfIs(d)
      BY <1>4, <2>3 DEF PatchIs, ConfIs, Alike
    <3> QED BY <2>2, <2>3, <3>1, <3>2
  <2>4. (t = LaterSteps(d, b) /\ PatchIs(d) /\ AutoIs(b.auto)) \/ (t = LastSteps(d, b) /\ ConfIs(d) /\ AutoIs(b.auto))
    BY <1>3, <1>4, <1>5 DEF EndsStep
  <2> QED BY <2>1, <2>2, <2>3, <2>4
<1>18. SaveTold'
  <2>1. NoConf' = NoConf /\ NoAuto' = NoAuto
    BY <1>2 DEF NoConf, NoAuto
  <2>2. /\ c.op = "modifier" => SendsModifier(c, s)'
        /\ c.op = "autostart" => SendsAutostart(c, s)'
    BY <1>2, <1>12, <1>17, <2>1 DEF SendsModifier, SendsAutostart, ConfIs, AutoIs, PatchIs
  <2>3. Presettled(s)'
    BY <1>3, <1>4, <1>7, <1>12, <2>1 DEF Presettled
  <2>4. \A e \in Range(sent') : e = c \/ e.op \notin SaveOps
    BY <1>3, <1>15 DEF Lacks
  <2>5. \A r \in Range(replies') : r.op \notin EndOps
    BY <1>3 DEF Lacks
  <2> QED BY <1>3, <1>8, <1>9, <1>12, <2>2, <2>3, <2>4, <2>5 DEF SaveTold, Ready, SaveOps, EndOps
<1>19. StatusTold' /\ FileTold'
  BY <1>1, <1>2, <1>3, <1>12 DEF StatusTold, FileTold, LastHeard, Ready
<1>20. SettingsShape'
  BY <1>1, <1>2, <1>3, <1>13, <1>15 DEF SettingsShape, RoadShape, StoreShape, PastShape
<1> QED BY <1>16, <1>18, <1>19, <1>20 DEF SettingsInv

\* A save ends.
LEMMA SaveFinishes == ASSUME SettingsInv, SaveEnds \/ SaveFails PROVE SettingsInv'
<1>1. SettingsShape /\ OwnCommands /\ StatusTold /\ FileTold
  BY DEF SettingsInv
<1>2. replies # <<>> /\ Head(replies).op \in EndOps /\ replies' = Tail(replies)
      /\ UNCHANGED <<store, past, sent, events>>
  BY DEF SaveEnds, SaveFails, Reply, EndOps
<1>3. /\ Ready /\ desk.saving # None /\ desk.saving \in [draft : Drafts, todo : Seq(LaterCommands)]
      /\ Lacks(sent, SaveOps) /\ Lacks(replies', EndOps) /\ Lacks(replies', {"bootstrap"})
      /\ AtMostOne(replies', EndOps) /\ replies' \in Seq(DeskAnswers)
      /\ Head(replies).op = "done" => EndsStep(desk.saving)
      /\ Head(replies).op = "failed" => BaseIs
  BY <1>2, StepsAreAnswered
<1>4. desk.base \in Drafts /\ desk.draft \in Drafts
  BY <1>1, <1>3 DEF SettingsShape, DeskShape
<1>5. ASSUME NEW b \in Drafts, NEW w, ConfIs(b), AutoIs(b.auto),
             desk' = [phase |-> desk.phase, listens |-> desk.listens, base |-> b, draft |-> desk.draft,
                      status |-> desk.status, saving |-> None, shown |-> w]
      PROVE  SettingsInv'
  <2>1. desk'.phase = desk.phase /\ desk'.listens = desk.listens /\ desk'.base = b /\ desk'.draft = desk.draft
        /\ desk'.status = desk.status /\ desk'.saving = None /\ desk'.shown = w
    BY <1>5
  <2>2. DeskShape'
    BY <1>1, <1>4, <1>5, <2>1 DEF DeskShape, SettingsShape, Ready
  <2>3. OwnCommands'
    BY <1>1, <1>2, <1>3, <2>1 DEF OwnCommands, Ready
  <2>4. SaveTold'
    BY <1>2, <1>3, <1>5, <2>1 DEF SaveTold, Ready, BaseIs, ConfIs, AutoIs, NoConf, NoAuto
  <2>5. StatusTold' /\ FileTold'
    BY <1>1, <1>2, <1>3, <2>1 DEF StatusTold, FileTold, LastHeard, Ready
  <2>6. SettingsShape'
    BY <1>1, <1>2, <1>3, <2>2 DEF SettingsShape, RoadShape, StoreShape, PastShape
  <2> QED BY <2>3, <2>4, <2>5, <2>6 DEF SettingsInv
<1>6. CASE SaveFails
  <2>1. BaseIs /\ Head(replies).op = "failed"
    BY <1>3, <1>6 DEF SaveFails, Reply
  <2>2. PICK b : b = desk.base
    OBVIOUS
  <2>3. desk' = [phase |-> desk.phase, listens |-> desk.listens, base |-> b, draft |-> desk.draft,
                 status |-> desk.status, saving |-> None, shown |-> "failed"]
    BY <1>1, <1>6, <2>2 DEF SaveFails, SettingsShape, DeskShape
  <2> QED BY <1>4, <1>5, <2>1, <2>2, <2>3 DEF BaseIs
<1>7. CASE SaveEnds
  <2>1. EndsStep(desk.saving) /\ desk.saving.todo = <<>>
    BY <1>3, <1>7 DEF SaveEnds, Reply
  <2>2. PICK d, b : d = desk.saving.draft /\ b = desk.base
    OBVIOUS
  <2>3. d \in Drafts /\ b \in Drafts
    BY <1>3, <1>4, <2>2
  <2>4. ConfIs(d) /\ AutoIs(d.auto)
    <3>1. CASE LaterSteps(d, b) = <<>> /\ PatchIs(d) /\ AutoIs(b.auto)
      <4>1. d.modifier = b.modifier
        BY <2>3, <3>1, PlanSplits
      <4>2. LastSteps(d, b) = <<>>
        BY <2>3, <3>1, <4>1, PlanSplits
      <4>3. d.auto = b.auto
        BY <2>3, <4>2, PlanSplits
      <4> QED BY <2>2, <3>1, <4>1, <4>3 DEF PatchIs, ConfIs, Alike
    <3>2. CASE LastSteps(d, b) = <<>> /\ ConfIs(d) /\ AutoIs(b.auto)
      <4>1. d.auto = b.auto
        BY <2>3, <3>2, PlanSplits
      <4> QED BY <3>2, <4>1
    <3>3. CASE ConfIs(d) /\ AutoIs(d.auto)
      BY <3>3
    <3> QED BY <2>1, <2>2, <3>1, <3>2, <3>3 DEF EndsStep
  <2>5. desk' = [phase |-> desk.phase, listens |-> desk.listens, base |-> d, draft |-> desk.draft,
                 status |-> desk.status, saving |-> None, shown |-> "saved"]
    BY <1>1, <1>7, <2>2 DEF SaveEnds, SettingsShape, DeskShape
  <2> QED BY <1>5, <2>3, <2>4, <2>5
<1> QED BY <1>6, <1>7

\* Every step of the page, its host and its file.
LEMMA SettingsSteps == ASSUME SettingsInv, SettingsNext PROVE SettingsInv'
<1>1. CASE SettingsUser
  <2>1. CASE OpenPage \/ ClosePage
    BY <2>1, OpensKeep, ClosesKeep
  <2>2. CASE (\E item \in Items : Type(item)) \/ Record \/ (\E m \in Modifiers : PickModifier(m)) \/ FlipAutostart \/ ResetDraft
    BY <2>2, EditsKeep
  <2>3. CASE Recommend \/ Save
    BY <2>3, RecommendKeeps, SaveKeepsOn
  <2> QED BY <1>1, <2>1, <2>2, <2>3 DEF SettingsUser
<1>2. CASE SettingsHost
  <2>1. CASE GetSettings \/ RecommendedBlacklist \/ UpdateRejected
    BY <2>1, SettingsAreGiven, PlainAnswers
  <2>2. CASE UpdateSettings \/ UpdateUnsaved \/ SetModifier
    BY <2>2, PatchesKeep, ModifierKeeps
  <2>3. CASE SetAutostart \/ LaterCommandFails
    BY <2>3, LaterCommandsKeep
  <2> QED BY <1>2, <2>1, <2>2, <2>3 DEF SettingsHost
<1>3. CASE ListenKeys \/ OnSettings \/ OnRecommended \/ OnKeys
  BY <1>3, ListensKeep, SettingsArrive, EditsKeep, KeysArrive
<1>4. CASE SaveGoesOn \/ SaveEnds \/ SaveFails
  BY <1>4, SaveSteps, SaveFinishes
<1>5. CASE EditFile \/ Reload
  BY <1>5, FileEditsKeep, ReloadsKeep
<1> QED BY <1>1, <1>2, <1>3, <1>4, <1>5 DEF SettingsNext

LEMMA SettingsStutters == ASSUME SettingsInv, UNCHANGED <<settings, channel>> PROVE SettingsInv'
<1>1. SettingsShape /\ OwnCommands /\ StatusTold /\ SaveTold /\ FileTold
  BY DEF SettingsInv
<1>2. store' = store /\ desk' = desk /\ past' = past /\ sent' = sent /\ events' = events /\ replies' = replies
  BY DEF settings, channel
<1>3. OwnCommands' /\ StatusTold' /\ FileTold'
  BY <1>1, <1>2 DEF OwnCommands, StatusTold, FileTold, LastHeard, Ready
<1>4. SettingsShape'
  BY <1>1, <1>2 DEF SettingsShape, RoadShape, DeskShape, StoreShape, PastShape, Ready
<1>5. SaveTold'
  BY <1>1, <1>2 DEF SaveTold, Ready, BaseIs, ConfIs, AutoIs, NoConf, NoAuto, SendsUpdate, SendsModifier,
                          SendsAutostart, EndsStep, Presettled, PatchIs
<1> QED BY <1>3, <1>4, <1>5 DEF SettingsInv

LEMMA SettingsStarts ==
    ASSUME SettingsInit(TRUE), sent = <<>>, events = <<>>, replies = <<>>
    PROVE  SettingsInv
<1>1. PICK c \in Presets, a \in BOOLEAN :
        store = [conf |-> c, file |-> c, new |-> FALSE, bound |-> c.keys, startup |-> a]
  BY DEF SettingsInit
<1>2. c \in Drafts /\ c.keys \in KeySets
  <2>1. PICK m \in Modifiers : c = Config("plain", m, m, FALSE)
    BY DEF Presets
  <2> QED BY <2>1 DEF Config, Drafts, Items, KeySets
<1>3. /\ desk = [phase |-> "closed", listens |-> FALSE, base |-> None, draft |-> None,
                 status |-> None, saving |-> None, shown |-> None]
      /\ past = [edited |-> FALSE, half |-> FALSE, overwritten |-> FALSE, missed |-> FALSE,
                 misread |-> FALSE, unsaved |-> FALSE]
  BY DEF SettingsInit, ClosedDesk
<1>4. desk.phase = "closed" /\ desk.saving = None /\ desk.listens = FALSE
  BY <1>3
<1>5. store.file = store.conf /\ StoreShape
  BY <1>1, <1>2 DEF StoreShape
<1>6. Range(<<>>) = {}
  BY DEF Range
<1>7. RoadShape
  BY DEF RoadShape
<1>8. DeskShape
  BY <1>3, <1>4 DEF DeskShape, Ready
<1>9. PastShape
  BY <1>3 DEF PastShape
<1>10. OwnCommands /\ StatusTold /\ SaveTold
  BY <1>4, <1>6 DEF OwnCommands, StatusTold, SaveTold, Ready
<1> QED BY <1>5, <1>7, <1>8, <1>9, <1>10 DEF SettingsInv, SettingsShape, FileTold

\* With nothing under way the page is true to the host.
LEMMA SettingsShows == ASSUME SettingsInv PROVE SettingsAgree
<1> SUFFICES ASSUME Settled
             PROVE  /\ NoConf \/ desk.base = [store.conf EXCEPT !.auto = desk.base.auto]
                    /\ past.unsaved \/ store.file = store.conf
                    /\ past.misread \/ past.half \/ desk.base.auto = store.startup
                    /\ past.missed \/ desk.status = store.bound
  BY DEF SettingsAgree, NoConf
<1>1. Ready /\ desk.saving = None /\ events = <<>> /\ ~store.new
  BY DEF Settled, NothingUnderWay
<1>2. BaseIs /\ FileTold /\ StatusTold
  BY <1>1 DEF SettingsInv, SaveTold
<1>3. desk.base \in Drafts /\ store.conf \in Drafts
  BY <1>1 DEF SettingsInv, SettingsShape, DeskShape, StoreShape
<1>4. NoConf \/ desk.base = [store.conf EXCEPT !.auto = desk.base.auto]
  <2>1. NoConf \/ Alike(store.conf, desk.base)
    BY <1>2 DEF BaseIs, ConfIs
  <2>2. ASSUME NEW c \in Drafts, NEW d \in Drafts, Alike(c, d) PROVE d = [c EXCEPT !.auto = d.auto]
    BY <2>2 DEF Alike, Drafts
  <2> QED BY <1>3, <2>1, <2>2
<1>5. past.unsaved \/ store.file = store.conf
  BY <1>1, <1>2 DEF FileTold
<1>6. past.misread \/ past.half \/ desk.base.auto = store.startup
  BY <1>2 DEF BaseIs, AutoIs, NoAuto
<1>7. past.missed \/ desk.status = store.bound
  BY <1>1, <1>2 DEF StatusTold, LastHeard
<1> QED BY <1>4, <1>5, <1>6, <1>7

-----------------------------------------------------------------------------
(* One page at a time: the other one is closed.                             *)

PagesInv ==
    \/ open = "mixer" /\ MixerInv /\ desk.phase = "closed"
    \/ open = "settings" /\ SettingsInv /\ page.phase # "ready"

LEMMA PagesStart == PagesInit => PagesInv
<1> SUFFICES ASSUME PagesInit PROVE PagesInv
  OBVIOUS
<1>1. MixerInit(open = "mixer") /\ SettingsInit(open = "settings") /\ sent = <<>> /\ events = <<>> /\ replies = <<>>
  BY DEF PagesInit
<1>2. CASE open = "mixer"
  <2>1. MixerInit(TRUE)
    BY <1>1, <1>2 DEF MixerInit
  <2>2. desk.phase = "closed"
    BY <1>1 DEF SettingsInit, ClosedDesk
  <2> QED BY <1>1, <1>2, <2>1, <2>2, MixerStarts DEF PagesInv
<1>3. CASE open = "settings"
  <2>1. SettingsInit(TRUE)
    BY <1>1, <1>3 DEF SettingsInit
  <2>2. page.phase # "ready"
    BY <1>1 DEF MixerInit
  <2> QED BY <1>1, <1>3, <2>1, <2>2, SettingsStarts DEF PagesInv
<1> QED BY <1>2, <1>3 DEF PagesInit

LEMMA PagesStep == PagesInv /\ [PagesNext]_pageVars => PagesInv'
<1> SUFFICES ASSUME PagesInv, [PagesNext]_pageVars PROVE PagesInv'
  OBVIOUS
<1>1. CASE open = "mixer" /\ MixerNext /\ UNCHANGED <<open, settings>>
  <2>1. MixerInv /\ desk.phase = "closed"
    BY <1>1 DEF PagesInv
  <2>2. desk' = desk /\ open' = open
    BY <1>1 DEF settings
  <2>3. MixerInv'
    BY <1>1, <2>1, MixerSteps
  <2> QED BY <1>1, <2>1, <2>2, <2>3 DEF PagesInv
<1>2. CASE open = "settings" /\ SettingsNext /\ UNCHANGED <<open, mixer>>
  <2>1. SettingsInv /\ page.phase # "ready"
    BY <1>2 DEF PagesInv
  <2>2. page' = page /\ open' = open
    BY <1>2 DEF mixer
  <2>3. SettingsInv'
    BY <1>2, <2>1, SettingsSteps
  <2> QED BY <1>2, <2>1, <2>2, <2>3 DEF PagesInv
<1>3. CASE UNCHANGED pageVars
  <2>1. UNCHANGED <<mixer, channel, occasions>> /\ UNCHANGED <<settings, channel>> /\ open' = open
    BY <1>3 DEF pageVars
  <2>2. desk' = desk /\ page' = page
    BY <2>1 DEF mixer, settings
  <2>3. CASE open = "mixer" /\ MixerInv /\ desk.phase = "closed"
    BY <2>1, <2>2, <2>3, MixerStutters DEF PagesInv
  <2>4. CASE open = "settings" /\ SettingsInv /\ page.phase # "ready"
    BY <2>1, <2>2, <2>4, SettingsStutters DEF PagesInv
  <2> QED BY <2>3, <2>4 DEF PagesInv
<1> QED BY <1>1, <1>2, <1>3 DEF PagesNext

LEMMA PagesShow == PagesInv => PagesAgree
<1> SUFFICES ASSUME PagesInv PROVE MixerAgrees /\ SettingsAgree
  BY DEF PagesAgree
<1>1. CASE open = "mixer" /\ MixerInv /\ desk.phase = "closed"
  <2>1. ~Settled
    BY <1>1 DEF Settled, Ready
  <2> QED BY <1>1, <2>1, MixerShows DEF SettingsAgree
<1>2. CASE open = "settings" /\ SettingsInv /\ page.phase # "ready"
  <2>1. ~AtRest
    BY <1>2 DEF AtRest
  <2> QED BY <1>2, <2>1, SettingsShows DEF MixerAgrees
<1> QED BY <1>1, <1>2 DEF PagesInv

\* At rest the open page shows what the host has, however the commands, the answers,
\* the events, the polls, the failures and the edits of the file fell before: the
\* mixer its volume, mute flag, notice and slider, the settings page its baseline,
\* its switch and its badges.
THEOREM PagesStayTrue == PagesSpec => []PagesAgree
<1>1. PagesInit => PagesInv
  BY PagesStart
<1>2. PagesInv /\ [PagesNext]_pageVars => PagesInv'
  BY PagesStep
<1>3. PagesInv => PagesAgree
  BY PagesShow
<1> QED BY <1>1, <1>2, <1>3, PTL DEF PagesSpec
=============================================================================
