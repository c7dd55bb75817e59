----------------------------- MODULE PageChannel -----------------------------
(***************************************************************************)
(* What joins a webview page to the Tauri host (frontend/src/lib/ipc.ts):   *)
(* commands the page invokes, which the host's main thread runs one after    *)
(* the other, their answers, and the state:// events of the host.  Answers   *)
(* and events travel by different roads: each keeps its order, but an event  *)
(* may overtake an answer given before it, and the other way round.          *)
(***************************************************************************)
EXTENDS Absent, Integers, Sequences, Functions, TLC

VARIABLES
    sent,     \* commands on their way to the host
    events,   \* events on their way to the page
    replies,  \* answers on their way to the page
    occasions \* what users, other programs and failures may still do

channel == <<sent, events, replies>>

Occasion == occasions > 0 /\ occasions' = occasions - 1

Invoke(c) == sent' = Append(sent, c)
Told(es) == events' = events \o es
Returned(rs) == replies' = replies \o rs
\* The page takes the first answer, which is one to a command op.
Reply(op) == replies # <<>> /\ Head(replies).op = op /\ replies' = Tail(replies)

NothingUnderWay == sent = <<>> /\ events = <<>> /\ replies = <<>>
=============================================================================
