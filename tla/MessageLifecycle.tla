------------------------- MODULE MessageLifecycle -------------------------
(***************************************************************************)
(* What the outbound side of MeshKeep promises about one user's messages,  *)
(* without saying how: a message is queued until it is handed to the       *)
(* radio, the radio confirms it at most once, a message the worker gave up *)
(* on can be re-armed, and one the user dropped stays dropped - unless the *)
(* worker was already holding it when the user dropped it.                 *)
(*                                                                         *)
(* OutboundQueue.tla is the detailed specification that implements this    *)
(* one.                                                                    *)
(***************************************************************************)

CONSTANTS Messages, \* every message a user may ever submit
          NoMsg     \* stands for "no message"; not one of Messages

VARIABLES phase,    \* where each message is in its life
          held      \* the message the worker is trying to hand over, or NoMsg

vars == <<phase, held>>

Phases == {"new", "queued", "sent", "delivered", "failed", "dropped"}

TypeOK == /\ phase \in [Messages -> Phases]
          /\ held \in Messages \cup {NoMsg}

Init == /\ phase = [m \in Messages |-> "new"]
        /\ held = NoMsg

Move(m, from, to) == /\ phase[m] \in from
                     /\ phase' = [phase EXCEPT ![m] = to]

\* The worker is free: it may take up any message that is queued by now.
PickUp == held' = NoMsg \/ (held' \in Messages /\ phase'[held'] = "queued")

KeepOrPickUp == IF held = NoMsg THEN PickUp ELSE held' = held

---------------------------------------------------------------------------

Submit(m) == Move(m, {"new"}, "queued") /\ KeepOrPickUp

Rearm(m) == Move(m, {"failed"}, "queued") /\ KeepOrPickUp

\* The user drops a message; the worker does not let go of the one it holds.
Drop(m) == Move(m, {"queued", "failed"}, "dropped") /\ held' = held

\* The radio takes the held message, even one dropped while it was held.
HandOver(m, to) == /\ held = m
                   /\ Move(m, {"queued", "dropped"}, to)
                   /\ PickUp

\* The hand-over failed: the message waits for another attempt or has failed.
Refuse(m, to) == /\ held = m
                 /\ Move(m, {"queued"}, to)
                 /\ PickUp

\* The worker lets go of the message it holds, or takes one up.
Turn == phase' = phase /\ PickUp

Confirm(m) == Move(m, {"sent"}, "delivered") /\ held' = held

Next == \/ \E m \in Messages : \/ Submit(m) \/ Rearm(m) \/ Drop(m) \/ Confirm(m)
                               \/ \E to \in {"sent", "delivered"} : HandOver(m, to)
                               \/ \E to \in {"queued", "failed"} : Refuse(m, to)
        \/ Turn

Spec == Init /\ [][Next]_vars
===========================================================================
