--------------------------- MODULE OutboundQueue ---------------------------
(***************************************************************************)
(* The durable outbound queue of one radio and the worker of the link that *)
(* drains it: manager.ts (enqueue, retry, cancel), store.ts (the           *)
(* outbound_queue table) and link.ts (processOutboundQueue and the direct  *)
(* send chain that correlates acknowledgements).                           *)
(*                                                                         *)
(* JavaScript runs one handler at a time, so an action is everything from  *)
(* one await to the next.  A handler that kicks the worker runs the        *)
(* worker's loop up to its first await in the same action; ServeNext is    *)
(* that loop, evaluated in the state the handler leaves behind.            *)
(*                                                                         *)
(* Of the link's lifecycle only what the worker reads is kept: the state   *)
(* the link reports, whether it holds a connection, and standby.           *)
(* RadioLink.tla models the lifecycle itself.                              *)
(***************************************************************************)
EXTENDS Naturals, FiniteSets

CONSTANTS
  Direct,       \* direct messages: acknowledged by their recipient
  Channel,      \* channel messages: never acknowledged
  Codes,        \* acknowledgement CRCs
  Crc,          \* the CRC the radio computes for each direct message
  MaxAttempts,  \* MESHKEEP_OUTBOUND_MAX_ATTEMPTS
  NoMsg, NoCode

Messages == Direct \cup Channel

ASSUME OutboundAssumption ==
  /\ Direct \cap Channel = {}
  /\ Crc \in [Direct -> Codes]
  /\ MaxAttempts \in Nat \ {0}
  /\ NoMsg \notin Messages
  /\ NoCode \notin Codes

VARIABLES
  \* the database
  status,       \* messages.status; "none" before the row exists
  entry,        \* outbound_queue.state; "none" when there is no row
  attempts,     \* outbound_queue.attempts
  due,          \* the live entries whose next_attempt_at has come
  before,       \* the order of next_attempt_at among the due entries
  \* the link, as the worker sees it
  linkState,    \* this.state
  open,         \* this.connection # null
  standby,      \* this.standby
  \* the worker
  worker,       \* idle, waiting for the direct send chain, or sending
  job,          \* the entry it took
  jobAttempts,  \* the attempts it read when it took the entry
  via,          \* the connection it captured: live, being closed, or dead
  kickAgain,    \* outboundKickAgain
  timer,        \* outboundTimer is armed
  \* the direct send chain
  pending,      \* pendingDirectDelivery
  early,        \* earlyAckCode of the delivery in progress
  \* the world, for the properties
  aired,        \* messages the radio has transmitted
  acked,        \* direct messages whose recipient has acknowledged them
  handed        \* messages a send response has been seen for

dbVars     == <<status, entry, attempts, due, before>>
linkVars   == <<linkState, open, standby>>
workerVars == <<worker, job, jobAttempts, via, kickAgain, timer, pending, early>>
airVars    == <<aired, acked, handed>>
vars       == <<dbVars, linkVars, workerVars, airVars>>

Live   == {"pending", "retrying"}
Active == {"syncing", "connected"}

TypeOK ==
  /\ status \in [Messages -> {"none", "pending", "sent", "delivered", "failed"}]
  /\ entry \in [Messages -> Live \cup {"none", "failed"}]
  /\ attempts \in [Messages -> 0..MaxAttempts]
  /\ due \in SUBSET Messages
  /\ before \in SUBSET (Messages \X Messages)
  /\ linkState \in Active \cup {"idle"}
  /\ open \in BOOLEAN /\ standby \in BOOLEAN
  /\ worker \in {"idle", "waiting", "sending"}
  /\ job \in Messages \cup {NoMsg}
  /\ jobAttempts \in 0..MaxAttempts
  /\ via \in {"live", "closing", "dead"} /\ kickAgain \in BOOLEAN /\ timer \in BOOLEAN
  /\ pending \in Direct \cup {NoMsg}
  /\ early \in Codes \cup {NoCode}
  /\ aired \in SUBSET Messages
  /\ acked \in SUBSET Direct
  /\ handed \in SUBSET Messages

Init ==
  /\ status = [m \in Messages |-> "none"]
  /\ entry = [m \in Messages |-> "none"]
  /\ attempts = [m \in Messages |-> 0]
  /\ due = {} /\ before = {}
  /\ linkState = "idle" /\ open = FALSE /\ standby = FALSE
  /\ worker = "idle" /\ job = NoMsg /\ jobAttempts = 0
  /\ via = "dead" /\ kickAgain = FALSE /\ timer = FALSE
  /\ pending = NoMsg /\ early = NoCode
  /\ aired = {} /\ acked = {} /\ handed = {}

---------------------------------------------------------------------------
(* The table.  An entry that becomes due is later than every entry that is *)
(* due already: next_attempt_at is never in the past when it is written.   *)

BecomeDue(m) ==
  /\ due' = due \cup {m}
  /\ before' = before \cup ((due \ {m}) \X {m})

LeaveDue(m) ==
  /\ due' = due \ {m}
  /\ before' = {p \in before : p[1] # m /\ p[2] # m}

Oldest(d, b) == {m \in d : \A k \in d : <<k, m>> \notin b}

---------------------------------------------------------------------------
(* The worker's loop.                                                      *)

\* The loop takes m; p is the direct delivery whose acknowledgement is awaited.
Take(m, p) ==
  /\ job' = m /\ jobAttempts' = attempts'[m] /\ via' = "live"
  /\ early' = NoCode
  /\ IF m \in Direct /\ p # NoMsg
     THEN worker' = "waiting" /\ pending' = p
     ELSE worker' = "sending" /\ pending' = IF m \in Direct THEN m ELSE p
  /\ UNCHANGED kickAgain

\* The loop ends; a kick that came meanwhile would find the same and end too.
Rest(p) ==
  /\ worker' = "idle" /\ job' = NoMsg /\ jobAttempts' = 0 /\ via' = "dead"
  /\ early' = NoCode /\ pending' = p /\ kickAgain' = FALSE
  /\ timer' = (~standby' /\ linkState' \in Active /\ \E m \in Messages : entry'[m] \in Live)

\* t is whether the timer is armed while the worker sends.
ServeNext(p, t) ==
  IF ~standby' /\ linkState' \in Active /\ open' /\ due' # {}
  THEN timer' = t /\ \E m \in Oldest(due', before') : Take(m, p)
  ELSE Rest(p)

ProcessOutboundQueue(t) ==
  IF worker = "idle"
  THEN ServeNext(pending, t)
  ELSE /\ kickAgain' = TRUE /\ timer' = t
       /\ UNCHANGED <<worker, job, jobAttempts, via, pending, early>>

KickOutbound == ProcessOutboundQueue(timer)

---------------------------------------------------------------------------
(* Users.                                                                  *)

EnqueueOutboundMessage(m) ==
  /\ status[m] = "none" /\ ~standby
  /\ status' = [status EXCEPT ![m] = "pending"]
  /\ entry' = [entry EXCEPT ![m] = "pending"]
  /\ attempts' = [attempts EXCEPT ![m] = 0]
  /\ BecomeDue(m)
  /\ UNCHANGED <<linkVars, airVars>>
  /\ KickOutbound

\* Faulty variant: a retry that keeps the attempts.
RetryKeepingAttempts(m) ==
  /\ entry[m] = "failed"
  /\ entry' = [entry EXCEPT ![m] = "pending"]
  /\ status' = [status EXCEPT ![m] = "pending"]
  /\ BecomeDue(m)
  /\ UNCHANGED <<attempts, linkVars, airVars>>
  /\ KickOutbound

RetryOutbound(m) ==
  /\ entry[m] = "failed"
  /\ entry' = [entry EXCEPT ![m] = "pending"]
  /\ attempts' = [attempts EXCEPT ![m] = 0]
  /\ status' = [status EXCEPT ![m] = "pending"]
  /\ BecomeDue(m)
  /\ UNCHANGED <<linkVars, airVars>>
  /\ KickOutbound

RemoveOutbound(m) ==
  /\ entry' = [entry EXCEPT ![m] = "none"]
  /\ attempts' = [attempts EXCEPT ![m] = 0]
  /\ LeaveDue(m)

\* Faulty variant: the row goes, the message keeps its status.
CancelOfRowOnly(m) ==
  /\ entry[m] # "none"
  /\ RemoveOutbound(m)
  /\ UNCHANGED <<status, linkVars, workerVars, airVars>>

CancelOutbound(m) ==
  /\ entry[m] # "none"
  /\ RemoveOutbound(m)
  /\ status' = [status EXCEPT ![m] = "failed"]
  /\ UNCHANGED <<linkVars, workerVars, airVars>>

---------------------------------------------------------------------------
(* Time.                                                                   *)

BackoffElapses(m) ==
  /\ entry[m] \in Live /\ m \notin due
  /\ BecomeDue(m)
  /\ UNCHANGED <<status, entry, attempts, linkVars, workerVars, airVars>>

OutboundTimerFires ==
  /\ timer
  /\ UNCHANGED <<dbVars, linkVars, airVars>>
  /\ ProcessOutboundQueue(FALSE)

---------------------------------------------------------------------------
(* The hand-over to the radio and the direct send chain.                   *)

\* The radio transmits the frame; its response is not back yet.
RadioAirs ==
  /\ worker = "sending" /\ via # "dead" /\ job \notin aired
  /\ aired' = aired \cup {job}
  /\ UNCHANGED <<dbVars, linkVars, workerVars, acked, handed>>

\* Faulty variant: the entry stays in the queue after its send.
SendKeepingEntry ==
  /\ worker = "sending" /\ via # "dead" /\ job \in aired
  /\ handed' = handed \cup {job}
  /\ status' = [status EXCEPT ![job] = "sent"]
  /\ UNCHANGED <<entry, attempts, due, before, linkVars, aired, acked>>
  /\ ServeNext(pending, timer)

\* deliverDirect and deliverChannel once the send promise has resolved.
SendSucceeds ==
  /\ worker = "sending" /\ via # "dead" /\ job \in aired
  /\ RemoveOutbound(job)
  /\ handed' = handed \cup {job}
  /\ UNCHANGED <<linkVars, aired, acked>>
  /\ IF job \in Direct /\ early = Crc[job]
     THEN /\ status' = IF pending = job THEN [status EXCEPT ![job] = "delivered"] ELSE status
          /\ ServeNext(NoMsg, timer)
     ELSE /\ status' = [status EXCEPT ![job] = "sent"]
          /\ ServeNext(pending, timer)

\* Faulty variant: a write that brings back an entry cancelled meanwhile.
FailureReinserts ==
  LET n == jobAttempts + 1 IN
  /\ LeaveDue(job)
  /\ IF n >= MaxAttempts
     THEN /\ status' = [status EXCEPT ![job] = "failed"]
          /\ entry' = [entry EXCEPT ![job] = "failed"]
     ELSE /\ status' = status
          /\ entry' = [entry EXCEPT ![job] = "retrying"]
  /\ attempts' = [attempts EXCEPT ![job] = n]

\* The entry may be gone by now: the UPDATE then changes no row.
RecordOutboundFailure ==
  LET n == jobAttempts + 1 IN
  /\ LeaveDue(job)
  /\ IF n >= MaxAttempts
     THEN /\ status' = [status EXCEPT ![job] = "failed"]
          /\ entry' = [entry EXCEPT ![job] = IF @ = "none" THEN "none" ELSE "failed"]
     ELSE /\ status' = status
          /\ entry' = [entry EXCEPT ![job] = IF @ = "none" THEN "none" ELSE "retrying"]
  /\ attempts' = [attempts EXCEPT ![job] = IF entry[job] = "none" THEN @ ELSE n]

\* The send promise has rejected.
SendFails ==
  /\ worker = "sending"
  /\ UNCHANGED <<linkVars, airVars>>
  /\ LET p == IF pending = job THEN NoMsg ELSE pending IN
     IF linkState \in Active
     THEN RecordOutboundFailure /\ ServeNext(p, timer)
     ELSE UNCHANGED dbVars /\ Rest(p)

\* finishDirectDelivery lets the next send of the chain begin.
FinishDirectDelivery ==
  IF worker = "waiting"
  THEN worker' = "sending" /\ pending' = job
  ELSE worker' = worker /\ pending' = NoMsg

\* Faulty variant: any acknowledgement confirms the delivery that waits for one.
ConfirmAnyCode(m) ==
  /\ m \in aired /\ open /\ ~standby
  /\ acked' = acked \cup {m}
  /\ pending # NoMsg /\ ~(worker = "sending" /\ pending = job)
  /\ status' = [status EXCEPT ![pending] = "delivered"] /\ FinishDirectDelivery
  /\ UNCHANGED <<entry, attempts, due, before, linkVars, job, jobAttempts, via,
                 kickAgain, timer, early, aired, handed>>

\* A push acknowledges m, now or after a long way through the mesh.
SendConfirmed(m) ==
  /\ m \in aired /\ open /\ ~standby
  /\ acked' = acked \cup {m}
  /\ UNCHANGED <<entry, attempts, due, before, linkVars, job, jobAttempts, via,
                 kickAgain, timer, aired, handed>>
  /\ IF pending # NoMsg /\ worker = "sending" /\ pending = job
     THEN early' = Crc[m] /\ UNCHANGED <<status, worker, pending>>
     ELSE /\ UNCHANGED early
          /\ IF pending # NoMsg /\ Crc[pending] = Crc[m]
             THEN status' = [status EXCEPT ![pending] = "delivered"] /\ FinishDirectDelivery
             ELSE UNCHANGED <<status, worker, pending>>

AckTimeout ==
  /\ pending # NoMsg /\ ~(worker = "sending" /\ pending = job)
  /\ FinishDirectDelivery
  /\ UNCHANGED <<dbVars, linkVars, job, jobAttempts, via, kickAgain, timer, early, airVars>>

---------------------------------------------------------------------------
(* The link, as far as the worker sees it.                                 *)

LinkSyncs ==
  /\ linkState = "idle" /\ ~standby
  /\ linkState' = "syncing" /\ open' = TRUE
  /\ UNCHANGED <<dbVars, standby, workerVars, airVars>>

\* Faulty variant: the queue is not kicked when the link comes up.
ConnectedWithoutKick ==
  /\ linkState = "syncing" /\ open
  /\ linkState' = "connected"
  /\ UNCHANGED <<dbVars, open, standby, workerVars, airVars>>

LinkConnected ==
  /\ linkState = "syncing" /\ open
  /\ linkState' = "connected"
  /\ UNCHANGED <<dbVars, open, standby, airVars>>
  /\ KickOutbound

\* The part of teardown before it awaits connection.close().
Teardown ==
  /\ open' = FALSE /\ timer' = FALSE
  /\ via' = IF via = "live" THEN "closing" ELSE via
  /\ FinishDirectDelivery
  /\ UNCHANGED <<dbVars, linkState, job, jobAttempts, kickAgain, early, airVars>>

LinkDrops == open /\ Teardown /\ UNCHANGED standby

Release == ~standby /\ (open \/ linkState = "idle") /\ standby' = TRUE /\ Teardown

\* connection.close() has resolved: the state leaves connected only now.
CloseDone ==
  /\ ~open /\ linkState \in Active
  /\ linkState' = "idle"
  /\ via' = "dead"
  /\ UNCHANGED <<dbVars, open, standby, worker, job, jobAttempts, kickAgain, timer, pending, early, airVars>>

Claim ==
  /\ standby /\ linkState = "idle"
  /\ standby' = FALSE
  /\ UNCHANGED <<dbVars, linkState, open, workerVars, airVars>>

\* The process dies and starts again with what the database holds.
Restart ==
  /\ linkState' = "idle" /\ open' = FALSE
  /\ worker' = "idle" /\ job' = NoMsg /\ jobAttempts' = 0 /\ via' = "dead"
  /\ kickAgain' = FALSE /\ timer' = FALSE /\ pending' = NoMsg /\ early' = NoCode
  /\ UNCHANGED <<dbVars, standby, airVars>>

---------------------------------------------------------------------------

Next ==
  \/ \E m \in Messages : EnqueueOutboundMessage(m) \/ RetryOutbound(m) \/ CancelOutbound(m)
  \/ \E m \in Messages : BackoffElapses(m)
  \/ \E m \in Direct : SendConfirmed(m)
  \/ OutboundTimerFires \/ RadioAirs \/ SendSucceeds \/ SendFails \/ AckTimeout
  \/ LinkSyncs \/ LinkConnected \/ LinkDrops \/ Release \/ CloseDone \/ Claim
  \/ Restart

Spec == Init /\ [][Next]_vars

\* The event loop runs what is ready and timers fire.  The users, the mesh and the
\* link's ups and downs are under no obligation.
Scheduling ==
  /\ \A m \in Messages : WF_vars(BackoffElapses(m))
  /\ WF_vars(OutboundTimerFires) /\ WF_vars(AckTimeout)

\* The library settles every send promise, also when its connection is gone.
FairSpec == Spec /\ Scheduling /\ WF_vars(SendSucceeds \/ SendFails)

---------------------------------------------------------------------------
(* Properties.                                                             *)

\* The queue row and the message row tell one story: a live entry belongs to a
\* pending message that has attempts left, a failed one to a failed message that
\* has used them all (two tables, written one after the other in link.ts and
\* manager.ts).
LedgerAgrees ==
  \A m \in Messages :
    /\ entry[m] \in Live => status[m] = "pending"
    /\ entry[m] = "pending" => attempts[m] = 0
    /\ entry[m] = "retrying" => attempts[m] \in 1..(MaxAttempts - 1)
    /\ entry[m] = "failed" => status[m] = "failed" /\ attempts[m] = MaxAttempts
    /\ m \in due => entry[m] \in Live

\* No drop, restart, cancel or refused frame loses a message: one that reads as
\* pending is still queued, or the radio has answered for it.
NothingLost ==
  \A m \in Messages : status[m] = "pending" => entry[m] \in Live \/ m \in handed

\* What the worker read of its entry before it awaited the radio is still so
\* when the answer comes, unless the user cancelled the entry meanwhile.
SnapshotFresh ==
  worker # "idle" /\ entry[job] # "none" =>
    entry[job] \in Live /\ jobAttempts = attempts[job]

\* The worker never takes a message the radio has already answered for.
NotHandedAgain == worker # "idle" => job \notin handed

\* A send waits in the direct send chain only behind a delivery that was handed
\* over and has an acknowledgement or a timeout to come: the chain cannot jam.
WaiterHasHolder ==
  worker = "waiting" => job \in Direct /\ pending \in handed

\* A message reads as delivered only if its own recipient acknowledged it,
\* however late, early or repeated the acknowledgements come.
DeliveredMeansAcked ==
  \A m \in Direct : status[m] = "delivered" => m \in acked

\* Once the link stays up, every queued message is handed over, fails or is
\* cancelled: no kick, timer or chain wake-up is lost.
QueuedMessagesSettle ==
  <>[](linkState = "connected" /\ open) =>
    \A m \in Messages : (entry[m] \in Live) ~> (entry[m] \notin Live)

\* The queue implements the life of a message that the rest of the system sees.
phaseOf(m) ==
  CASE entry[m] \in Live -> "queued"
    [] entry[m] = "failed" -> "failed"
    [] OTHER -> CASE status[m] = "none" -> "new"
                  [] status[m] = "delivered" -> "delivered"
                  [] status[m] = "failed" -> "dropped"
                  [] OTHER -> "sent"

Lifecycle == INSTANCE MessageLifecycle
               WITH phase <- [m \in Messages |-> phaseOf(m)], held <- job

ImplementsLifecycle == Lifecycle!Spec

\* operations.md: "A message is pending until handed to the radio, then follows
\* the normal sent -> delivered path".
PendingUntilHanded ==
  \A m \in Messages : status[m] = "pending" => entry[m] \in Live
===========================================================================
