------------------------ MODULE OutboundQueueProofs ------------------------
(***************************************************************************)
(* Proofs about OutboundQueue, for any set of messages and any attempt     *)
(* limit.  The inductive invariant has three parts: what the database      *)
(* holds (DbOK), what the link reports (LinkOK) and what the worker and    *)
(* the direct send chain hold in memory about the database (WorkerOK).     *)
(***************************************************************************)
EXTENDS OutboundQueue, TLAPS

\* A message the radio has answered for has left the queue for good.
HandedLeft == \A m \in handed : entry[m] = "none" /\ status[m] # "none"

DbOK ==
  /\ status \in [Messages -> {"none", "pending", "sent", "delivered", "failed"}]
  /\ entry \in [Messages -> {"pending", "retrying", "none", "failed"}]
  /\ attempts \in [Messages -> 0..MaxAttempts]
  /\ due \in SUBSET Messages /\ before \in SUBSET (Messages \X Messages)
  /\ aired \in SUBSET Messages /\ acked \in SUBSET Direct /\ handed \in SUBSET Messages
  /\ LedgerAgrees /\ NothingLost /\ HandedLeft
  /\ \A m \in Messages : status[m] = "none" => entry[m] = "none"

LinkOK == /\ linkState \in {"syncing", "connected", "idle"}
          /\ open \in BOOLEAN /\ standby \in BOOLEAN

\* What the job in hand may rely on.
JobOK ==
  /\ job \in Messages \ handed
  /\ status[job] # "none"
  /\ entry[job] # "none" => entry[job] \in {"pending", "retrying"} /\ jobAttempts = attempts[job]

WorkerOK ==
  /\ worker \in {"idle", "waiting", "sending"}
  /\ job \in Messages \cup {NoMsg} /\ jobAttempts \in 0..MaxAttempts
  /\ via \in {"live", "closing", "dead"} /\ kickAgain \in BOOLEAN /\ timer \in BOOLEAN
  /\ pending \in Direct \cup {NoMsg} /\ early \in Codes \cup {NoCode}
  /\ worker # "idle" => JobOK
  /\ worker = "idle" => job = NoMsg
  /\ worker = "waiting" => job \in Direct /\ pending # NoMsg
  /\ pending = NoMsg \/ pending \in handed \/ (worker = "sending" /\ pending = job)

IInv == DbOK /\ LinkOK /\ WorkerOK

---------------------------------------------------------------------------

\* The inductive invariant implies every invariant the runs check.
LEMMA InvariantImplies ==
  IInv => TypeOK /\ LedgerAgrees /\ NothingLost /\ SnapshotFresh
               /\ NotHandedAgain /\ WaiterHasHolder
  BY OutboundAssumption
     DEF IInv, DbOK, LinkOK, WorkerOK, JobOK, TypeOK, SnapshotFresh, NotHandedAgain,
         WaiterHasHolder, Live, Active, Messages

LEMMA InitInvariant == Init => IInv
<1> SUFFICES ASSUME Init PROVE IInv
  OBVIOUS
<1>1. DbOK
  BY OutboundAssumption DEF Init, DbOK, LedgerAgrees, NothingLost, HandedLeft, Live
<1>2. LinkOK
  BY Zenon DEF Init, LinkOK
<1>3. kickAgain \in BOOLEAN /\ timer \in BOOLEAN
  BY Zenon DEF Init
<1>4. WorkerOK
  BY <1>3, OutboundAssumption DEF Init, WorkerOK
<1> QED
  BY <1>1, <1>2, <1>4 DEF IInv

\* Whatever the loop takes next, the worker's memory agrees with the database.
LEMMA ServeNextOK ==
  ASSUME DbOK', NEW p \in Direct \cup {NoMsg}, NEW t \in BOOLEAN, ServeNext(p, t),
         kickAgain \in BOOLEAN, p = NoMsg \/ p \in handed'
  PROVE  WorkerOK'
<1>1. CASE ~standby' /\ linkState' \in Active /\ open' /\ due' # {}
  <2>1. PICK m \in Oldest(due', before') : Take(m, p)
    BY <1>1 DEF ServeNext
  <2>2. m \in Messages /\ entry'[m] \in {"pending", "retrying"} /\ m \notin handed' /\ status'[m] # "none"
    BY <2>1 DEF Oldest, DbOK, LedgerAgrees, HandedLeft, Live
  <2>3. timer' \in BOOLEAN /\ kickAgain' \in BOOLEAN
    BY <1>1, <2>1, Zenon DEF ServeNext, Take
  <2>4. jobAttempts' \in 0..MaxAttempts
    BY <2>1, <2>2 DEF Take, DbOK
  <2>5. JobOK'
    BY <2>1, <2>2 DEF Take, JobOK
  <2>6. /\ worker' \in {"waiting", "sending"} /\ pending' \in Direct \cup {NoMsg}
        /\ worker' = "waiting" => job' \in Direct /\ pending' # NoMsg
        /\ pending' = NoMsg \/ pending' \in handed' \/ (worker' = "sending" /\ pending' = job')
    BY <2>1, <2>2 DEF Take
  <2> QED
    BY <2>1, <2>2, <2>3, <2>4, <2>5, <2>6 DEF Take, WorkerOK
<1>2. CASE ~(~standby' /\ linkState' \in Active /\ open' /\ due' # {})
  <2>1. Rest(p)
    BY <1>2 DEF ServeNext
  <2>2. timer' \in BOOLEAN /\ kickAgain' \in BOOLEAN
    BY <2>1, Zenon DEF Rest
  <2> QED
    BY <2>1, <2>2, OutboundAssumption DEF Rest, WorkerOK
<1> QED
  BY <1>1, <1>2

\* A kick either finds the worker idle or leaves it with the entry it holds.
LEMMA KickOK ==
  ASSUME DbOK', WorkerOK, NEW t \in BOOLEAN, ProcessOutboundQueue(t), handed' = handed,
         worker # "idle" => /\ entry'[job] = entry[job] /\ attempts'[job] = attempts[job]
                            /\ status'[job] = status[job]
  PROVE  WorkerOK'
<1>1. CASE worker = "idle"
  <2>1. ServeNext(pending, t) /\ (pending = NoMsg \/ pending \in handed')
    BY <1>1 DEF ProcessOutboundQueue, WorkerOK
  <2> QED
    BY <2>1, ServeNextOK DEF WorkerOK
<1>2. CASE worker # "idle"
  BY <1>2 DEF ProcessOutboundQueue, WorkerOK, JobOK
<1> QED
  BY <1>1, <1>2

---------------------------------------------------------------------------
(* Every step preserves the invariant.                                     *)

LEMMA EnqueueOK ==
  ASSUME IInv, NEW m \in Messages, EnqueueOutboundMessage(m)
  PROVE  IInv'
<1> USE DEF IInv
<1>1. LinkOK' /\ handed' = handed
  BY DEF EnqueueOutboundMessage, LinkOK, linkVars, airVars
<1>2. m \notin handed /\ (worker # "idle" => job # m)
  BY DEF EnqueueOutboundMessage, DbOK, HandedLeft, WorkerOK, JobOK
<1>3. DbOK'
  BY <1>1, <1>2, OutboundAssumption DEF EnqueueOutboundMessage, BecomeDue, DbOK, LedgerAgrees, NothingLost, HandedLeft,
                    Live, airVars
<1>4. ProcessOutboundQueue(timer) /\ timer \in BOOLEAN
  BY DEF EnqueueOutboundMessage, KickOutbound, WorkerOK
<1>5. worker # "idle" => entry'[job] = entry[job] /\ attempts'[job] = attempts[job]
                         /\ status'[job] = status[job]
  BY <1>2 DEF EnqueueOutboundMessage, WorkerOK, DbOK
<1> QED
  BY <1>1, <1>3, <1>4, <1>5, KickOK

LEMMA RetryOK ==
  ASSUME IInv, NEW m \in Messages, RetryOutbound(m)
  PROVE  IInv'
<1> USE DEF IInv
<1>1. LinkOK' /\ handed' = handed
  BY DEF RetryOutbound, LinkOK, linkVars, airVars
<1>2. m \notin handed /\ (worker # "idle" => job # m)
  BY DEF RetryOutbound, DbOK, HandedLeft, WorkerOK, JobOK
<1>3. DbOK'
  BY <1>1, <1>2, OutboundAssumption DEF RetryOutbound, BecomeDue, DbOK, LedgerAgrees, NothingLost, HandedLeft, Live, airVars
<1>4. ProcessOutboundQueue(timer) /\ timer \in BOOLEAN
  BY DEF RetryOutbound, KickOutbound, WorkerOK
<1>5. worker # "idle" => entry'[job] = entry[job] /\ attempts'[job] = attempts[job]
                         /\ status'[job] = status[job]
  BY <1>2 DEF RetryOutbound, WorkerOK, DbOK
<1> QED
  BY <1>1, <1>3, <1>4, <1>5, KickOK

LEMMA CancelOK ==
  ASSUME IInv, NEW m \in Messages, CancelOutbound(m)
  PROVE  IInv'
<1> USE DEF IInv
<1>1. LinkOK' /\ handed' = handed /\ m \notin handed
  BY DEF CancelOutbound, LinkOK, linkVars, airVars, DbOK, HandedLeft
<1>2. DbOK'
  BY <1>1, OutboundAssumption DEF CancelOutbound, RemoveOutbound, LeaveDue, DbOK, LedgerAgrees, NothingLost, HandedLeft,
              Live, airVars
<1>3. ASSUME worker # "idle" PROVE JobOK'
  <2>1. JobOK /\ job' = job /\ jobAttempts' = jobAttempts
    BY <1>3 DEF WorkerOK, CancelOutbound, workerVars
  <2>2. /\ status' = [status EXCEPT ![m] = "failed"] /\ entry' = [entry EXCEPT ![m] = "none"]
        /\ attempts' = [attempts EXCEPT ![m] = 0]
    BY DEF CancelOutbound, RemoveOutbound
  <2> QED
    BY <1>1, <2>1, <2>2 DEF JobOK, DbOK
<1>4. WorkerOK'
  BY <1>1, <1>3 DEF CancelOutbound, WorkerOK, workerVars
<1> QED
  BY <1>1, <1>2, <1>4

LEMMA BackoffOK ==
  ASSUME IInv, NEW m \in Messages, BackoffElapses(m)
  PROVE  IInv'
BY DEF IInv, BackoffElapses, BecomeDue, LinkOK, DbOK, LedgerAgrees, NothingLost, HandedLeft, Live,
       WorkerOK, JobOK, workerVars, linkVars, airVars

LEMMA TimerOK ==
  ASSUME IInv, OutboundTimerFires
  PROVE  IInv'
<1> USE DEF IInv
<1>1. LinkOK' /\ handed' = handed
  BY DEF OutboundTimerFires, LinkOK, linkVars, airVars
<1>2. DbOK'
  BY DEF OutboundTimerFires, DbOK, LedgerAgrees, NothingLost, HandedLeft, dbVars, airVars
<1>3. ProcessOutboundQueue(FALSE) /\ entry' = entry /\ attempts' = attempts /\ status' = status
  BY DEF OutboundTimerFires, dbVars
<1> QED
  BY <1>1, <1>2, <1>3, KickOK

LEMMA AirsOK ==
  ASSUME IInv, RadioAirs
  PROVE  IInv'
BY DEF IInv, RadioAirs, LinkOK, DbOK, LedgerAgrees, NothingLost, HandedLeft,
       WorkerOK, JobOK, dbVars, workerVars, linkVars

LEMMA SucceedsOK ==
  ASSUME IInv, SendSucceeds
  PROVE  IInv'
<1> USE DEF IInv
<1>1. JobOK /\ job \in Messages /\ aired' = aired /\ acked' = acked /\ handed' = handed \cup {job}
  BY DEF SendSucceeds, WorkerOK, JobOK
<1>2. LinkOK'
  BY DEF SendSucceeds, LinkOK, linkVars
<1>3. \E s \in {"sent", "delivered"} : status' = [status EXCEPT ![job] = s] \/ status' = status
  BY DEF SendSucceeds
<1>4. DbOK'
  BY <1>1, <1>3, OutboundAssumption
     DEF SendSucceeds, RemoveOutbound, LeaveDue, DbOK, LedgerAgrees, NothingLost, HandedLeft, Live, JobOK
<1>a. ServeNext(NoMsg, timer) \/ ServeNext(pending, timer)
  BY Zenon DEF SendSucceeds
<1>5. PICK p \in {NoMsg, pending} : ServeNext(p, timer)
  BY <1>a, Zenon
<1>6. p \in Direct \cup {NoMsg} /\ (p = NoMsg \/ p \in handed')
  BY <1>1, <1>5 DEF WorkerOK
<1>7. timer \in BOOLEAN /\ kickAgain \in BOOLEAN
  BY DEF WorkerOK
<1> QED
  BY <1>2, <1>4, <1>5, <1>6, <1>7, ServeNextOK

LEMMA FailsOK ==
  ASSUME IInv, SendFails
  PROVE  IInv'
<1> USE DEF IInv
<1>1. JobOK /\ job \in Messages /\ handed' = handed /\ aired' = aired /\ acked' = acked
  BY DEF SendFails, WorkerOK, JobOK, airVars
<1>2. LinkOK'
  BY DEF SendFails, LinkOK, linkVars
<1>3. DEFINE p == IF pending = job THEN NoMsg ELSE pending
<1>4. p \in Direct \cup {NoMsg} /\ (p = NoMsg \/ p \in handed')
  BY <1>1 DEF WorkerOK
<1>5. timer \in BOOLEAN /\ kickAgain \in BOOLEAN
  BY DEF WorkerOK
<1>6. CASE linkState \in Active
  <2>1. RecordOutboundFailure /\ ServeNext(p, timer)
    BY <1>6 DEF SendFails
  <2>2. entry[job] # "none" => jobAttempts + 1 \in 1..MaxAttempts
    BY <1>1, OutboundAssumption DEF JobOK, DbOK, LedgerAgrees, Live
  <2>3. DbOK'
    BY <1>1, <2>1, <2>2, OutboundAssumption
       DEF RecordOutboundFailure, LeaveDue, DbOK, LedgerAgrees, NothingLost, HandedLeft, Live, JobOK
  <2> QED
    BY <1>2, <1>4, <1>5, <2>1, <2>3, ServeNextOK
<1>7. CASE linkState \notin Active
  <2>1. UNCHANGED dbVars /\ Rest(p)
    BY <1>7 DEF SendFails
  <2>2. DbOK'
    BY <1>1, <2>1 DEF dbVars, DbOK, LedgerAgrees, NothingLost, HandedLeft
  <2>3. ~(linkState' \in Active)
    BY <1>7 DEF SendFails, linkVars
  <2>4. ServeNext(p, timer)
    BY <2>1, <2>3 DEF ServeNext
  <2> QED
    BY <1>2, <1>4, <1>5, <2>2, <2>4, ServeNextOK
<1> QED
  BY <1>6, <1>7

\* The chain always lets the waiting send begin, and nothing else changes.
LEMMA FinishOK ==
  ASSUME WorkerOK, FinishDirectDelivery
  PROVE  /\ worker' \in {"idle", "waiting", "sending"} /\ pending' \in Direct \cup {NoMsg}
         /\ worker' # "waiting" /\ (worker' = "idle" <=> worker = "idle")
         /\ pending' = NoMsg \/ (worker' = "sending" /\ pending' = job)
BY DEF WorkerOK, FinishDirectDelivery

LEMMA ConfirmedOK ==
  ASSUME IInv, NEW m \in Direct, SendConfirmed(m)
  PROVE  IInv'
<1> USE DEF IInv
<1>1. LinkOK' /\ handed' = handed
  BY DEF SendConfirmed, LinkOK, linkVars
<1>2. status' = status \/ (pending \in handed /\ status' = [status EXCEPT ![pending] = "delivered"])
  BY DEF SendConfirmed, WorkerOK
<1>3. DbOK'
  <2>1. /\ entry' = entry /\ attempts' = attempts /\ due' = due /\ before' = before
        /\ aired' = aired /\ acked' = acked \cup {m}
    BY DEF SendConfirmed
  <2> QED
    BY <1>1, <1>2, <2>1 DEF DbOK, LedgerAgrees, NothingLost, HandedLeft, Live
<1>4. ASSUME worker # "idle" PROVE JobOK'
  <2>1. JobOK /\ job' = job /\ jobAttempts' = jobAttempts /\ entry' = entry /\ attempts' = attempts
    BY <1>4 DEF SendConfirmed, WorkerOK
  <2> QED
    BY <1>1, <1>2, <2>1 DEF JobOK, DbOK
<1>5. \/ FinishDirectDelivery
      \/ worker' = worker /\ pending' = pending
  BY Zenon DEF SendConfirmed
<1>6. early' \in Codes \cup {NoCode}
  BY OutboundAssumption DEF SendConfirmed, WorkerOK
<1>7. /\ job' = job /\ jobAttempts' = jobAttempts /\ via' = via
      /\ kickAgain' = kickAgain /\ timer' = timer
  BY DEF SendConfirmed
<1>8. WorkerOK'
  <2>1. CASE FinishDirectDelivery
    BY <1>1, <1>4, <1>6, <1>7, <2>1, FinishOK DEF WorkerOK
  <2>2. CASE worker' = worker /\ pending' = pending
    BY <1>1, <1>4, <1>6, <1>7, <2>2 DEF WorkerOK
  <2> QED
    BY <1>5, <2>1, <2>2
<1> QED
  BY <1>1, <1>3, <1>8

LEMMA TimeoutOK ==
  ASSUME IInv, AckTimeout
  PROVE  IInv'
<1> USE DEF IInv
<1>1. DbOK'
  BY DEF AckTimeout, dbVars, airVars, DbOK, LedgerAgrees, NothingLost, HandedLeft
<1>2. LinkOK'
  BY DEF AckTimeout, linkVars, LinkOK
<1>3. JobOK => JobOK'
  BY DEF AckTimeout, JobOK, dbVars, airVars
<1> QED
  BY <1>1, <1>2, <1>3, FinishOK DEF AckTimeout, WorkerOK, airVars

LEMMA TeardownOK ==
  ASSUME IInv, Teardown, standby' \in BOOLEAN
  PROVE  IInv'
<1> USE DEF IInv
<1>1. DbOK'
  BY DEF Teardown, dbVars, airVars, DbOK, LedgerAgrees, NothingLost, HandedLeft
<1>2. LinkOK'
  BY DEF Teardown, LinkOK
<1>3. JobOK => JobOK'
  BY DEF Teardown, JobOK, dbVars, airVars
<1>4. timer' \in BOOLEAN
  BY Zenon DEF Teardown
<1>5. via' \in {"live", "closing", "dead"}
  BY DEF Teardown, WorkerOK
<1> QED
  BY <1>1, <1>2, <1>3, <1>4, <1>5, FinishOK DEF Teardown, WorkerOK, airVars

LEMMA ConnectedOK ==
  ASSUME IInv, LinkConnected
  PROVE  IInv'
<1> USE DEF IInv
<1>1. LinkOK' /\ handed' = handed
  BY DEF LinkConnected, LinkOK, airVars
<1>2. DbOK'
  BY DEF LinkConnected, dbVars, airVars, DbOK, LedgerAgrees, NothingLost, HandedLeft
<1>3. ProcessOutboundQueue(timer) /\ timer \in BOOLEAN
  BY DEF LinkConnected, KickOutbound, WorkerOK
<1>4. entry' = entry /\ attempts' = attempts /\ status' = status
  BY DEF LinkConnected, dbVars
<1> QED
  BY <1>1, <1>2, <1>3, <1>4, KickOK

\* The other steps of the link leave the queue as it is.
LEMMA LinkOnlyOK ==
  ASSUME IInv, LinkSyncs \/ CloseDone \/ Claim
  PROVE  IInv'
<1> USE DEF IInv
<1>1. /\ UNCHANGED dbVars /\ UNCHANGED airVars
      /\ UNCHANGED <<worker, job, jobAttempts, kickAgain, timer, pending, early>>
      /\ via' \in {via, "dead"}
  BY DEF LinkSyncs, CloseDone, Claim, workerVars
<1>2. DbOK' /\ (JobOK => JobOK')
  BY <1>1 DEF dbVars, airVars, DbOK, LedgerAgrees, NothingLost, HandedLeft, JobOK
<1>3. LinkOK'
  <2>1. CASE LinkSyncs
    BY <2>1, Zenon DEF LinkSyncs, LinkOK
  <2>2. CASE CloseDone
    BY <2>2 DEF CloseDone, LinkOK
  <2>3. CASE Claim
    <3>1. standby' \in BOOLEAN
      BY <2>3, Zenon DEF Claim
    <3> QED
      BY <2>3, <3>1 DEF Claim, LinkOK
  <2> QED
    BY <2>1, <2>2, <2>3
<1> QED
  BY <1>1, <1>2, <1>3 DEF WorkerOK, airVars

LEMMA RestartOK ==
  ASSUME IInv, Restart
  PROVE  IInv'
<1> USE DEF IInv
<1>1. DbOK'
  BY DEF Restart, dbVars, airVars, DbOK, LedgerAgrees, NothingLost, HandedLeft
<1>2. open' \in BOOLEAN /\ kickAgain' \in BOOLEAN /\ timer' \in BOOLEAN
  BY Zenon DEF Restart
<1> QED
  BY <1>1, <1>2, OutboundAssumption DEF Restart, LinkOK, WorkerOK

LEMMA StutterOK ==
  ASSUME IInv, UNCHANGED vars
  PROVE  IInv'
BY DEF IInv, vars, dbVars, linkVars, workerVars, airVars, DbOK, LinkOK, WorkerOK, JobOK,
       LedgerAgrees, NothingLost, HandedLeft

LEMMA StepInvariant == IInv /\ [Next]_vars => IInv'
<1> SUFFICES ASSUME IInv, [Next]_vars PROVE IInv'
  OBVIOUS
<1>1. ASSUME NEW m \in Messages,
             EnqueueOutboundMessage(m) \/ RetryOutbound(m) \/ CancelOutbound(m) \/ BackoffElapses(m)
      PROVE  IInv'
  BY <1>1, EnqueueOK, RetryOK, CancelOK, BackoffOK
<1>2. ASSUME NEW m \in Direct, SendConfirmed(m) PROVE IInv'
  BY <1>2, ConfirmedOK
<1>3. CASE OutboundTimerFires \/ RadioAirs \/ SendSucceeds \/ SendFails \/ AckTimeout
  BY <1>3, TimerOK, AirsOK, SucceedsOK, FailsOK, TimeoutOK
<1>4. CASE LinkDrops \/ Release
  <2>1. standby' \in BOOLEAN
    BY <1>4, Zenon DEF LinkDrops, Release, IInv, LinkOK
  <2> QED
    BY <1>4, <2>1, TeardownOK DEF LinkDrops, Release
<1>5. CASE LinkSyncs \/ LinkConnected \/ CloseDone \/ Claim \/ Restart
  BY <1>5, LinkOnlyOK, ConnectedOK, RestartOK
<1>6. CASE UNCHANGED vars
  BY <1>6, StutterOK
<1> QED
  BY <1>1, <1>2, <1>3, <1>4, <1>5, <1>6 DEF Next

---------------------------------------------------------------------------

\* The inductive invariant holds in every reachable state.
THEOREM Invariant == Spec => []IInv
BY InitInvariant, StepInvariant, PTL DEF Spec

\* Every variable keeps the values the code can give it, whatever the users, the
\* radio and the link do; in particular no entry outlives the attempt limit.
THEOREM TypeCorrect == Spec => []TypeOK
BY Invariant, InvariantImplies, PTL

\* The queue row and the message row, written one after the other, always agree.
THEOREM LedgerCorrect == Spec => []LedgerAgrees
BY Invariant, InvariantImplies, PTL

\* A pending message is queued or answered for, over any drops and restarts.
THEOREM NoLoss == Spec => []NothingLost
BY Invariant, InvariantImplies, PTL

\* What the worker read before it awaited the radio is still true afterwards.
THEOREM FreshSnapshot == Spec => []SnapshotFresh
BY Invariant, InvariantImplies, PTL

\* The worker never hands over a message the radio has already answered for.
THEOREM NoSecondHandover == Spec => []NotHandedAgain
BY Invariant, InvariantImplies, PTL

\* The direct send chain never waits for something that will not come.
THEOREM ChainMoves == Spec => []WaiterHasHolder
BY Invariant, InvariantImplies, PTL

---------------------------------------------------------------------------
(* Acknowledgements carry a CRC, not a message: what delivered means rests *)
(* on no two messages having the same one.                                 *)

CrcInjective == \A m, k \in Direct : Crc[m] = Crc[k] => m = k

\* An acknowledgement kept for the delivery in progress has really come.
EarlyIsReal == early # NoCode => \E k \in acked : early = Crc[k]

AckInv == DeliveredMeansAcked /\ EarlyIsReal

LEMMA ServeClearsEarly ==
  ASSUME NEW p, NEW t, ServeNext(p, t)
  PROVE  early' = NoCode
BY DEF ServeNext, Take, Rest

LEMMA KickKeepsEarly ==
  ASSUME NEW t, ProcessOutboundQueue(t)
  PROVE  early' \in {NoCode, early}
BY ServeClearsEarly DEF ProcessOutboundQueue

LEMMA StepAckInv ==
  ASSUME CrcInjective, IInv, AckInv, [Next]_vars
  PROVE  AckInv'
<1> USE DEF AckInv, Messages
<1>1. ASSUME acked' = acked, early' \in {NoCode, early},
             \A m \in Direct : status'[m] = "delivered" => status[m] = "delivered"
      PROVE  AckInv'
  BY <1>1 DEF DeliveredMeansAcked, EarlyIsReal
<1>2. /\ status \in [Messages -> {"none", "pending", "sent", "delivered", "failed"}]
      /\ acked \in SUBSET Direct
  BY DEF IInv, DbOK
<1>3. ASSUME NEW m \in Messages, EnqueueOutboundMessage(m) \/ RetryOutbound(m) PROVE AckInv'
  <2>1. acked' = acked /\ status' = [status EXCEPT ![m] = "pending"] /\ ProcessOutboundQueue(timer)
    BY <1>3 DEF EnqueueOutboundMessage, RetryOutbound, KickOutbound, airVars
  <2> QED
    BY <1>1, <1>2, <2>1, KickKeepsEarly
<1>4. ASSUME NEW m \in Messages, CancelOutbound(m) \/ BackoffElapses(m) PROVE AckInv'
  <2>1. /\ acked' = acked /\ early' = early
        /\ status' = status \/ status' = [status EXCEPT ![m] = "failed"]
    BY <1>4 DEF CancelOutbound, BackoffElapses, workerVars, airVars
  <2> QED
    BY <1>1, <1>2, <2>1
<1>5. CASE OutboundTimerFires \/ LinkConnected
  <2>1. acked' = acked /\ status' = status /\ \E t \in BOOLEAN : ProcessOutboundQueue(t)
    <3>1. timer \in BOOLEAN
      BY DEF IInv, WorkerOK
    <3> QED
      BY <1>5, <3>1 DEF OutboundTimerFires, LinkConnected, KickOutbound, dbVars, airVars
  <2> QED
    BY <1>1, <2>1, KickKeepsEarly
<1>6. CASE SendSucceeds
  <2>1. early' = NoCode /\ acked' = acked
    BY <1>6, ServeClearsEarly DEF SendSucceeds
  <2>2. CASE job \in Direct /\ early = Crc[job]
    <3>1. job \in acked
      BY <2>2, <1>2, OutboundAssumption DEF EarlyIsReal, CrcInjective
    <3>2. status' \in {status, [status EXCEPT ![job] = "delivered"]}
      BY <1>6, <2>2 DEF SendSucceeds
    <3> QED
      BY <1>2, <2>1, <3>1, <3>2 DEF DeliveredMeansAcked, EarlyIsReal
  <2>3. CASE ~(job \in Direct /\ early = Crc[job])
    <3>1. status' = [status EXCEPT ![job] = "sent"]
      BY <1>6, <2>3, Zenon DEF SendSucceeds
    <3> QED
      BY <1>1, <1>2, <2>1, <3>1
  <2> QED
    BY <2>2, <2>3
<1>7. CASE SendFails
  <2>1. early' = NoCode /\ acked' = acked
    BY <1>7, ServeClearsEarly DEF SendFails, Rest, airVars
  <2>2. status' = status \/ status' = [status EXCEPT ![job] = "failed"]
    BY <1>7 DEF SendFails, RecordOutboundFailure, dbVars
  <2> QED
    BY <1>1, <1>2, <2>1, <2>2
<1>8. ASSUME NEW m \in Direct, SendConfirmed(m) PROVE AckInv'
  <2>1. acked' = acked \cup {m} /\ early' \in {early, Crc[m]}
    BY <1>8 DEF SendConfirmed
  <2>2. \/ status' = status
        \/ /\ pending \in Direct /\ Crc[pending] = Crc[m]
           /\ status' = [status EXCEPT ![pending] = "delivered"]
    BY <1>8 DEF SendConfirmed, IInv, WorkerOK
  <2>3. pending \in Direct /\ Crc[pending] = Crc[m] => pending = m
    BY DEF CrcInjective
  <2> QED
    BY <1>2, <2>1, <2>2, <2>3 DEF DeliveredMeansAcked, EarlyIsReal
<1>9. CASE RadioAirs \/ AckTimeout \/ LinkSyncs \/ CloseDone \/ Claim \/ LinkDrops \/ Release
           \/ Restart \/ UNCHANGED vars
  <2>1. acked' = acked /\ status' = status /\ early' \in {NoCode, early}
    BY <1>9 DEF RadioAirs, AckTimeout, LinkSyncs, CloseDone, Claim, LinkDrops, Release, Teardown,
                Restart, vars, dbVars, workerVars, airVars
  <2> QED
    BY <1>1, <2>1
<1> QED
  BY <1>3, <1>4, <1>5, <1>6, <1>7, <1>8, <1>9 DEF Next

\* As long as the radio gives no two direct messages the same CRC, a message
\* reads as delivered only if its own recipient acknowledged it.
THEOREM DeliveredCorrect ==
  ASSUME CrcInjective
  PROVE  Spec => []DeliveredMeansAcked
<1>1. Init => AckInv
  BY OutboundAssumption DEF Init, AckInv, DeliveredMeansAcked, EarlyIsReal, Messages
<1>2. AckInv => DeliveredMeansAcked
  BY DEF AckInv
<1>3. IInv /\ AckInv /\ [Next]_vars => AckInv'
  BY StepAckInv
<1> QED
  BY Invariant, <1>1, <1>2, <1>3, PTL DEF Spec

---------------------------------------------------------------------------
(* OutboundQueue implements MessageLifecycle, for any messages and any     *)
(* attempt limit: every step of the queue is a step in the life of one     *)
(* message, a turn of the worker, or invisible.                            *)

\* What the refinement needs beyond the invariant: the radio has answered for a
\* message that reads as sent, and the acknowledgement that is awaited belongs to
\* a message that still reads as sent.
AnswerOK ==
  /\ \A m \in Messages : status[m] \in {"sent", "delivered"} => m \in handed
  /\ pending \in handed => status[pending] = "sent"

---------------------------------------------------------------------------
(* AnswerOK is inductive relative to IInv.                                 *)

LEMMA ServePending ==
  ASSUME NEW p, NEW t, ServeNext(p, t)
  PROVE  pending' = p \/ (pending' = job' /\ worker' = "sending")
BY DEF ServeNext, Take, Rest

LEMMA KickPending ==
  ASSUME NEW t, ProcessOutboundQueue(t)
  PROVE  pending' = pending \/ (pending' = job' /\ worker' = "sending")
BY ServePending DEF ProcessOutboundQueue

\* A delivery that becomes the awaited one is not handed over yet.
LEMMA AnswerKept ==
  ASSUME IInv, IInv', AnswerOK, handed' = handed,
         \A m \in handed : status'[m] = status[m],
         \A m \in Messages : status'[m] \in {"sent", "delivered"} => status[m] \in {"sent", "delivered"},
         pending' = pending \/ pending' = NoMsg \/ (pending' = job' /\ worker' # "idle")
  PROVE  AnswerOK'
<1>1. worker' # "idle" => job' \notin handed
  BY DEF IInv, WorkerOK, JobOK
<1>2. NoMsg \notin handed
  BY OutboundAssumption DEF IInv, DbOK
<1> QED
  BY <1>1, <1>2 DEF AnswerOK

LEMMA StepAnswer == IInv /\ IInv' /\ AnswerOK /\ [Next]_vars => AnswerOK'
<1> SUFFICES ASSUME IInv, IInv', AnswerOK, [Next]_vars PROVE AnswerOK'
  OBVIOUS
<1>0. /\ status \in [Messages -> {"none", "pending", "sent", "delivered", "failed"}]
      /\ \A m \in handed : entry[m] = "none" /\ status[m] # "none"
      /\ handed \subseteq Messages
      /\ worker # "idle" => job \in Messages \ handed
  BY DEF IInv, DbOK, HandedLeft, WorkerOK, JobOK
<1>1. ASSUME NEW m \in Messages, EnqueueOutboundMessage(m) \/ RetryOutbound(m) PROVE AnswerOK'
  <2>1. /\ handed' = handed /\ status' = [status EXCEPT ![m] = "pending"] /\ m \notin handed
        /\ ProcessOutboundQueue(timer)
    BY <1>0, <1>1 DEF EnqueueOutboundMessage, RetryOutbound, KickOutbound, airVars
  <2> QED
    BY <1>0, <2>1, KickPending, AnswerKept
<1>2. ASSUME NEW m \in Messages, CancelOutbound(m) \/ BackoffElapses(m) PROVE AnswerOK'
  <2>1. /\ handed' = handed /\ pending' = pending
        /\ status' = status \/ (m \notin handed /\ status' = [status EXCEPT ![m] = "failed"])
    BY <1>0, <1>2 DEF CancelOutbound, BackoffElapses, workerVars, airVars
  <2> QED
    BY <1>0, <2>1, AnswerKept
<1>3. CASE OutboundTimerFires \/ LinkConnected
  <2>1. handed' = handed /\ status' = status /\ \E t : ProcessOutboundQueue(t)
    BY <1>3 DEF OutboundTimerFires, LinkConnected, KickOutbound, dbVars, airVars
  <2> QED
    BY <2>1, KickPending, AnswerKept
<1>4. CASE SendSucceeds
  <2>0. /\ worker = "sending" /\ job \in Messages \ handed /\ handed' = handed \cup {job}
    BY <1>0, <1>4 DEF SendSucceeds
  <2>1. \A m \in Messages : status'[m] \in {"sent", "delivered"} => m \in handed'
    BY <1>0, <1>4, <2>0 DEF SendSucceeds, AnswerOK
  <2>2. CASE job \in Direct /\ early = Crc[job]
    <3>1. ServeNext(NoMsg, timer)
      BY <1>4, <2>2, Zenon DEF SendSucceeds
    <3>2. pending' = NoMsg \/ (pending' = job' /\ worker' = "sending")
      BY <3>1, ServePending
    <3>3. pending' \notin handed'
      BY <3>2, OutboundAssumption DEF IInv, WorkerOK, JobOK, DbOK
    <3> QED
      BY <2>1, <3>3 DEF AnswerOK
  <2>3. CASE ~(job \in Direct /\ early = Crc[job])
    <3>1. ServeNext(pending, timer) /\ status' = [status EXCEPT ![job] = "sent"]
      BY <1>4, <2>3, Zenon DEF SendSucceeds
    <3>2. pending' = pending \/ (pending' = job' /\ worker' = "sending")
      BY <3>1, ServePending
    <3>3. pending \in handed' => status'[pending] = "sent"
      BY <1>0, <2>0, <3>1 DEF AnswerOK
    <3>4. pending' = job' /\ worker' = "sending" => pending' \notin handed'
      BY DEF IInv, WorkerOK, JobOK
    <3> QED
      BY <2>1, <3>2, <3>3, <3>4 DEF AnswerOK
  <2> QED
    BY <2>2, <2>3
<1>5. CASE SendFails
  <2>1. /\ handed' = handed /\ job \in Messages \ handed
        /\ status' = status \/ status' = [status EXCEPT ![job] = "failed"]
    BY <1>0, <1>5 DEF SendFails, RecordOutboundFailure, dbVars, airVars
  <2>2. pending' = pending \/ pending' = NoMsg \/ (pending' = job' /\ worker' = "sending")
    <3>1. \E p \in {NoMsg, pending} : ServeNext(p, timer) \/ Rest(p)
      BY <1>5 DEF SendFails
    <3> QED
      BY <3>1, ServePending DEF Rest
  <2> QED
    BY <1>0, <2>1, <2>2, AnswerKept
<1>6. ASSUME NEW m \in Direct, SendConfirmed(m) PROVE AnswerOK'
  <2>1. handed' = handed
    BY <1>6 DEF SendConfirmed
  <2>2. CASE status' = status /\ pending' = pending
    BY <2>1, <2>2, AnswerKept
  <2>3. CASE /\ pending # NoMsg /\ ~(worker = "sending" /\ pending = job)
             /\ status' = [status EXCEPT ![pending] = "delivered"] /\ FinishDirectDelivery
    <3>1. pending \in handed
      BY <2>3 DEF IInv, WorkerOK
    <3>2. pending' = NoMsg \/ (pending' = job' /\ worker' # "idle")
      BY <1>6, <2>3 DEF FinishDirectDelivery, SendConfirmed
    <3>3. pending' \notin handed'
      BY <3>2, OutboundAssumption DEF IInv, WorkerOK, JobOK, DbOK
    <3> QED
      BY <1>0, <2>1, <2>3, <3>1, <3>3 DEF AnswerOK
  <2> QED
    BY <1>6, <2>2, <2>3, Zenon DEF SendConfirmed
<1>7. CASE RadioAirs \/ LinkSyncs \/ CloseDone \/ Claim \/ Restart \/ UNCHANGED vars
  <2>1. handed' = handed /\ status' = status /\ pending' \in {pending, NoMsg}
    BY <1>7 DEF RadioAirs, LinkSyncs, CloseDone, Claim, Restart, vars, dbVars, workerVars, airVars
  <2> QED
    BY <2>1, AnswerKept
<1>8. CASE AckTimeout \/ LinkDrops \/ Release
  <2>1. handed' = handed /\ status' = status /\ job' = job /\ FinishDirectDelivery
    BY <1>8 DEF AckTimeout, LinkDrops, Release, Teardown, dbVars, airVars
  <2>2. pending' = NoMsg \/ (pending' = job' /\ worker' # "idle")
    BY <2>1 DEF FinishDirectDelivery
  <2> QED
    BY <2>1, <2>2, AnswerKept
<1> QED
  BY <1>1, <1>2, <1>3, <1>4, <1>5, <1>6, <1>7, <1>8 DEF Next

---------------------------------------------------------------------------
(* Steps.  The lemmas state a step of the lifecycle in terms of phaseOf.   *)

\* What a message that is not touched looks like afterwards.
Same(m) == /\ status'[m] = status[m]
           /\ entry'[m] \in Live <=> entry[m] \in Live
           /\ entry'[m] = "failed" <=> entry[m] = "failed"

LEMMA SamePhase ==
  ASSUME NEW m, Same(m)
  PROVE  phaseOf(m)' = phaseOf(m)
BY DEF Same, phaseOf

\* Only m moves.
LEMMA OneMoves ==
  ASSUME NEW m \in Messages, \A k \in Messages \ {m} : Same(k),
         NEW from, phaseOf(m) \in from
  PROVE  Lifecycle!Move(m, from, phaseOf(m)')
<1>1. \A k \in Messages \ {m} : phaseOf(k)' = phaseOf(k)
  BY SamePhase
<1> QED
  BY <1>1 DEF Lifecycle!Move

LEMMA NoneMoves ==
  ASSUME \A k \in Messages : Same(k)
  PROVE  [k \in Messages |-> phaseOf(k)]' = [k \in Messages |-> phaseOf(k)]
<1>1. \A k \in Messages : phaseOf(k)' = phaseOf(k)
  BY SamePhase
<1> QED
  BY <1>1

\* The loop takes up a message that is queued by then.
LEMMA ServePicksUp ==
  ASSUME DbOK', NEW p, NEW t, ServeNext(p, t) \/ Rest(p)
  PROVE  Lifecycle!PickUp
<1>1. CASE job' = NoMsg
  BY <1>1 DEF Lifecycle!PickUp
<1>2. CASE job' # NoMsg
  <2>1. PICK m \in Oldest(due', before') : Take(m, p)
    BY <1>2 DEF ServeNext, Rest
  <2>2. job' = m /\ m \in Messages /\ entry'[m] \in Live
    BY <2>1 DEF Take, Oldest, DbOK, LedgerAgrees
  <2>3. phaseOf(m)' = "queued"
    BY <2>2 DEF phaseOf, Live
  <2> QED
    BY <2>2, <2>3 DEF Lifecycle!PickUp
<1> QED
  BY <1>1, <1>2

LEMMA KickPicksUp ==
  ASSUME DbOK', WorkerOK, NEW t, ProcessOutboundQueue(t)
  PROVE  Lifecycle!KeepOrPickUp
<1>1. CASE worker = "idle"
  <2>1. job = NoMsg /\ Lifecycle!PickUp
    BY <1>1, ServePicksUp DEF ProcessOutboundQueue, WorkerOK
  <2> QED
    BY <2>1 DEF Lifecycle!KeepOrPickUp
<1>2. CASE worker # "idle"
  <2>1. job \in Messages /\ job' = job
    BY <1>2 DEF ProcessOutboundQueue, WorkerOK, JobOK
  <2> QED
    BY <2>1, OutboundAssumption DEF Lifecycle!KeepOrPickUp
<1> QED
  BY <1>1, <1>2

LEMMA InvisibleMaps ==
  ASSUME \A k \in Messages : Same(k), job' = job
  PROVE  UNCHANGED Lifecycle!vars
BY NoneMoves DEF Lifecycle!vars

LEMMA TurnMaps ==
  ASSUME \A k \in Messages : Same(k), Lifecycle!PickUp
  PROVE  Lifecycle!Next
BY NoneMoves DEF Lifecycle!Next, Lifecycle!Turn

LEMMA EnqueueMaps ==
  ASSUME IInv, IInv', NEW m \in Messages, EnqueueOutboundMessage(m)
  PROVE  Lifecycle!Next
<1>1. /\ status[m] = "none" /\ entry[m] = "none"
      /\ entry' = [entry EXCEPT ![m] = "pending"] /\ status' = [status EXCEPT ![m] = "pending"]
  BY DEF EnqueueOutboundMessage, IInv, DbOK
<1>2. phaseOf(m) = "new" /\ phaseOf(m)' = "queued" /\ \A k \in Messages \ {m} : Same(k)
  BY <1>1 DEF IInv, DbOK, phaseOf, Live, Same
<1>3. Lifecycle!KeepOrPickUp
  BY KickPicksUp DEF EnqueueOutboundMessage, KickOutbound, IInv
<1>4. Lifecycle!Move(m, {"new"}, "queued")
  BY <1>2, OneMoves
<1> QED
  BY <1>3, <1>4 DEF Lifecycle!Next, Lifecycle!Submit

LEMMA RetryMaps ==
  ASSUME IInv, IInv', NEW m \in Messages, RetryOutbound(m)
  PROVE  Lifecycle!Next
<1>1. /\ entry[m] = "failed"
      /\ entry' = [entry EXCEPT ![m] = "pending"] /\ status' = [status EXCEPT ![m] = "pending"]
  BY DEF RetryOutbound
<1>2. phaseOf(m) = "failed" /\ phaseOf(m)' = "queued" /\ \A k \in Messages \ {m} : Same(k)
  BY <1>1 DEF IInv, DbOK, phaseOf, Live, Same
<1>3. Lifecycle!KeepOrPickUp
  BY KickPicksUp DEF RetryOutbound, KickOutbound, IInv
<1>4. Lifecycle!Move(m, {"failed"}, "queued")
  BY <1>2, OneMoves
<1> QED
  BY <1>3, <1>4 DEF Lifecycle!Next, Lifecycle!Rearm

LEMMA CancelMaps ==
  ASSUME IInv, NEW m \in Messages, CancelOutbound(m)
  PROVE  Lifecycle!Next
<1>1. /\ entry[m] # "none" /\ job' = job
      /\ entry' = [entry EXCEPT ![m] = "none"] /\ status' = [status EXCEPT ![m] = "failed"]
  BY DEF CancelOutbound, RemoveOutbound, workerVars
<1>2. /\ phaseOf(m) \in {"queued", "failed"} /\ phaseOf(m)' = "dropped"
      /\ \A k \in Messages \ {m} : Same(k)
  BY <1>1 DEF IInv, DbOK, phaseOf, Live, Same
<1>3. Lifecycle!Move(m, {"queued", "failed"}, "dropped")
  BY <1>2, OneMoves
<1> QED
  BY <1>1, <1>3 DEF Lifecycle!Next, Lifecycle!Drop

\* The worker found its entry queued, and the user may have dropped it since.
LEMMA JobPhase ==
  ASSUME IInv, AnswerOK, worker # "idle"
  PROVE  /\ job \in Messages /\ phaseOf(job) \in {"queued", "dropped"}
         /\ phaseOf(job) = "dropped" <=> entry[job] = "none"
         /\ entry[job] = "none" => status[job] = "failed"
<1>1. job \in Messages \ handed /\ status[job] # "none"
      /\ (entry[job] # "none" => entry[job] \in Live)
  BY DEF IInv, WorkerOK, JobOK, Live
<1>2. entry[job] = "none" => status[job] = "failed"
  BY <1>1 DEF IInv, DbOK, NothingLost, AnswerOK, Live
<1> QED
  BY <1>1, <1>2 DEF phaseOf, Live

\* The steps below name the job: job itself is another one after the step.
LEMMA SucceedsMaps ==
  ASSUME IInv, IInv', AnswerOK, SendSucceeds
  PROVE  Lifecycle!Next
<1>0. worker # "idle"
  BY DEF SendSucceeds
<1>1. PICK j \in Messages : j = job
  BY <1>0, JobPhase
<1>2. /\ entry' = [entry EXCEPT ![j] = "none"]
      /\ \E s \in {"sent", "delivered"} : status' = [status EXCEPT ![j] = s] \/ status' = status
  BY <1>1 DEF SendSucceeds, RemoveOutbound
<1>3. Lifecycle!PickUp
  BY ServePicksUp DEF SendSucceeds, IInv
<1>4. \A k \in Messages \ {j} : Same(k)
  BY <1>2 DEF IInv, DbOK, Same
<1>5. entry'[j] = "none" /\ status'[j] \in {status[j], "sent", "delivered"}
  BY <1>2 DEF IInv, DbOK
<1>6. /\ phaseOf(j) \in {"queued", "dropped"} /\ status[j] # "none"
      /\ entry[j] # "none" => entry[j] \in Live
  BY <1>0, <1>1, JobPhase DEF IInv, WorkerOK, JobOK, Live
<1>7. CASE status'[j] \in {"pending", "sent", "delivered"}
  <2>1. phaseOf(j)' \in {"sent", "delivered"}
    BY <1>5, <1>7 DEF phaseOf, Live
  <2>2. Lifecycle!Move(j, {"queued", "dropped"}, phaseOf(j)')
    BY <1>4, <1>6, OneMoves
  <2> QED
    BY <1>1, <1>3, <2>1, <2>2 DEF Lifecycle!Next, Lifecycle!HandOver
<1>8. CASE status'[j] \notin {"pending", "sent", "delivered"}
  <2>1. status'[j] = status[j] /\ entry[j] = "none"
    BY <1>5, <1>6, <1>8 DEF IInv, DbOK, LedgerAgrees
  <2>2. \A k \in Messages : Same(k)
    BY <1>4, <1>5, <2>1 DEF Same, Live
  <2> QED
    BY <1>3, <2>2, TurnMaps
<1> QED
  BY <1>7, <1>8

LEMMA FailsMaps ==
  ASSUME IInv, IInv', AnswerOK, SendFails
  PROVE  Lifecycle!Next
<1>0. worker # "idle"
  BY DEF SendFails
<1>1. PICK j \in Messages : j = job
  BY <1>0, JobPhase
<1>2. Lifecycle!PickUp
  BY ServePicksUp DEF SendFails, IInv
<1>3. CASE linkState \notin Active
  <2>1. \A k \in Messages : Same(k)
    BY <1>3 DEF SendFails, dbVars, Same
  <2> QED
    BY <1>2, <2>1, TurnMaps
<1>4. CASE linkState \in Active
  <2>1. /\ \/ /\ status' = [status EXCEPT ![j] = "failed"]
              /\ entry' = [entry EXCEPT ![j] = IF @ = "none" THEN "none" ELSE "failed"]
           \/ /\ status' = status
              /\ entry' = [entry EXCEPT ![j] = IF @ = "none" THEN "none" ELSE "retrying"]
    BY <1>1, <1>4 DEF SendFails, RecordOutboundFailure
  <2>2. \A k \in Messages \ {j} : Same(k)
    BY <2>1 DEF IInv, DbOK, Same
  <2>3. CASE entry[j] = "none"
    <3>1. status[j] = "failed"
      BY <1>0, <1>1, <2>3, JobPhase
    <3>2. entry'[j] = "none" /\ status'[j] = "failed"
      BY <2>1, <2>3, <3>1 DEF IInv, DbOK
    <3>3. \A k \in Messages : Same(k)
      BY <2>2, <2>3, <3>1, <3>2 DEF Same, Live
    <3> QED
      BY <1>2, <3>3, TurnMaps
  <2>4. CASE entry[j] # "none"
    <3>1. phaseOf(j) = "queued"
      BY <1>0, <1>1, <2>4, JobPhase
    <3>2. entry'[j] \in {"failed", "retrying"}
      BY <2>1, <2>4 DEF IInv, DbOK
    <3>3. phaseOf(j)' \in {"queued", "failed"}
      BY <3>2 DEF phaseOf, Live
    <3>4. Lifecycle!Move(j, {"queued"}, phaseOf(j)')
      BY <2>2, <3>1, OneMoves
    <3> QED
      BY <1>1, <1>2, <3>3, <3>4 DEF Lifecycle!Next, Lifecycle!Refuse
  <2> QED
    BY <2>3, <2>4
<1> QED
  BY <1>3, <1>4

LEMMA ConfirmedMaps ==
  ASSUME IInv, AnswerOK, NEW m \in Direct, SendConfirmed(m)
  PROVE  Lifecycle!Next \/ UNCHANGED Lifecycle!vars
<1>1. entry' = entry /\ job' = job
  BY DEF SendConfirmed
<1>2. CASE status' = status
  <2>1. \A k \in Messages : Same(k)
    BY <1>1, <1>2 DEF Same
  <2> QED
    BY <1>1, <2>1, InvisibleMaps
<1>3. CASE /\ pending # NoMsg /\ ~(worker = "sending" /\ pending = job)
           /\ status' = [status EXCEPT ![pending] = "delivered"]
  <2>1. PICK p \in Messages : p = pending /\ p \in handed
    BY <1>3 DEF IInv, WorkerOK, DbOK
  <2>2. status[p] = "sent" /\ entry[p] = "none" /\ status' = [status EXCEPT ![p] = "delivered"]
    BY <1>3, <2>1 DEF IInv, DbOK, HandedLeft, AnswerOK
  <2>3. entry'[p] = "none" /\ status'[p] = "delivered"
    BY <1>1, <2>2 DEF IInv, DbOK
  <2>4. phaseOf(p) = "sent" /\ phaseOf(p)' = "delivered"
    BY <2>2, <2>3 DEF phaseOf, Live
  <2>5. \A k \in Messages \ {p} : Same(k)
    BY <1>1, <2>2 DEF Same, IInv, DbOK
  <2>6. Lifecycle!Move(p, {"sent"}, phaseOf(p)')
    BY <2>4, <2>5, OneMoves
  <2> QED
    BY <1>1, <2>4, <2>6 DEF Lifecycle!Next, Lifecycle!Confirm
<1> QED
  BY <1>2, <1>3, Zenon DEF SendConfirmed

\* The worker begins nothing, or begins its loop over an unchanged table.
LEMMA KickMaps ==
  ASSUME IInv, IInv', UNCHANGED dbVars, NEW t, ProcessOutboundQueue(t)
  PROVE  Lifecycle!Next \/ UNCHANGED Lifecycle!vars
<1>1. \A k \in Messages : Same(k)
  BY DEF dbVars, Same
<1>2. CASE worker = "idle"
  <2>1. Lifecycle!PickUp
    BY <1>2, ServePicksUp DEF ProcessOutboundQueue, IInv
  <2> QED
    BY <1>1, <2>1, TurnMaps
<1>3. CASE worker # "idle"
  BY <1>1, <1>3, InvisibleMaps DEF ProcessOutboundQueue
<1> QED
  BY <1>2, <1>3

LEMMA StepMaps ==
  IInv /\ IInv' /\ AnswerOK /\ [Next]_vars => [Lifecycle!Next]_(Lifecycle!vars)
<1> SUFFICES ASSUME IInv, IInv', AnswerOK, [Next]_vars
             PROVE  Lifecycle!Next \/ UNCHANGED Lifecycle!vars
  OBVIOUS
<1>1. ASSUME NEW m \in Messages, EnqueueOutboundMessage(m) \/ RetryOutbound(m) \/ CancelOutbound(m)
      PROVE  Lifecycle!Next
  BY <1>1, EnqueueMaps, RetryMaps, CancelMaps
<1>2. ASSUME NEW m \in Direct, SendConfirmed(m)
      PROVE  Lifecycle!Next \/ UNCHANGED Lifecycle!vars
  BY <1>2, ConfirmedMaps
<1>3. CASE SendSucceeds \/ SendFails
  BY <1>3, SucceedsMaps, FailsMaps
<1>4. CASE OutboundTimerFires \/ LinkConnected
  BY <1>4, KickMaps DEF OutboundTimerFires, LinkConnected, KickOutbound
<1>5. CASE \/ \E m \in Messages : BackoffElapses(m)
           \/ RadioAirs \/ AckTimeout \/ LinkSyncs \/ LinkDrops \/ Release \/ CloseDone \/ Claim
           \/ UNCHANGED vars
  <2>1. status' = status /\ entry' = entry /\ job' = job
    BY <1>5 DEF BackoffElapses, RadioAirs, AckTimeout, LinkSyncs, LinkDrops, Release, Teardown, CloseDone,
                Claim, vars, dbVars, workerVars
  <2>2. \A k \in Messages : Same(k)
    BY <2>1 DEF Same
  <2> QED
    BY <2>1, <2>2, InvisibleMaps
<1>6. CASE Restart
  <2>1. (\A k \in Messages : Same(k)) /\ Lifecycle!PickUp
    BY <1>6 DEF Restart, dbVars, Same, Lifecycle!PickUp
  <2> QED
    BY <2>1, TurnMaps
<1> QED
  BY <1>1, <1>2, <1>3, <1>4, <1>5, <1>6 DEF Next

LEMMA InitMaps == Init => Lifecycle!Init
<1> SUFFICES ASSUME Init PROVE Lifecycle!Init
  OBVIOUS
<1>1. \A m \in Messages : phaseOf(m) = "new"
  BY DEF Init, phaseOf, Live
<1> QED
  BY <1>1 DEF Init, Lifecycle!Init

---------------------------------------------------------------------------

\* Whatever drops, restarts, retries, cancels and acknowledgements do, the life of
\* every message is one MessageLifecycle allows: queued until the radio takes it,
\* confirmed at most once, and never sent again after the user dropped it, unless
\* the worker held it at that moment.
THEOREM Implements == Spec => ImplementsLifecycle
<1>1. Init => AnswerOK
  BY DEF Init, AnswerOK
<1> QED
  BY Invariant, <1>1, StepAnswer, InitMaps, StepMaps, PTL DEF Spec, ImplementsLifecycle, Lifecycle!Spec
=============================================================================
