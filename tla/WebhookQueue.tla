---------------------------- MODULE WebhookQueue ----------------------------
(***************************************************************************)
(* The durable webhook queue: subscriptions, their signing keys and the    *)
(* delivery rows of store.ts, the worker that drains them (worker.ts) and  *)
(* the routes that manage subscriptions (routes.ts).                       *)
(*                                                                         *)
(* Time is relative: every timestamp is kept as its distance from now, and *)
(* stops moving where no comparison of the code can tell it apart.  Tick   *)
(* moves them all.  A row that has reached a final state keeps only what   *)
(* is still read of it; the deletion of rows and keys after 30 days is     *)
(* beyond the horizon of this module.                                      *)
(***************************************************************************)
EXTENDS Integers, FiniteSets

CONSTANTS
  Subs,         \* subscriptions
  Numbers,      \* how many deliveries each may see, as 1..n (a bound)
  KeyNumbers,   \* how many signing keys each may see, as 1..k (a bound)
  MaxAttempts,  \* MAX_ATTEMPTS
  Window,       \* 24 hours: MAX_AGE_SECONDS and the retirement of a key
  Lease,        \* 30 seconds: the lease of a claim
  MaxBackoff,   \* the longest delay a retry or a Retry-After can ask for
  RateWindow, RateLimit,  \* 60 seconds, 100 deliveries of one subscription
  QueueLimit,   \* 10,000 rows queued or leased
  Capacity,     \* 10 leases at once
  Batch,        \* 100 rows expired by one drain
  Burst,        \* failureBurst
  MaxActive,    \* 20 active subscriptions
  MaxRestarts   \* a bound

ASSUME WebhookAssumption ==
  /\ \A n \in {MaxAttempts, Window, Lease, MaxBackoff, RateWindow, RateLimit,
               QueueLimit, Capacity, Batch, Burst, MaxActive} : n \in Nat \ {0}
  /\ RateWindow <= Window /\ MaxRestarts \in Nat
  /\ Numbers \subseteq Nat \ {0} /\ KeyNumbers \subseteq Nat \ {0} /\ 1 \in KeyNumbers
  /\ IsFiniteSet(Subs) /\ IsFiniteSet(Numbers)

VARIABLES
  sub,      \* webhook_subscriptions.state; "none" before, "deleted" afterwards
  streak,   \* consecutive_failures
  key,      \* active_key_id
  keyLeft,  \* how long each key may still sign; Window + 1 while not retired
  row,      \* webhook_deliveries
  job,      \* the delivery in progress for each subscription, or 0
  signs,    \* whether its key could sign when the delivery began
  old,      \* whether its first attempt was a Window ago when it began
  restarts

subVars == <<sub, streak, key, keyLeft>>
jobVars == <<job, signs, old>>
vars    == <<subVars, row, jobVars, restarts>>

Rows  == Subs \X Numbers
Final == {"delivered", "failed", "dropped", "refused"}

\* due: how long until next_attempt_at; lease: how long until lease_expires_at;
\* age: since created_at; first: since first_attempt_at, -1 before it.
Absent == [state |-> "none", age |-> 0, due |-> 0, lease |-> 0, attempts |-> 0, first |-> -1, key |-> 0]

Done(r, s) == [Absent EXCEPT !.state = s, !.age = r.age, !.attempts = r.attempts]

TypeOK ==
  /\ sub \in [Subs -> {"none", "active", "paused", "disabled", "deleted"}]
  /\ streak \in [Subs -> 0..Burst]
  /\ key \in [Subs -> KeyNumbers]
  /\ keyLeft \in [Subs \X KeyNumbers -> 0..(Window + 1)]
  /\ row \in [Rows -> [state : Final \cup {"none", "queued", "leased"}, age : 0..(Window + 1),
                       due : -(Window + 1)..MaxBackoff, lease : 0..Lease,
                       attempts : Nat, first : -1..Window,
                       key : KeyNumbers \cup {0}]]
  /\ job \in [Subs -> Numbers \cup {0}]
  /\ signs \in [Subs -> BOOLEAN] /\ old \in [Subs -> BOOLEAN]
  /\ restarts \in 0..MaxRestarts

Init ==
  /\ sub = [s \in Subs |-> "none"] /\ streak = [s \in Subs |-> 0]
  /\ key = [s \in Subs |-> 1] /\ keyLeft = [k \in Subs \X KeyNumbers |-> Window + 1]
  /\ row = [r \in Rows |-> Absent]
  /\ job = [s \in Subs |-> 0]
  /\ signs = [s \in Subs |-> FALSE] /\ old = [s \in Subs |-> FALSE]
  /\ restarts = 0

In(states)  == {r \in Rows : row[r].state \in states}
Of(s)       == {s} \X Numbers
ActiveSubs  == {s \in Subs : sub[s] = "active"}

---------------------------------------------------------------------------
(* The management routes.                                                  *)

CreateSubscription(s) ==
  /\ sub[s] = "none" /\ Cardinality(ActiveSubs) < MaxActive
  /\ sub' = [sub EXCEPT ![s] = "active"]
  /\ UNCHANGED <<streak, key, keyLeft, row, jobVars, restarts>>

\* PATCH: any state may be asked for; resuming clears the streak.
PatchState(s, state) ==
  /\ sub[s] \in {"active", "paused", "disabled"} /\ state # sub[s]
  /\ sub' = [sub EXCEPT ![s] = state]
  /\ streak' = IF state = "active" THEN [streak EXCEPT ![s] = 0] ELSE streak
  /\ UNCHANGED <<key, keyLeft, row, jobVars, restarts>>

\* The rows and the keys of the subscription go with it.
DeleteSubscription(s) ==
  /\ sub[s] \in {"active", "paused", "disabled"}
  /\ sub' = [sub EXCEPT ![s] = "deleted"]
  /\ row' = [r \in Rows |-> IF r[1] = s THEN Absent ELSE row[r]]
  /\ keyLeft' = [k \in Subs \X KeyNumbers |-> IF k[1] = s THEN 0 ELSE keyLeft[k]]
  /\ UNCHANGED <<streak, key, jobVars, restarts>>

RotateSecret(s) ==
  /\ sub[s] \in {"active", "paused", "disabled"} /\ key[s] + 1 \in KeyNumbers
  /\ key' = [key EXCEPT ![s] = @ + 1]
  /\ keyLeft' = [keyLeft EXCEPT ![<<s, key[s]>>] = Window]
  /\ UNCHANGED <<sub, streak, row, jobVars, restarts>>

---------------------------------------------------------------------------
(* An event, or a test, is queued for one of the subscriptions it matches. *)

\* The rows of s that count towards its rate, whatever became of them.
Recent(s) == {r \in Of(s) : row[r].state # "none" /\ row[r].age <= RateWindow}

\* Faulty variant: one row over the limit.
OverLimitByOne(s) ==
  \/ Cardinality(In({"queued", "leased"})) > QueueLimit
  \/ Cardinality(Recent(s)) >= RateLimit

OverLimit(s) ==
  \/ Cardinality(In({"queued", "leased"})) >= QueueLimit
  \/ Cardinality(Recent(s)) >= RateLimit

QueueWebhookEvent(s, n) ==
  /\ sub[s] = "active"
  /\ \A i \in Numbers : row[<<s, i>>].state = "none" <=> i >= n
  /\ row' = [row EXCEPT ![<<s, n>>] =
               [Absent EXCEPT !.state = IF OverLimit(s) THEN "refused" ELSE "queued",
                              !.key = IF OverLimit(s) THEN 0 ELSE key[s]]]
  /\ UNCHANGED <<subVars, jobVars, restarts>>

---------------------------------------------------------------------------
(* One turn of the worker: expire, requeue what a dead worker left behind, *)
(* claim, and begin every claimed delivery.  It ends with the last of them,*)
(* and until then no other turn begins.                                    *)

Running == \E s \in Subs : job[s] # 0

Older(r, q) == row[r].age > row[q].age

\* The rows one sweep terminates: the oldest of those past the window.
Expired(E) ==
  LET stale == {r \in In({"queued"}) : row[r].age > Window} IN
  /\ E \subseteq stale
  /\ Cardinality(E) = IF Cardinality(stale) <= Batch THEN Cardinality(stale) ELSE Batch
  /\ \A r \in E, q \in stale \ E : ~Older(q, r)

\* Faulty variant: leases never expire.
SweptOnly(E) == [r \in Rows |-> IF r \in E THEN Done(row[r], "failed") ELSE row[r]]

\* After the sweep, and with the expired leases back in the queue.
Swept(E) ==
  [r \in Rows |->
     IF r \in E THEN Done(row[r], "failed")
     ELSE IF row[r].state = "leased" /\ row[r].lease = 0 THEN [row[r] EXCEPT !.state = "queued"]
     ELSE row[r]]

Before(w, r, q) == w[r].due < w[q].due \/ (w[r].due = w[q].due /\ r[2] < q[2])

\* Faulty variant: a subscription may have several requests open.
FirstDueOfAny(w, s) ==
  LET due == {r \in Of(s) : w[r].state = "queued" /\ w[r].due <= 0} IN
  IF sub[s] # "active" THEN {} ELSE {r \in due : \A q \in due \ {r} : Before(w, r, q)}

\* The row that is first in line for s, if s may have one.
FirstDue(w, s) ==
  LET due == {r \in Of(s) : w[r].state = "queued" /\ w[r].due <= 0} IN
  IF sub[s] # "active" \/ \E r \in Of(s) : w[r].state = "leased" THEN {}
  ELSE {r \in due : \A q \in due \ {r} : Before(w, r, q)}

Claimable(w) == {s \in Subs : FirstDue(w, s) # {}}

\* Faulty variant: leases that are still out are not counted.
ClaimFull(w, C) ==
  /\ C \subseteq Claimable(w)
  /\ Cardinality(C) = IF Cardinality(Claimable(w)) <= Capacity
                      THEN Cardinality(Claimable(w)) ELSE Capacity

\* C is the set of subscriptions whose first row is claimed.
ClaimDue(w, C) ==
  LET left == Capacity - Cardinality({r \in Rows : w[r].state = "leased"})
      room == IF left < 0 THEN 0 ELSE left
  IN  /\ C \subseteq Claimable(w)
      /\ Cardinality(C) = IF Cardinality(Claimable(w)) <= room
                          THEN Cardinality(Claimable(w)) ELSE room

Leased(r) == [r EXCEPT !.state = "leased", !.lease = Lease, !.attempts = @ + 1,
                       !.first = IF @ = -1 THEN 0 ELSE @]

Drain ==
  /\ ~Running
  /\ \E E \in SUBSET Rows : Expired(E) /\
     LET w == Swept(E) IN
     \E C \in SUBSET Subs :
       /\ ClaimDue(w, C)
       /\ row' = [r \in Rows |-> IF r[1] \in C /\ r \in FirstDue(w, r[1]) THEN Leased(w[r]) ELSE w[r]]
       /\ job' = [s \in Subs |-> IF s \in C THEN (CHOOSE r \in FirstDue(w, s) : TRUE)[2] ELSE 0]
       /\ signs' = [s \in Subs |-> s \in C /\ keyLeft[<<s, row[<<s, job'[s]>>].key>>] > 0]
       /\ old' = [s \in Subs |-> s \in C /\ row[<<s, job'[s]>>].first = Window]
  /\ UNCHANGED <<subVars, restarts>>

---------------------------------------------------------------------------
(* How a delivery ends.  Every write is conditional on the row still being *)
(* leased: the subscription may have been deleted meanwhile.               *)

Ends(s) ==
  /\ job' = [job EXCEPT ![s] = 0]
  /\ signs' = [signs EXCEPT ![s] = FALSE] /\ old' = [old EXCEPT ![s] = FALSE]
  /\ UNCHANGED <<key, keyLeft, restarts>>

Current(s) == <<s, job[s]>>
Holds(s)   == row[Current(s)].state = "leased"

Delivered(s) ==
  /\ job[s] # 0 /\ signs[s]
  /\ Ends(s) /\ UNCHANGED sub
  /\ IF Holds(s)
     THEN /\ row' = [row EXCEPT ![Current(s)] = Done(@, "delivered")]
          /\ streak' = [streak EXCEPT ![s] = 0]
     ELSE UNCHANGED <<row, streak>>

\* Faulty variant: the backlog stays queued.
DisableOnly(s) ==
  /\ job[s] # 0
  /\ Ends(s) /\ UNCHANGED streak
  /\ IF Holds(s)
     THEN /\ sub' = [sub EXCEPT ![s] = "disabled"]
          /\ row' = [row EXCEPT ![Current(s)] = Done(@, "failed")]
     ELSE UNCHANGED <<sub, row>>

\* Nothing about the subscription can work: disable it and drop its backlog.
PermanentFailure(s) ==
  /\ job[s] # 0
  /\ Ends(s) /\ UNCHANGED streak
  /\ IF Holds(s)
     THEN /\ sub' = [sub EXCEPT ![s] = "disabled"]
          /\ row' = [r \in Rows |->
                       IF r = Current(s) THEN Done(row[r], "failed")
                       ELSE IF r[1] = s /\ row[r].state \in {"queued", "leased"} THEN Done(row[r], "dropped")
                       ELSE row[r]]
     ELSE UNCHANGED <<sub, row>>

\* The receiver refused it for good, or its attempts or its time are used up.
TerminalFailure(s) ==
  /\ Ends(s)
  /\ IF Holds(s)
     THEN /\ row' = [row EXCEPT ![Current(s)] = Done(@, "failed")]
          /\ IF sub[s] = "active"
             THEN /\ streak' = [streak EXCEPT ![s] = @ + 1]
                  /\ sub' = IF streak[s] + 1 >= Burst THEN [sub EXCEPT ![s] = "paused"] ELSE sub
             ELSE UNCHANGED <<sub, streak>>
     ELSE UNCHANGED <<sub, row, streak>>

\* Faulty variant: one attempt too many.
ExhaustedOffByOne(s) == row[Current(s)].attempts > MaxAttempts \/ old[s]

Exhausted(s) == row[Current(s)].attempts >= MaxAttempts \/ old[s]

\* The receiver answered with a status that is not retried.
Rejected(s) == job[s] # 0 /\ signs[s] /\ TerminalFailure(s)

\* A timeout, a network failure, a 5xx, a 429: delay is the backoff or Retry-After.
RetryableFailure(s, delay) ==
  /\ job[s] # 0
  /\ IF Holds(s) /\ Exhausted(s)
     THEN TerminalFailure(s)
     ELSE /\ Ends(s) /\ UNCHANGED <<sub, streak>>
          /\ row' = IF Holds(s)
                    THEN [row EXCEPT ![Current(s)] = [@ EXCEPT !.state = "queued", !.due = delay, !.lease = 0]]
                    ELSE row

---------------------------------------------------------------------------

Older1(n, cap) == IF n >= cap THEN cap ELSE n + 1

Tick ==
  /\ row' = [r \in Rows |->
       IF row[r].state = "none" THEN row[r]
       ELSE [row[r] EXCEPT
               !.age   = Older1(@, Window + 1),
               !.due   = IF row[r].state \in Final \/ @ = -(Window + 1) THEN @ ELSE @ - 1,
               !.lease = IF @ = 0 THEN 0 ELSE @ - 1,
               !.first = IF @ = -1 THEN -1 ELSE Older1(@, Window)]]
  /\ keyLeft' = [k \in Subs \X KeyNumbers |-> IF keyLeft[k] \in 1..Window THEN keyLeft[k] - 1 ELSE keyLeft[k]]
  /\ UNCHANGED <<sub, streak, key, jobVars, restarts>>

\* The process dies; what it was delivering stays leased.
Restart ==
  /\ restarts < MaxRestarts /\ restarts' = restarts + 1
  /\ job' = [s \in Subs |-> 0]
  /\ signs' = [s \in Subs |-> FALSE] /\ old' = [s \in Subs |-> FALSE]
  /\ UNCHANGED <<subVars, row>>

Outcome(s) ==
  \/ Delivered(s) \/ PermanentFailure(s) \/ Rejected(s)
  \/ \E delay \in 0..MaxBackoff : RetryableFailure(s, delay)

Next ==
  \/ \E s \in Subs :
       \/ CreateSubscription(s) \/ DeleteSubscription(s) \/ RotateSecret(s)
       \/ \E state \in {"active", "paused"} : PatchState(s, state)
       \/ \E n \in Numbers : QueueWebhookEvent(s, n)
       \/ Outcome(s)
  \/ Drain \/ Tick \/ Restart

Spec == Init /\ [][Next]_vars

\* The timer calls drain, a request ends (it has a timeout) and time passes.
FairSpec == Spec /\ WF_vars(Drain) /\ WF_vars(Tick) /\ \A s \in Subs : WF_vars(Outcome(s))

---------------------------------------------------------------------------
(* Properties.                                                             *)

\* At most one request of a subscription is open, and nobody else moves a row
\* while it is being delivered - over restarts, which leave leases behind,
\* pauses and resumes.
LeasesExclusive ==
  /\ \A s \in Subs : \A r, q \in Of(s) : row[r].state = "leased" /\ row[q].state = "leased" => r = q
  /\ \A s \in Subs : job[s] # 0 /\ sub[s] # "deleted" => Holds(s)

\* At most Capacity leases are out, those a dead worker left behind included.
CapacityKept == Cardinality(In({"leased"})) <= Capacity

\* A disabled or deleted subscription has nothing that could still be sent.
DisabledHasNoBacklog ==
  \A s \in Subs : sub[s] \in {"disabled", "deleted"} =>
    \A r \in Of(s) : row[r].state \notin {"queued", "leased"}

\* An active subscription is always short of the burst that pauses it, however
\* failures, pauses and resumes overlap with deliveries in progress.
StreakBelowBurst == \A s \in Subs : sub[s] = "active" => streak[s] < Burst

\* A delivery is attempted MaxAttempts times, and once more for each time the
\* process died in the middle of an attempt.
AttemptsBoundedByCrashes == \A r \in Rows : row[r].attempts <= MaxAttempts + restarts

\* The queue never holds more than QueueLimit rows that are not final.
QueueBounded == Cardinality(In({"queued", "leased"})) <= QueueLimit

\* Every delivery reaches a final state: no crash, pause or lost lease holds a
\* row in the queue for ever.
EveryDeliverySettles ==
  \A r \in Rows : (row[r].state \in {"queued", "leased"}) ~> (row[r].state \notin {"queued", "leased"})
===========================================================================
