---------------------------- MODULE WebhookProofs ----------------------------
(***************************************************************************)
(* Proofs about WebhookQueue, for any subscriptions, deliveries, keys and  *)
(* limits: first what holds of each row and each subscription, then the    *)
(* limits on whole sets of rows, which take the cardinality of those sets. *)
(***************************************************************************)
EXTENDS WebhookQueue, FiniteSetTheorems, TLAPS

States  == {"delivered", "failed", "dropped", "refused", "none", "queued", "leased"}
RowType == [state : States, age : 0..(Window + 1), due : -(Window + 1)..MaxBackoff, lease : 0..Lease,
            attempts : Nat, first : -1..Window, key : KeyNumbers \cup {0}]

\* Subscriptions, keys and deliveries in progress.
SubsOK ==
  /\ sub \in [Subs -> {"none", "active", "paused", "disabled", "deleted"}]
  /\ streak \in [Subs -> 0..Burst]
  /\ key \in [Subs -> KeyNumbers]
  /\ keyLeft \in [Subs \X KeyNumbers -> 0..(Window + 1)]
  /\ job \in [Subs -> Numbers \cup {0}]
  /\ restarts \in 0..MaxRestarts
  /\ StreakBelowBurst
  /\ \A s \in Subs : sub[s] = "none" => streak[s] = 0

FlagsOK == signs \in [Subs -> BOOLEAN] /\ old \in [Subs -> BOOLEAN]

\* A row may be claimed once more: it was not tried too often, or a crash is to blame.
MayTry(r) == row[r].attempts < MaxAttempts + restarts

RowsOK ==
  /\ row \in [Rows -> RowType]
  /\ DisabledHasNoBacklog /\ LeasesExclusive /\ AttemptsBoundedByCrashes
  /\ \A r \in Rows : row[r].state = "queued" => MayTry(r)
  /\ \A r \in Rows : row[r].state = "leased" /\ job[r[1]] # r[2] => MayTry(r)

IInv == SubsOK /\ FlagsOK /\ RowsOK

---------------------------------------------------------------------------

LEMMA InvariantImplies ==
  IInv => TypeOK /\ DisabledHasNoBacklog /\ StreakBelowBurst /\ AttemptsBoundedByCrashes /\ LeasesExclusive
<1>1. IInv => FlagsOK
  BY DEF IInv
<1>2. IInv => row \in [Rows -> [state : Final \cup {"none", "queued", "leased"}, age : 0..(Window + 1),
                       due : -(Window + 1)..MaxBackoff, lease : 0..Lease,
                       attempts : Nat, first : -1..Window,
                       key : KeyNumbers \cup {0}]]
  <2>1. States = Final \cup {"none", "queued", "leased"}
    BY DEF States, Final
  <2> QED
    BY <2>1 DEF IInv, RowsOK, RowType
<1> QED
  BY <1>1, <1>2, Zenon DEF IInv, SubsOK, FlagsOK, RowsOK, TypeOK

LEMMA Pairs ==
  /\ \A r \in Rows : r[1] \in Subs /\ r[2] \in Numbers /\ r = <<r[1], r[2]>> /\ r \in Of(r[1])
  /\ \A s \in Subs, n \in Numbers : <<s, n>> \in Rows
  /\ \A s \in Subs : \A r \in Of(s) : r \in Rows /\ r[1] = s
BY DEF Rows, Of

LEMMA Limits ==
  /\ MaxAttempts \in Nat \ {0} /\ Window \in Nat \ {0} /\ Lease \in Nat \ {0} /\ MaxBackoff \in Nat \ {0}
  /\ Burst \in Nat \ {0} /\ MaxRestarts \in Nat
  /\ Numbers \subseteq Nat \ {0} /\ KeyNumbers \subseteq Nat \ {0} /\ 1 \in KeyNumbers
BY WebhookAssumption

LEMMA AbsentOK == Absent \in RowType
BY Limits DEF Absent, RowType, States

LEMMA DoneOK ==
  ASSUME NEW r \in RowType, NEW s \in {"delivered", "failed", "dropped", "refused"}
  PROVE  Done(r, s) \in RowType /\ Done(r, s).state = s /\ Done(r, s).attempts = r.attempts
<1>1. ASSUME NEW x \in RowType
      PROVE  LET d == [x EXCEPT !.state = s, !.age = r.age, !.attempts = r.attempts]
             IN  d \in RowType /\ d.state = s /\ d.attempts = r.attempts
  BY DEF RowType, States
<1> QED
  BY <1>1, AbsentOK DEF Done

LEMMA InitInvariant == Init => IInv
<1> SUFFICES ASSUME Init PROVE IInv
  OBVIOUS
<1>1. SubsOK
  BY Limits DEF Init, SubsOK, StreakBelowBurst
<1>2. FlagsOK
  <2>1. [s \in Subs |-> FALSE] \in [Subs -> BOOLEAN]
    BY Zenon
  <2> QED
    BY <2>1, Zenon DEF Init, FlagsOK
<1>3. RowsOK
  <2>1. \A r \in Rows : row[r] = Absent
    BY DEF Init
  <2>2. Absent.state = "none" /\ Absent.attempts = 0
    BY DEF Absent
  <2>3. row \in [Rows -> RowType]
    BY AbsentOK DEF Init
  <2>4. \A s \in Subs : job[s] = 0
    BY DEF Init
  <2> QED
    BY <2>1, <2>2, <2>3, <2>4, Limits, Pairs
       DEF RowsOK, DisabledHasNoBacklog, LeasesExclusive, AttemptsBoundedByCrashes, SubsOK, Init
<1> QED
  BY <1>1, <1>2, <1>3 DEF IInv

---------------------------------------------------------------------------
(* The management routes.                                                  *)

\* A subscription that becomes active or paused leaves the rows as they are.
LEMMA StateMoves ==
  ASSUME IInv, NEW s \in Subs, sub[s] # "deleted", NEW to \in {sub[s], "active", "paused"},
         sub' = [sub EXCEPT ![s] = to], UNCHANGED <<row, jobVars, restarts>>
  PROVE  RowsOK' /\ FlagsOK'
<1>1. FlagsOK'
  BY DEF IInv, FlagsOK, jobVars
<1>2. \A x \in Subs : /\ sub'[x] \in {"disabled", "deleted"} => sub[x] = sub'[x]
                      /\ sub'[x] # "deleted" => sub[x] # "deleted"
  BY DEF IInv, SubsOK
<1>3. row' = row /\ job' = job /\ restarts' = restarts
  BY DEF jobVars
<1> QED
  BY <1>1, <1>2, <1>3 DEF IInv, RowsOK, DisabledHasNoBacklog, LeasesExclusive, AttemptsBoundedByCrashes,
       MayTry, Holds, Current

LEMMA CreateOK ==
  ASSUME IInv, NEW s \in Subs, CreateSubscription(s)
  PROVE  IInv'
<1>1. SubsOK'
  BY Limits DEF CreateSubscription, IInv, SubsOK, StreakBelowBurst, jobVars
<1> QED
  BY <1>1, StateMoves DEF CreateSubscription, IInv

LEMMA PatchOK ==
  ASSUME IInv, NEW s \in Subs, NEW state \in {"active", "paused"}, PatchState(s, state)
  PROVE  IInv'
<1>1. SubsOK'
  BY Limits DEF PatchState, IInv, SubsOK, StreakBelowBurst, jobVars
<1> QED
  BY <1>1, StateMoves DEF PatchState, IInv

LEMMA RotateOK ==
  ASSUME IInv, NEW s \in Subs, RotateSecret(s)
  PROVE  IInv'
<1>1. SubsOK'
  BY Limits DEF RotateSecret, IInv, SubsOK, StreakBelowBurst, jobVars
<1>2. sub' = [sub EXCEPT ![s] = sub[s]]
  BY DEF RotateSecret, IInv, SubsOK
<1> QED
  BY <1>1, <1>2, StateMoves DEF RotateSecret, IInv

LEMMA DeleteOK ==
  ASSUME IInv, NEW s \in Subs, DeleteSubscription(s)
  PROVE  IInv'
<1>1. SubsOK' /\ FlagsOK'
  BY Limits DEF DeleteSubscription, IInv, SubsOK, FlagsOK, StreakBelowBurst, jobVars
<1>2. /\ job' = job /\ restarts' = restarts
      /\ sub' = [sub EXCEPT ![s] = "deleted"]
      /\ row' = [r \in Rows |-> IF r[1] = s THEN Absent ELSE row[r]]
  BY DEF DeleteSubscription, jobVars
<1>3. row' \in [Rows -> RowType]
  BY <1>2, AbsentOK DEF IInv, RowsOK
<1>4. Absent.state = "none" /\ Absent.attempts = 0
  BY DEF Absent
<1>5. \A r \in Rows : r[1] = s => row'[r].state = "none" /\ row'[r].attempts = 0
  BY <1>2, <1>4
<1>6. \A r \in Rows : r[1] # s => row'[r] = row[r]
  BY <1>2
<1>7. sub'[s] = "deleted" /\ \A x \in Subs \ {s} : sub'[x] = sub[x]
  BY <1>2 DEF IInv, SubsOK
<1>8. DisabledHasNoBacklog' /\ AttemptsBoundedByCrashes'
  BY <1>2, <1>5, <1>6, <1>7, Pairs, Limits
     DEF IInv, SubsOK, RowsOK, DisabledHasNoBacklog, AttemptsBoundedByCrashes
<1>9. LeasesExclusive'
  <2>1. \A x \in Subs : \A r, q \in Of(x) : row'[r].state = "leased" /\ row'[q].state = "leased" => r = q
    BY <1>5, <1>6, Pairs DEF IInv, RowsOK, LeasesExclusive
  <2>2. ASSUME NEW x \in Subs, job[x] # 0, sub'[x] # "deleted" PROVE row'[<<x, job[x]>>].state = "leased"
    <3>1. x # s /\ sub[x] # "deleted" /\ <<x, job[x]>> \in Rows
      BY <1>7, <2>2, Pairs DEF IInv, SubsOK
    <3> QED
      BY <1>6, <2>2, <3>1 DEF IInv, RowsOK, LeasesExclusive, Holds, Current
  <2> QED
    BY <1>2, <2>1, <2>2 DEF LeasesExclusive, Holds, Current
<1> QED
  BY <1>1, <1>2, <1>3, <1>5, <1>6, <1>8, <1>9 DEF IInv, RowsOK, MayTry

LEMMA QueueOK ==
  ASSUME IInv, NEW s \in Subs, NEW n \in Numbers, QueueWebhookEvent(s, n)
  PROVE  IInv'
<1>1. SubsOK' /\ FlagsOK'
  BY DEF QueueWebhookEvent, IInv, SubsOK, FlagsOK, StreakBelowBurst, subVars, jobVars
<1>2. /\ job' = job /\ restarts' = restarts /\ sub' = sub /\ sub[s] = "active"
      /\ <<s, n>> \in Rows /\ row[<<s, n>>].state = "none"
  BY Limits, Pairs DEF QueueWebhookEvent, subVars, jobVars
<1>3. PICK q \in RowType : /\ q.state \in {"queued", "refused"} /\ q.attempts = 0
                          /\ row' = [row EXCEPT ![<<s, n>>] = q]
  <2>1. ASSUME NEW x \in RowType, x.attempts = 0, NEW a \in {"queued", "refused"}, NEW k \in KeyNumbers \cup {0}
        PROVE  LET d == [x EXCEPT !.state = a, !.key = k]
               IN  d \in RowType /\ d.state = a /\ d.attempts = 0
    BY <2>1 DEF RowType, States
  <2>2. Absent.attempts = 0
    BY DEF Absent
  <2>3. key[s] \in KeyNumbers
    BY DEF IInv, SubsOK
  <2>4. CASE OverLimit(s)
    BY <2>1, <2>2, <2>4, AbsentOK DEF QueueWebhookEvent
  <2>5. CASE ~OverLimit(s)
    BY <2>1, <2>2, <2>3, <2>5, AbsentOK DEF QueueWebhookEvent
  <2> QED
    BY <2>4, <2>5
<1>4. /\ row' \in [Rows -> RowType] /\ row'[<<s, n>>] = q
      /\ \A r \in Rows : r # <<s, n>> => row'[r] = row[r]
  BY <1>2, <1>3 DEF IInv, RowsOK
<1>5. DisabledHasNoBacklog' /\ AttemptsBoundedByCrashes'
  BY <1>2, <1>3, <1>4, Pairs, Limits
     DEF IInv, SubsOK, RowsOK, DisabledHasNoBacklog, AttemptsBoundedByCrashes
<1>6. LeasesExclusive'
  <2>1. \A x \in Subs : job[x] # 0 /\ sub[x] # "deleted" => <<x, job[x]>> \in Rows /\ <<x, job[x]>> # <<s, n>>
    BY <1>2, Pairs DEF IInv, SubsOK, RowsOK, LeasesExclusive, Holds, Current
  <2> QED
    BY <1>2, <1>3, <1>4, <2>1, Pairs DEF IInv, RowsOK, LeasesExclusive, Holds, Current
<1>7. 0 < MaxAttempts + restarts
  BY Limits DEF IInv, SubsOK
<1> QED
  BY <1>1, <1>2, <1>3, <1>4, <1>5, <1>6, <1>7 DEF IInv, RowsOK, MayTry

---------------------------------------------------------------------------
(* The end of a delivery.                                                  *)

LEMMA EndsFlags ==
  ASSUME IInv, NEW s \in Subs, Ends(s)
  PROVE  FlagsOK'
BY DEF IInv, FlagsOK, Ends

\* What an end leaves alone, and what the delivery was.
LEMMA EndsFacts ==
  ASSUME IInv, NEW s \in Subs, job[s] # 0, Ends(s)
  PROVE  /\ key' = key /\ keyLeft' = keyLeft /\ restarts' = restarts
         /\ job' \in [Subs -> Numbers \cup {0}] /\ job'[s] = 0
         /\ \A x \in Subs \ {s} : job'[x] = job[x]
         /\ Current(s) \in Rows /\ Current(s)[1] = s /\ Current(s)[2] = job[s] /\ Current(s) \in Of(s)
BY Pairs DEF IInv, SubsOK, Ends, Current

\* The row is gone: so is the subscription, with all of its rows.
LEMMA EndsForNothing ==
  ASSUME IInv, NEW s \in Subs, job[s] # 0, ~Holds(s), Ends(s), UNCHANGED <<sub, row>>
  PROVE  RowsOK'
<1>1. sub[s] = "deleted" /\ \A r \in Of(s) : row[r].state \notin {"queued", "leased"}
  BY DEF IInv, RowsOK, LeasesExclusive, DisabledHasNoBacklog
<1>2. DisabledHasNoBacklog' /\ AttemptsBoundedByCrashes'
  BY EndsFacts DEF IInv, RowsOK, DisabledHasNoBacklog, AttemptsBoundedByCrashes
<1>3. LeasesExclusive'
  BY EndsFacts DEF IInv, RowsOK, LeasesExclusive, Holds, Current
<1>4. \A r \in Rows : row[r].state = "leased" /\ job'[r[1]] # r[2] => MayTry(r)
  BY <1>1, EndsFacts, Pairs DEF IInv, RowsOK
<1> QED
  BY <1>2, <1>3, <1>4, EndsFacts DEF IInv, RowsOK, MayTry

\* Only the row of the delivery changes, and it is leased no more.
LEMMA EndsOneRow ==
  ASSUME IInv, NEW s \in Subs, job[s] # 0, Ends(s),
         NEW q \in RowType, row' = [row EXCEPT ![Current(s)] = q], q.state # "leased",
         q.attempts <= MaxAttempts + restarts,
         q.state = "queued" => /\ q.attempts < MaxAttempts + restarts
                               /\ sub'[s] \notin {"disabled", "deleted"},
         \A x \in Subs : /\ sub'[x] \in {"disabled", "deleted"} => sub'[x] = sub[x]
                         /\ sub'[x] # "deleted" => sub[x] # "deleted"
  PROVE  RowsOK'
<1> DEFINE c == Current(s)
<1>1. /\ row' \in [Rows -> RowType] /\ row'[c] = q
      /\ \A r \in Rows : r # c => row'[r] = row[r]
  BY EndsFacts DEF IInv, RowsOK
<1>2. DisabledHasNoBacklog' /\ AttemptsBoundedByCrashes'
  BY <1>1, EndsFacts, Pairs DEF IInv, RowsOK, DisabledHasNoBacklog, AttemptsBoundedByCrashes
<1>3. LeasesExclusive'
  <2>1. ASSUME NEW x \in Subs, job'[x] # 0, sub'[x] # "deleted" PROVE row'[<<x, job'[x]>>].state = "leased"
    <3>1. x # s /\ job'[x] = job[x] /\ sub[x] # "deleted"
      BY <2>1, EndsFacts
    <3>2. <<x, job[x]>> \in Rows /\ <<x, job[x]>> # c /\ row[<<x, job[x]>>].state = "leased"
      BY <2>1, <3>1, Pairs, EndsFacts DEF IInv, SubsOK, RowsOK, LeasesExclusive, Holds, Current
    <3> QED
      BY <1>1, <3>1, <3>2
  <2>2. \A x \in Subs : \A r, k \in Of(x) : row'[r].state = "leased" /\ row'[k].state = "leased" => r = k
    BY <1>1, Pairs DEF IInv, RowsOK, LeasesExclusive
  <2> QED
    BY <2>1, <2>2 DEF LeasesExclusive, Holds, Current
<1>4. \A r \in Rows : row'[r].state = "leased" /\ job'[r[1]] # r[2] => row'[r].attempts < MaxAttempts + restarts
  <2>1. ASSUME NEW r \in Rows, row'[r].state = "leased", job'[r[1]] # r[2]
        PROVE  r # c /\ row'[r] = row[r] /\ job[r[1]] # r[2]
    <3>1. r # c /\ row'[r] = row[r]
      BY <1>1, <2>1
    <3>2. CASE r[1] = s
      BY <3>1, <3>2, EndsFacts, Pairs
    <3>3. CASE r[1] # s
      BY <2>1, <3>1, <3>3, EndsFacts, Pairs
    <3> QED
      BY <3>2, <3>3
  <2> QED
    BY <2>1 DEF IInv, RowsOK, MayTry
<1>5. \A r \in Rows : row'[r].state = "queued" => row'[r].attempts < MaxAttempts + restarts
  BY <1>1 DEF IInv, RowsOK, MayTry
<1> QED
  BY <1>1, <1>2, <1>3, <1>4, <1>5, EndsFacts DEF RowsOK, MayTry

LEMMA DeliveredOK ==
  ASSUME IInv, NEW s \in Subs, Delivered(s)
  PROVE  IInv'
<1>1. job[s] # 0 /\ Ends(s) /\ sub' = sub
  BY DEF Delivered
<1>2. SubsOK'
  <2>1. streak' = [streak EXCEPT ![s] = 0] \/ streak' = streak
    BY DEF Delivered
  <2> QED
    BY <1>1, <2>1, EndsFacts, Limits DEF IInv, SubsOK, StreakBelowBurst
<1>3. RowsOK'
  <2>1. CASE Holds(s)
    <3>1. PICK q \in RowType : /\ row' = [row EXCEPT ![Current(s)] = q] /\ q.state = "delivered"
                              /\ q.attempts = row[Current(s)].attempts
      BY <1>1, <2>1, EndsFacts, DoneOK DEF Delivered, IInv, RowsOK
    <3> QED
      BY <1>1, <3>1, EndsFacts, EndsOneRow DEF IInv, RowsOK, AttemptsBoundedByCrashes
  <2>2. CASE ~Holds(s)
    BY <1>1, <2>2, EndsForNothing DEF Delivered
  <2> QED
    BY <2>1, <2>2
<1> QED
  BY <1>1, <1>2, <1>3, EndsFlags DEF IInv

LEMMA TerminalOK ==
  ASSUME IInv, NEW s \in Subs, job[s] # 0, TerminalFailure(s)
  PROVE  IInv'
<1>1. Ends(s)
  BY DEF TerminalFailure
<1>2. CASE ~Holds(s)
  <2>1. UNCHANGED <<sub, row, streak>>
    BY <1>2 DEF TerminalFailure
  <2>2. SubsOK'
    BY <1>1, <2>1, EndsFacts DEF IInv, SubsOK, StreakBelowBurst
  <2> QED
    BY <1>1, <1>2, <2>1, <2>2, EndsForNothing, EndsFlags DEF IInv
<1>3. CASE Holds(s)
  <2>1. PICK q \in RowType : /\ row' = [row EXCEPT ![Current(s)] = q] /\ q.state = "failed"
                            /\ q.attempts = row[Current(s)].attempts
    BY <1>1, <1>3, EndsFacts, DoneOK DEF TerminalFailure, IInv, RowsOK
  <2>2. \/ UNCHANGED <<sub, streak>>
        \/ /\ sub[s] = "active" /\ streak' = [streak EXCEPT ![s] = @ + 1]
           /\ sub' = IF streak[s] + 1 >= Burst THEN [sub EXCEPT ![s] = "paused"] ELSE sub
    BY <1>3 DEF TerminalFailure
  <2>3. SubsOK'
    BY <1>1, <2>2, EndsFacts, Limits DEF IInv, SubsOK, StreakBelowBurst
  <2>4. \A x \in Subs : /\ sub'[x] \in {"disabled", "deleted"} => sub'[x] = sub[x]
                        /\ sub'[x] # "deleted" => sub[x] # "deleted"
    BY <2>2 DEF IInv, SubsOK
  <2>5. RowsOK'
    BY <1>1, <2>1, <2>4, EndsFacts, EndsOneRow DEF IInv, RowsOK, AttemptsBoundedByCrashes
  <2> QED
    BY <1>1, <2>3, <2>5, EndsFlags DEF IInv
<1> QED
  BY <1>2, <1>3

LEMMA RetryableOK ==
  ASSUME IInv, NEW s \in Subs, NEW delay \in 0..MaxBackoff, RetryableFailure(s, delay)
  PROVE  IInv'
<1>1. job[s] # 0
  BY DEF RetryableFailure
<1>2. CASE Holds(s) /\ Exhausted(s)
  BY <1>1, <1>2, TerminalOK DEF RetryableFailure
<1>3. CASE ~(Holds(s) /\ Exhausted(s))
  <2>1. Ends(s) /\ UNCHANGED <<sub, streak>>
    BY <1>3 DEF RetryableFailure
  <2>2. SubsOK'
    BY <1>1, <2>1, EndsFacts DEF IInv, SubsOK, StreakBelowBurst
  <2>3. CASE ~Holds(s)
    BY <1>1, <1>3, <2>1, <2>2, <2>3, EndsForNothing, EndsFlags DEF RetryableFailure, IInv
  <2>4. CASE Holds(s)
    <3>1. ASSUME NEW x \in RowType
          PROVE  LET d == [x EXCEPT !.state = "queued", !.due = delay, !.lease = 0]
                 IN  d \in RowType /\ d.state = "queued" /\ d.attempts = x.attempts
      <4>1. delay \in -(Window + 1)..MaxBackoff /\ 0 \in 0..Lease
        BY Limits
      <4> QED
        BY <4>1 DEF RowType, States
    <3>2. row[Current(s)] \in RowType /\ row[Current(s)].attempts < MaxAttempts
      <4>1. row[Current(s)] \in RowType
        BY <1>1, <2>1, EndsFacts DEF IInv, RowsOK
      <4>2. row[Current(s)].attempts \in Nat
        BY <4>1 DEF RowType
      <4> QED
        BY <1>3, <2>4, <4>1, <4>2, Limits DEF Exhausted
    <3>3. PICK q \in RowType : /\ row' = [row EXCEPT ![Current(s)] = q] /\ q.state = "queued"
                              /\ q.attempts = row[Current(s)].attempts
      BY <1>3, <2>4, <3>1, <3>2 DEF RetryableFailure
    <3>4. sub[s] \notin {"disabled", "deleted"}
      BY <1>1, <2>1, <2>4, EndsFacts DEF IInv, RowsOK, DisabledHasNoBacklog, Holds
    <3>5. q.attempts \in Nat /\ q.attempts < MaxAttempts + restarts
      BY <3>2, <3>3, Limits DEF IInv, SubsOK, RowType
    <3>6. q.attempts <= MaxAttempts + restarts
      BY <3>5, Limits DEF IInv, SubsOK
    <3>7. RowsOK'
      BY <1>1, <2>1, <3>3, <3>4, <3>5, <3>6, EndsOneRow
    <3> QED
      BY <1>1, <2>1, <2>2, <3>7, EndsFlags DEF IInv
  <2> QED
    BY <2>3, <2>4
<1> QED
  BY <1>2, <1>3

LEMMA PermanentOK ==
  ASSUME IInv, NEW s \in Subs, PermanentFailure(s)
  PROVE  IInv'
<1>1. job[s] # 0 /\ Ends(s) /\ streak' = streak
  BY DEF PermanentFailure
<1>2. CASE ~Holds(s)
  <2>1. UNCHANGED <<sub, row>>
    BY <1>2 DEF PermanentFailure
  <2>2. SubsOK'
    BY <1>1, <2>1, EndsFacts DEF IInv, SubsOK, StreakBelowBurst
  <2> QED
    BY <1>1, <1>2, <2>1, <2>2, EndsForNothing, EndsFlags DEF IInv
<1>3. CASE Holds(s)
  <2>1. sub' = [sub EXCEPT ![s] = "disabled"]
    BY <1>3 DEF PermanentFailure
  <2>2. SubsOK'
    BY <1>1, <2>1, EndsFacts DEF IInv, SubsOK, StreakBelowBurst
  <2>3. /\ row' \in [Rows -> RowType]
        /\ \A r \in Rows : /\ row'[r].attempts = row[r].attempts
                           /\ r[1] # s => row'[r] = row[r]
                           /\ r[1] = s => row'[r].state \notin {"queued", "leased"}
    <3>1. \A r \in Rows : row[r] \in RowType
      BY DEF IInv, RowsOK
    <3>2. row' = [r \in Rows |->
                       IF r = Current(s) THEN Done(row[r], "failed")
                       ELSE IF r[1] = s /\ row[r].state \in {"queued", "leased"} THEN Done(row[r], "dropped")
                       ELSE row[r]]
      BY <1>3 DEF PermanentFailure
    <3>3. Current(s)[1] = s
      BY <1>1, EndsFacts
    <3> QED
      BY <3>1, <3>2, <3>3, DoneOK
  <2>4. sub'[s] = "disabled" /\ \A x \in Subs \ {s} : sub'[x] = sub[x]
    BY <2>1 DEF IInv, SubsOK
  <2>5. DisabledHasNoBacklog'
    BY <2>3, <2>4, Pairs DEF IInv, RowsOK, DisabledHasNoBacklog
  <2>6. AttemptsBoundedByCrashes'
    BY <1>1, <2>3, EndsFacts DEF IInv, RowsOK, AttemptsBoundedByCrashes
  <2>7. LeasesExclusive'
    <3>1. \A x \in Subs : \A r, k \in Of(x) : row'[r].state = "leased" /\ row'[k].state = "leased" => r = k
      BY <2>3, Pairs DEF IInv, RowsOK, LeasesExclusive
    <3>2. ASSUME NEW x \in Subs, job'[x] # 0, sub'[x] # "deleted" PROVE row'[<<x, job'[x]>>].state = "leased"
      <4>1. x # s /\ job'[x] = job[x] /\ sub[x] # "deleted"
        BY <1>1, <2>4, <3>2, EndsFacts
      <4>2. <<x, job[x]>> \in Rows /\ row[<<x, job[x]>>].state = "leased"
        BY <3>2, <4>1, Pairs DEF IInv, SubsOK, RowsOK, LeasesExclusive, Holds, Current
      <4> QED
        BY <2>3, <4>1, <4>2
    <3> QED
      BY <3>1, <3>2 DEF LeasesExclusive, Holds, Current
  <2>8. \A r \in Rows : row'[r].state = "queued" \/ (row'[r].state = "leased" /\ job'[r[1]] # r[2]) => MayTry(r)'
    <3>1. ASSUME NEW r \in Rows, row'[r].state = "queued" \/ (row'[r].state = "leased" /\ job'[r[1]] # r[2])
          PROVE  row'[r] = row[r] /\ job'[r[1]] = job[r[1]]
      BY <1>1, <2>3, <3>1, EndsFacts, Pairs
    <3> QED
      BY <1>1, <3>1, EndsFacts DEF IInv, RowsOK, MayTry
  <2> QED
    BY <1>1, <2>2, <2>3, <2>5, <2>6, <2>7, <2>8, EndsFlags DEF IInv, RowsOK
<1> QED
  BY <1>2, <1>3

LEMMA OutcomeOK ==
  ASSUME IInv, NEW s \in Subs, Outcome(s)
  PROVE  IInv'
BY DeliveredOK, PermanentOK, RetryableOK, TerminalOK DEF Outcome, Rejected

---------------------------------------------------------------------------
(* Time, crashes and the turn of the worker.                               *)

\* Time changes no state.
LEMMA TickedRows ==
  ASSUME IInv, Tick
  PROVE  /\ row' \in [Rows -> RowType]
         /\ \A r \in Rows : row'[r].state = row[r].state /\ row'[r].attempts = row[r].attempts
<1>1. ASSUME NEW x \in RowType
      PROVE  LET d == [x EXCEPT !.age   = Older1(@, Window + 1),
                                !.due   = IF x.state \in Final \/ @ = -(Window + 1) THEN @ ELSE @ - 1,
                                !.lease = IF @ = 0 THEN 0 ELSE @ - 1,
                                !.first = IF @ = -1 THEN -1 ELSE Older1(@, Window)]
             IN  d \in RowType /\ d.state = x.state /\ d.attempts = x.attempts
  <2>1. /\ x.age \in 0..(Window + 1) /\ x.due \in -(Window + 1)..MaxBackoff
        /\ x.lease \in 0..Lease /\ x.first \in -1..Window
    BY DEF RowType
  <2>2. /\ Older1(x.age, Window + 1) \in 0..(Window + 1)
        /\ (IF x.state \in Final \/ x.due = -(Window + 1) THEN x.due ELSE x.due - 1) \in -(Window + 1)..MaxBackoff
        /\ (IF x.lease = 0 THEN 0 ELSE x.lease - 1) \in 0..Lease
        /\ (IF x.first = -1 THEN -1 ELSE Older1(x.first, Window)) \in -1..Window
    BY <2>1, Limits DEF Older1
  <2> QED
    BY <2>2 DEF RowType
<1> QED
  BY <1>1 DEF Tick, IInv, RowsOK

LEMMA TickOK ==
  ASSUME IInv, Tick
  PROVE  IInv'
<1>1. /\ sub' = sub /\ streak' = streak /\ key' = key /\ job' = job /\ restarts' = restarts
      /\ signs' = signs /\ old' = old
  BY DEF Tick, jobVars
<1>2. SubsOK' /\ FlagsOK'
  <2>1. keyLeft' \in [Subs \X KeyNumbers -> 0..(Window + 1)]
    <3>1. \A n \in 0..(Window + 1) : (IF n \in 1..Window THEN n - 1 ELSE n) \in 0..(Window + 1)
      BY Limits
    <3>2. \A k \in Subs \X KeyNumbers : keyLeft[k] \in 0..(Window + 1)
      BY DEF IInv, SubsOK
    <3> QED
      BY <3>1, <3>2 DEF Tick
  <2> QED
    BY <1>1, <2>1 DEF IInv, SubsOK, FlagsOK, StreakBelowBurst
<1>4. /\ row' \in [Rows -> RowType]
      /\ \A r \in Rows : row'[r].state = row[r].state /\ row'[r].attempts = row[r].attempts
  BY TickedRows
<1>5. LeasesExclusive'
  <2>1. \A x \in Subs : job[x] # 0 => <<x, job[x]>> \in Rows
    BY Pairs DEF IInv, SubsOK
  <2>2. \A x \in Subs : job[x] # 0 /\ sub[x] # "deleted" => row'[<<x, job[x]>>].state = "leased"
    BY <1>4, <2>1 DEF IInv, RowsOK, LeasesExclusive, Holds, Current
  <2>3. \A x \in Subs : \A r, q \in Of(x) : row'[r].state = "leased" /\ row'[q].state = "leased" => r = q
    BY <1>4, Pairs DEF IInv, RowsOK, LeasesExclusive
  <2> QED
    BY <1>1, <2>2, <2>3 DEF LeasesExclusive, Holds, Current
<1>6. DisabledHasNoBacklog' /\ AttemptsBoundedByCrashes'
  BY <1>1, <1>4, Pairs DEF IInv, RowsOK, DisabledHasNoBacklog, AttemptsBoundedByCrashes
<1> QED
  BY <1>1, <1>2, <1>4, <1>5, <1>6 DEF IInv, RowsOK, MayTry

\* A crash lets every lease it leaves behind be tried once more.
LEMMA RestartOK ==
  ASSUME IInv, Restart
  PROVE  IInv'
<1>1. /\ sub' = sub /\ streak' = streak /\ key' = key /\ keyLeft' = keyLeft /\ row' = row
      /\ restarts' = restarts + 1 /\ restarts' \in 0..MaxRestarts
      /\ job' \in [Subs -> Numbers \cup {0}] /\ \A s \in Subs : job'[s] = 0
  BY Limits DEF Restart, subVars, IInv, SubsOK
<1>2. FlagsOK'
  <2>1. [s \in Subs |-> FALSE] \in [Subs -> BOOLEAN]
    BY Zenon
  <2> QED
    BY <2>1, Zenon DEF Restart, FlagsOK
<1>3. SubsOK'
  BY <1>1 DEF IInv, SubsOK, StreakBelowBurst
<1>4. \A r \in Rows : row[r].attempts \in Nat /\ row[r].attempts <= MaxAttempts + restarts
  BY DEF IInv, RowsOK, RowType, AttemptsBoundedByCrashes
<1>5. \A r \in Rows : row[r].attempts < MaxAttempts + (restarts + 1)
  BY <1>4, Limits DEF IInv, SubsOK
<1>6. AttemptsBoundedByCrashes' /\ \A r \in Rows : MayTry(r)'
  BY <1>1, <1>4, <1>5, Limits DEF AttemptsBoundedByCrashes, MayTry
<1> QED
  BY <1>1, <1>2, <1>3, <1>6 DEF IInv, RowsOK, DisabledHasNoBacklog, LeasesExclusive

\* What the sweep and the requeue leave of a row.
LEMMA SweptOK ==
  ASSUME IInv, NEW E
  PROVE  \A r \in Rows : LET x == Swept(E)[r] IN
           /\ x \in RowType /\ x.attempts = row[r].attempts
           /\ x.state = "leased" => row[r].state = "leased"
           /\ x.state = "queued" => row[r].state \in {"queued", "leased"}
<1>1. ASSUME NEW y \in RowType
      PROVE  LET d == [y EXCEPT !.state = "queued"]
             IN  d \in RowType /\ d.state = "queued" /\ d.attempts = y.attempts
  BY DEF RowType, States
<1>2. \A r \in Rows : row[r] \in RowType
  BY DEF IInv, RowsOK
<1> QED
  BY <1>1, <1>2, DoneOK DEF Swept

LEMMA LeasedOK ==
  ASSUME NEW x \in RowType
  PROVE  Leased(x) \in RowType /\ Leased(x).state = "leased" /\ Leased(x).attempts = x.attempts + 1
<1>1. /\ (IF x.first = -1 THEN 0 ELSE x.first) \in -1..Window /\ Lease \in 0..Lease
      /\ x.attempts + 1 \in Nat
  BY Limits DEF RowType
<1> QED
  BY <1>1 DEF Leased, RowType, States

\* A subscription has one row that is first in line, or none.
LEMMA OneFirst ==
  ASSUME NEW w \in [Rows -> RowType], NEW s \in Subs, NEW r \in FirstDue(w, s), NEW q \in FirstDue(w, s)
  PROVE  r = q
<1>1. r \in Of(s) /\ q \in Of(s) /\ (r # q => Before(w, r, q) /\ Before(w, q, r))
  BY DEF FirstDue
<1>2. w[r].due \in Int /\ w[q].due \in Int /\ r[2] \in Int /\ q[2] \in Int
  BY <1>1, Pairs, Limits DEF RowType
<1> QED
  BY <1>1, <1>2 DEF Before

LEMMA DrainOK ==
  ASSUME IInv, Drain
  PROVE  IInv'
<1>1. PICK E \in SUBSET Rows, C \in SUBSET Subs :
        LET w == Swept(E) IN
        /\ ClaimDue(w, C)
        /\ row' = [r \in Rows |-> IF r[1] \in C /\ r \in FirstDue(w, r[1]) THEN Leased(w[r]) ELSE w[r]]
        /\ job' = [s \in Subs |-> IF s \in C THEN (CHOOSE r \in FirstDue(w, s) : TRUE)[2] ELSE 0]
  BY DEF Drain
<1> DEFINE w == Swept(E)
<1>2. /\ sub' = sub /\ streak' = streak /\ key' = key /\ keyLeft' = keyLeft /\ restarts' = restarts
      /\ \A s \in Subs : job[s] = 0
  BY DEF Drain, Running, subVars
<1>3. /\ \A r \in Rows : /\ w[r] \in RowType /\ w[r].attempts = row[r].attempts
                         /\ w[r].state = "leased" => row[r].state = "leased"
                         /\ w[r].state = "queued" => row[r].state \in {"queued", "leased"}
      /\ w \in [Rows -> RowType]
  <2>1. w = [r \in Rows |-> w[r]]
    BY DEF Swept
  <2> QED
    BY <2>1, SweptOK
<1> HIDE DEF w
\* What the turn began: one row of each subscription in C.
<1>4. \A s \in C : /\ s \in Subs /\ sub[s] = "active"
                   /\ \A r \in Of(s) : w[r].state # "leased"
                   /\ <<s, job'[s]>> \in FirstDue(w, s) /\ job'[s] \in Numbers
                   /\ \A r \in FirstDue(w, s) : r = <<s, job'[s]>>
  <2>1. ASSUME NEW s \in C PROVE FirstDue(w, s) # {}
    BY <1>1, <2>1 DEF ClaimDue, Claimable, w
  <2>2. ASSUME NEW s \in C PROVE \E r \in FirstDue(w, s) : job'[s] = r[2]
    BY <1>1, <2>1 DEF w
  <2>3. ASSUME NEW s \in C, NEW r \in FirstDue(w, s)
        PROVE  /\ sub[s] = "active" /\ \A q \in Of(s) : w[q].state # "leased"
               /\ r \in Of(s) /\ r \in Rows /\ r = <<s, r[2]>> /\ r[2] \in Numbers
    <3>1. r \in Of(s) /\ sub[s] = "active" /\ \A q \in Of(s) : w[q].state # "leased"
      BY <2>3 DEF FirstDue
    <3> QED
      BY <3>1, Pairs
  <2>4. ASSUME NEW s \in C PROVE <<s, job'[s]>> \in FirstDue(w, s)
    BY <2>2, <2>3
  <2>5. ASSUME NEW s \in C, NEW r \in FirstDue(w, s) PROVE r = <<s, job'[s]>>
    BY <1>3, <2>4, OneFirst
  <2>6. ASSUME NEW s \in C PROVE job'[s] \in Numbers
    BY <2>2, <2>3
  <2> QED
    BY <2>3, <2>4, <2>5, <2>6
<1>5. \A s \in C : \A r \in FirstDue(w, s) : r \in Of(s) /\ w[r].state = "queued"
  BY DEF FirstDue
<1>6. \A r \in Rows : \/ /\ r[1] \in C /\ r = <<r[1], job'[r[1]]>> /\ w[r].state = "queued"
                         /\ row'[r] = Leased(w[r])
                      \/ row'[r] = w[r] /\ (r[1] \in C => w[r].state # "leased" /\ r[2] # job'[r[1]])
  <2>1. ASSUME NEW r \in Rows, r[1] \in C, r \in FirstDue(w, r[1])
        PROVE  /\ r = <<r[1], job'[r[1]]>> /\ w[r].state = "queued" /\ row'[r] = Leased(w[r])
    BY <1>1, <1>4, <1>5, <2>1 DEF w
  <2>2. ASSUME NEW r \in Rows, ~(r[1] \in C /\ r \in FirstDue(w, r[1]))
        PROVE  row'[r] = w[r] /\ (r[1] \in C => w[r].state # "leased" /\ r[2] # job'[r[1]])
    <3>1. row'[r] = w[r]
      BY <1>1, <2>2 DEF w
    <3>2. ASSUME r[1] \in C PROVE w[r].state # "leased" /\ r[2] # job'[r[1]]
      <4>1. r \in Of(r[1]) /\ r = <<r[1], r[2]>>
        BY Pairs
      <4>2. r[2] = job'[r[1]] => r = <<r[1], job'[r[1]]>>
        BY <4>1
      <4>3. r[2] # job'[r[1]]
        BY <1>4, <2>2, <3>2, <4>2
      <4>4. w[r].state # "leased"
        BY <1>4, <3>2, <4>1
      <4> QED
        BY <4>3, <4>4
    <3> QED
      BY <3>1, <3>2
  <2> QED
    BY <2>1, <2>2
<1>7. /\ job' \in [Subs -> Numbers \cup {0}]
      /\ \A s \in Subs \ C : job'[s] = 0
  BY <1>1, <1>4
<1>8. SubsOK'
  BY <1>2, <1>7 DEF IInv, SubsOK, StreakBelowBurst
<1>9. FlagsOK'
  <2>1. \A s \in Subs : (s \in C /\ keyLeft[<<s, row[<<s, job'[s]>>].key>>] > 0) \in BOOLEAN
    BY Zenon
  <2> QED
    BY Zenon DEF Drain, FlagsOK
<1>10. row' \in [Rows -> RowType]
  BY <1>1, <1>3, LeasedOK DEF w
<1>11. DisabledHasNoBacklog'
  BY <1>2, <1>3, <1>4, <1>6, Pairs DEF IInv, RowsOK, DisabledHasNoBacklog
<1>12. LeasesExclusive'
  <2>1. \A s \in Subs : \A r, q \in Of(s) : row'[r].state = "leased" /\ row'[q].state = "leased" => r = q
    BY <1>3, <1>6, Pairs DEF IInv, RowsOK, LeasesExclusive
  <2>2. ASSUME NEW s \in Subs, job'[s] # 0 PROVE row'[<<s, job'[s]>>].state = "leased"
    <3>1. s \in C /\ <<s, job'[s]>> \in FirstDue(w, s) /\ <<s, job'[s]>> \in Rows
      BY <1>4, <1>7, <2>2, Pairs
    <3>2. row'[<<s, job'[s]>>] = Leased(w[<<s, job'[s]>>])
      BY <1>6, <3>1
    <3> QED
      BY <1>3, <3>1, <3>2, LeasedOK
  <2> QED
    BY <2>1, <2>2 DEF LeasesExclusive, Holds, Current
<1>13. \A r \in Rows : w[r].state \in {"queued", "leased"} => MayTry(r)
  <2>1. \A r \in Rows : job[r[1]] # r[2]
    BY <1>2, Pairs, Limits
  <2> QED
    BY <1>3, <2>1 DEF IInv, RowsOK
<1>14. AttemptsBoundedByCrashes'
  <2>1. ASSUME NEW r \in Rows, row'[r] = Leased(w[r]), w[r].state = "queued"
        PROVE  row'[r].attempts <= MaxAttempts + restarts
    <3>1. row[r].attempts \in Nat /\ row[r].attempts < MaxAttempts + restarts
      BY <1>13, <2>1 DEF MayTry, IInv, RowsOK, RowType
    <3>2. row'[r].attempts = row[r].attempts + 1
      BY <1>3, <2>1, LeasedOK
    <3> QED
      BY <3>1, <3>2, Limits DEF IInv, SubsOK
  <2>2. ASSUME NEW r \in Rows, row'[r] = w[r]
        PROVE  row'[r].attempts <= MaxAttempts + restarts
    BY <1>3, <2>2 DEF IInv, RowsOK, AttemptsBoundedByCrashes
  <2> QED
    BY <1>2, <1>6, <2>1, <2>2 DEF AttemptsBoundedByCrashes
<1>15. \A r \in Rows : row'[r].state = "queued" \/ (row'[r].state = "leased" /\ job'[r[1]] # r[2])
                       => row'[r] = w[r] /\ w[r].state \in {"queued", "leased"}
  <2>1. ASSUME NEW r \in Rows, r = <<r[1], job'[r[1]]>>, row'[r] = Leased(w[r])
        PROVE  row'[r].state = "leased" /\ job'[r[1]] = r[2]
    BY <1>3, <2>1, LeasedOK
  <2> QED
    BY <1>6, <2>1
<1>16. \A r \in Rows : row'[r].state = "queued" \/ (row'[r].state = "leased" /\ job'[r[1]] # r[2])
                       => row'[r].attempts < MaxAttempts + restarts'
  BY <1>2, <1>3, <1>13, <1>15 DEF MayTry
<1> QED
  BY <1>8, <1>9, <1>10, <1>11, <1>12, <1>14, <1>16 DEF IInv, RowsOK, MayTry

LEMMA StepInvariant == IInv /\ [Next]_vars => IInv'
<1> SUFFICES ASSUME IInv, [Next]_vars PROVE IInv'
  OBVIOUS
<1>1. ASSUME NEW s \in Subs, CreateSubscription(s) \/ DeleteSubscription(s) \/ RotateSecret(s) \/ Outcome(s)
      PROVE  IInv'
  BY <1>1, CreateOK, DeleteOK, RotateOK, OutcomeOK
<1>2. ASSUME NEW s \in Subs, NEW state \in {"active", "paused"}, PatchState(s, state) PROVE IInv'
  BY <1>2, PatchOK
<1>3. ASSUME NEW s \in Subs, NEW n \in Numbers, QueueWebhookEvent(s, n) PROVE IInv'
  BY <1>3, QueueOK
<1>4. CASE Drain \/ Tick \/ Restart
  BY <1>4, DrainOK, TickOK, RestartOK
<1>5. CASE UNCHANGED vars
  BY <1>5 DEF vars, subVars, jobVars, IInv, SubsOK, FlagsOK, RowsOK, StreakBelowBurst, DisabledHasNoBacklog,
              LeasesExclusive, Holds, Current, AttemptsBoundedByCrashes, MayTry
<1> QED
  BY <1>1, <1>2, <1>3, <1>4, <1>5 DEF Next

---------------------------------------------------------------------------

\* The inductive invariant holds in every reachable state.
THEOREM Invariant == Spec => []IInv
BY InitInvariant, StepInvariant, PTL DEF Spec

\* Timestamps, keys and counters stay within the limits the code sets.
THEOREM TypeCorrect == Spec => []TypeOK
BY Invariant, InvariantImplies, PTL

\* At most one request of a subscription is open, and its row is leased until it
\* ends, over any crashes, pauses and deletions.
THEOREM OneRequest == Spec => []LeasesExclusive
BY Invariant, InvariantImplies, PTL

\* A disabled or deleted subscription has nothing left that could be sent.
THEOREM NoBacklog == Spec => []DisabledHasNoBacklog
BY Invariant, InvariantImplies, PTL

\* The streak of an active subscription is short of the burst that pauses it.
THEOREM ShortOfBurst == Spec => []StreakBelowBurst
BY Invariant, InvariantImplies, PTL

\* Only a crash in the middle of an attempt allows for one more.
THEOREM AttemptsCorrect == Spec => []AttemptsBoundedByCrashes
BY Invariant, InvariantImplies, PTL
---------------------------------------------------------------------------
(* The limits on sets of rows.  A lease is only ever added by the worker's *)
(* turn, and a row to the queue by an event.                               *)

Waiting == In({"queued", "leased"})
Leases  == In({"leased"})

LEMMA FiniteRows ==
  ASSUME NEW S \in SUBSET Rows
  PROVE  /\ IsFiniteSet(S) /\ Cardinality(S) \in Nat
         /\ \A T \in SUBSET S : Cardinality(T) <= Cardinality(S) /\ Cardinality(T) \in Nat
<1>1. IsFiniteSet(Rows)
  BY WebhookAssumption, FS_Product DEF Rows
<1>2. IsFiniteSet(S)
  BY <1>1, FS_Subset
<1> QED
  BY <1>2, FS_Subset, FS_CardinalityType

\* What a step but for an event and a turn does to a row, as far as the limits go.
Yields(r) == \/ row'[r].state = row[r].state
             \/ row'[r].state \notin {"queued", "leased"}
             \/ row[r].state = "leased" /\ row'[r].state = "queued"

LEMMA NoneAdded ==
  ASSUME \A r \in Rows : Yields(r)
  PROVE  Waiting' \subseteq Waiting /\ Leases' \subseteq Leases
BY DEF Yields, Waiting, Leases, In

LEMMA OutcomeYields ==
  ASSUME IInv, NEW s \in Subs, Outcome(s)
  PROVE  \A r \in Rows : Yields(r)
<1>1. \E delay :
        \/ row' = row
        \/ /\ Holds(s)
           /\ \/ \E state \in {"delivered", "failed"} : row' = [row EXCEPT ![Current(s)] = Done(@, state)]
              \/ row' = [row EXCEPT ![Current(s)] = [@ EXCEPT !.state = "queued", !.due = delay, !.lease = 0]]
              \/ row' = [r \in Rows |->
                           IF r = Current(s) THEN Done(row[r], "failed")
                           ELSE IF r[1] = s /\ row[r].state \in {"queued", "leased"} THEN Done(row[r], "dropped")
                           ELSE row[r]]
  BY Zenon DEF Outcome, Delivered, PermanentFailure, Rejected, RetryableFailure, TerminalFailure
<1>2. \A q \in RowType : /\ \A state : Done(q, state).state = state
                         /\ \A delay : [q EXCEPT !.state = "queued", !.due = delay, !.lease = 0].state = "queued"
  BY DEF RowType, Done, Absent
<1>3. row \in [Rows -> RowType] /\ (Holds(s) => row[Current(s)].state = "leased")
  BY DEF IInv, RowsOK, Holds
<1> QED
  BY <1>1, <1>2, <1>3 DEF Yields

LEMMA OtherYields ==
  ASSUME IInv, \/ \E s \in Subs : CreateSubscription(s) \/ DeleteSubscription(s) \/ RotateSecret(s)
               \/ \E s \in Subs, state \in {"active", "paused"} : PatchState(s, state)
               \/ Tick \/ Restart \/ UNCHANGED vars
  PROVE  \A r \in Rows : Yields(r)
<1>1. row \in [Rows -> RowType]
  BY DEF IInv, RowsOK
<1>2. CASE \E s \in Subs : DeleteSubscription(s)
  BY <1>2 DEF DeleteSubscription, Absent, Yields
<1>3. CASE Tick
  BY <1>3, TickedRows DEF Yields
<1>4. CASE row' = row
  BY <1>4 DEF Yields
<1> QED
  BY <1>2, <1>3, <1>4 DEF CreateSubscription, RotateSecret, PatchState, Restart, subVars, vars

\* An event is refused when the queue is full, and nothing is leased for it.
LEMMA EventLimits ==
  ASSUME IInv, QueueBounded, NEW s \in Subs, NEW n \in Numbers, QueueWebhookEvent(s, n)
  PROVE  Leases' \subseteq Leases /\ QueueBounded'
<1> DEFINE over == OverLimit(s)
           new  == [Absent EXCEPT !.state = IF over THEN "refused" ELSE "queued", !.key = IF over THEN 0 ELSE key[s]]
<1>1. row' = [row EXCEPT ![<<s, n>>] = new] /\ <<s, n>> \in Rows
  BY Pairs DEF QueueWebhookEvent
<1>2. new.state = IF over THEN "refused" ELSE "queued"
  BY DEF Absent
<1>3. Waiting \in SUBSET Rows /\ Leases \in SUBSET Rows
  BY DEF Waiting, Leases, In
<1>4. row \in [Rows -> RowType]
  BY DEF IInv, RowsOK
<1>5. Leases' \subseteq Leases
  BY <1>1, <1>2, <1>4 DEF Leases, In
<1>6. CASE over
  <2>1. Waiting' \subseteq Waiting
    BY <1>1, <1>2, <1>4, <1>6 DEF Waiting, In
  <2>2. Cardinality(Waiting') <= Cardinality(Waiting) /\ Cardinality(Waiting') \in Nat /\ Cardinality(Waiting) \in Nat
    BY <1>3, <2>1, FiniteRows
  <2> QED
    BY <1>5, <2>2, WebhookAssumption DEF QueueBounded, Waiting
<1>7. CASE ~over
  <2>1. Waiting' \subseteq Waiting \cup {<<s, n>>}
    BY <1>1, <1>2, <1>4, <1>7 DEF Waiting, In
  <2>2. IsFiniteSet(Waiting) /\ Cardinality(Waiting) \in Nat /\ Waiting \cup {<<s, n>>} \in SUBSET Rows
    BY <1>1, <1>3, FiniteRows
  <2>3. Cardinality(Waiting \cup {<<s, n>>}) <= Cardinality(Waiting) + 1
    <3>1. Cardinality(Waiting \cup {<<s, n>>}) = IF <<s, n>> \in Waiting THEN Cardinality(Waiting) ELSE Cardinality(Waiting) + 1
      BY <2>2, FS_AddElement, Zenon
    <3> QED
      BY <2>2, <3>1
  <2>4. /\ Cardinality(Waiting') <= Cardinality(Waiting \cup {<<s, n>>}) /\ Cardinality(Waiting') \in Nat
        /\ Cardinality(Waiting \cup {<<s, n>>}) \in Nat
    BY <2>1, <2>2, FiniteRows
  <2>5. ~(Cardinality(Waiting) >= QueueLimit)
    BY <1>7 DEF OverLimit, Waiting
  <2> QED
    BY <1>5, <2>2, <2>3, <2>4, <2>5, WebhookAssumption DEF QueueBounded, Waiting
<1> QED
  BY <1>6, <1>7, <1>5

\* Leases that are still out are counted before more are given.
LEMMA TurnLimits ==
  ASSUME IInv, CapacityKept, Drain
  PROVE  Waiting' \subseteq Waiting /\ CapacityKept'
<1>1. PICK E \in SUBSET Rows, C \in SUBSET Subs :
        LET w == Swept(E) IN
        /\ ClaimDue(w, C)
        /\ row' = [r \in Rows |-> IF r[1] \in C /\ r \in FirstDue(w, r[1]) THEN Leased(w[r]) ELSE w[r]]
  BY DEF Drain
<1> DEFINE w == Swept(E)
           claimed == {r \in Rows : r[1] \in C /\ r \in FirstDue(w, r[1])}
           held == {r \in Rows : w[r].state = "leased"}
<1>2. /\ \A r \in Rows : /\ w[r] \in RowType /\ (w[r].state = "leased" => row[r].state = "leased")
                         /\ (w[r].state = "queued" => row[r].state \in {"queued", "leased"})
      /\ w \in [Rows -> RowType]
  <2>1. w = [r \in Rows |-> w[r]]
    BY DEF Swept
  <2> QED
    BY <2>1, SweptOK
<1>3. ClaimDue(w, C) /\ \A r \in Rows : row'[r] = IF r \in claimed THEN Leased(w[r]) ELSE w[r]
  BY <1>1
<1> HIDE DEF w
<1>4. \A r \in claimed : w[r].state = "queued"
  BY DEF FirstDue
<1>5. Waiting' \subseteq Waiting
  BY <1>2, <1>3, <1>4 DEF Waiting, In
<1>6. Leases' \subseteq held \cup claimed
  BY <1>2, <1>3 DEF Leases, In
\* At most one row of each subscription in C is claimed.
<1>7. IsFiniteSet(C) /\ Cardinality(C) \in Nat
  BY WebhookAssumption, FS_Subset, FS_CardinalityType
<1>8. Cardinality(claimed) <= Cardinality(C)
  <2> DEFINE sub_ == [r \in claimed |-> r[1]]
  <2>1. \A r, q \in claimed : r[1] = q[1] => r = q
    BY <1>2, OneFirst
  <2>2. sub_ \in [claimed -> C] /\ \A r, q \in claimed : sub_[r] = sub_[q] => r = q
    BY <2>1
  <2>3. sub_ \in Injection(claimed, C)
    BY <2>2 DEF Injection, IsInjective
  <2> HIDE DEF sub_, claimed
  <2> QED
    BY <1>7, <2>3, FS_Injection
<1>9. /\ IsFiniteSet(held) /\ Cardinality(held) \in Nat /\ IsFiniteSet(claimed) /\ Cardinality(claimed) \in Nat
      /\ Cardinality(held) <= Cardinality(Leases) /\ Cardinality(Leases) \in Nat
  <2>1. held \in SUBSET Rows /\ claimed \in SUBSET Rows /\ Leases \in SUBSET Rows /\ held \in SUBSET Leases
    BY <1>2 DEF Leases, In
  <2> HIDE DEF held, claimed
  <2> QED
    BY <2>1, FiniteRows
<1>10. Cardinality(C) <= Capacity - Cardinality(held)
  <2>1. /\ C \subseteq Claimable(w)
        /\ Cardinality(C) = IF Cardinality(Claimable(w)) <= (IF Capacity - Cardinality(held) < 0 THEN 0 ELSE Capacity - Cardinality(held))
                            THEN Cardinality(Claimable(w))
                            ELSE (IF Capacity - Cardinality(held) < 0 THEN 0 ELSE Capacity - Cardinality(held))
    BY <1>3, Zenon DEF ClaimDue
  <2>2. Capacity \in Nat /\ Cardinality(held) <= Capacity
    BY <1>9, WebhookAssumption DEF CapacityKept, Leases
  <2>3. Cardinality(Claimable(w)) \in Nat
    <3>1. Claimable(w) \in SUBSET Subs
      BY DEF Claimable
    <3> QED
      BY <3>1, WebhookAssumption, FS_Subset, FS_CardinalityType
  <2> HIDE DEF held
  <2> QED
    BY <1>9, <2>1, <2>2, <2>3
<1>11. Cardinality(held \cup claimed) <= Capacity
  <2> HIDE DEF held, claimed
  <2>1. Cardinality(held \cup claimed) = Cardinality(held) + Cardinality(claimed) - Cardinality(held \cap claimed)
    BY <1>9, FS_Union, Zenon
  <2>2. Cardinality(held \cap claimed) \in Nat
    BY <1>9, FS_Intersection, FS_CardinalityType
  <2> QED
    BY <1>7, <1>8, <1>9, <1>10, <2>1, <2>2, WebhookAssumption
<1>12. Cardinality(Leases') <= Cardinality(held \cup claimed) /\ Cardinality(Leases') \in Nat
       /\ Cardinality(held \cup claimed) \in Nat
  <2>1. held \cup claimed \in SUBSET Rows
    OBVIOUS
  <2> HIDE DEF held, claimed
  <2> QED
    BY <1>6, <2>1, FiniteRows
<1> QED
  BY <1>5, <1>11, <1>12, WebhookAssumption DEF CapacityKept, Leases

LEMMA StepLimits == IInv /\ CapacityKept /\ QueueBounded /\ [Next]_vars => CapacityKept' /\ QueueBounded'
<1> SUFFICES ASSUME IInv, CapacityKept, QueueBounded, [Next]_vars PROVE CapacityKept' /\ QueueBounded'
  OBVIOUS
<1>1. Waiting' \subseteq Waiting => QueueBounded'
  <2>1. Waiting \in SUBSET Rows
    BY DEF Waiting, In
  <2>2. Waiting' \subseteq Waiting =>
          Cardinality(Waiting') <= Cardinality(Waiting) /\ Cardinality(Waiting') \in Nat /\ Cardinality(Waiting) \in Nat
    BY <2>1, FiniteRows
  <2> QED
    BY <2>2, WebhookAssumption DEF QueueBounded, Waiting
<1>2. Leases' \subseteq Leases => CapacityKept'
  <2>1. Leases \in SUBSET Rows
    BY DEF Leases, In
  <2>2. Leases' \subseteq Leases =>
          Cardinality(Leases') <= Cardinality(Leases) /\ Cardinality(Leases') \in Nat /\ Cardinality(Leases) \in Nat
    BY <2>1, FiniteRows
  <2> QED
    BY <2>2, WebhookAssumption DEF CapacityKept, Leases
<1>3. ASSUME NEW s \in Subs, Outcome(s) PROVE CapacityKept' /\ QueueBounded'
  BY <1>1, <1>2, <1>3, OutcomeYields, NoneAdded
<1>4. CASE \E s \in Subs, n \in Numbers : QueueWebhookEvent(s, n)
  BY <1>2, <1>4, EventLimits
<1>5. CASE Drain
  BY <1>1, <1>5, TurnLimits
<1>6. CASE \/ \E s \in Subs : CreateSubscription(s) \/ DeleteSubscription(s) \/ RotateSecret(s)
           \/ \E s \in Subs, state \in {"active", "paused"} : PatchState(s, state)
           \/ Tick \/ Restart \/ UNCHANGED vars
  BY <1>1, <1>2, <1>6, OtherYields, NoneAdded
<1> QED
  BY <1>3, <1>4, <1>5, <1>6 DEF Next

LEMMA InitLimits == Init => CapacityKept /\ QueueBounded
<1> SUFFICES ASSUME Init PROVE CapacityKept /\ QueueBounded
  OBVIOUS
<1>1. In({"leased"}) = {} /\ In({"queued", "leased"}) = {}
  BY DEF Init, In, Absent
<1> QED
  BY <1>1, FS_EmptySet, WebhookAssumption DEF CapacityKept, QueueBounded

LEMMA Limited == Spec => [](CapacityKept /\ QueueBounded)
BY Invariant, InitLimits, StepLimits, PTL DEF Spec

\* At most Capacity leases are out, those a dead worker left behind included,
\* over any restarts, pauses and expired leases.
THEOREM CapacityCorrect == Spec => []CapacityKept
BY Limited, PTL

\* The queue never holds more than QueueLimit rows that are not final, although
\* rows are put back into it.
THEOREM QueueBoundCorrect == Spec => []QueueBounded
BY Limited, PTL
=============================================================================
