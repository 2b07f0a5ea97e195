----------------------------- MODULE Retention -----------------------------
(***************************************************************************)
(* What the database keeps, gives out and deletes by age: telemetry        *)
(* samples, their export, timeline rows, and the deliveries, events and    *)
(* keys of webhooks (store.ts; the worker prunes before each turn).        *)
(*                                                                         *)
(* A sample is [id, radio, at, contact, volts, readings]: the radio's own  *)
(* battery (contact = 0) or the readings of a contact, each [metric, value]*)
(* with value -1 when it is no number.  A delivery is [id, sub, event, key,*)
(* state, done], a key [id, sub, retired], -1 while it is not retired.     *)
(***************************************************************************)
EXTENDS Integers, FiniteSets, Sequences

Day      == 86400
NoNumber == -1

\* The n first of S in the order of f, ties by id.
FirstBy(S, f(_), n) ==
  {x \in S : Cardinality({y \in S : f(y) < f(x) \/ (f(y) = f(x) /\ y.id < x.id)}) < n}

---------------------------------------------------------------------------
(* Telemetry.                                                              *)

GetTelemetry(samples, radio, since) == {s \in samples : s.radio = radio /\ s.contact = 0 /\ s.at >= since}

GetContactTelemetry(samples, radio, contact, since) ==
  {s \in samples : s.radio = radio /\ s.contact = contact /\ s.at >= since}

LatestBatteryMv(samples, radio) ==
  LET read == {s \in samples : s.radio = radio /\ s.contact = 0 /\ s.volts # NoNumber} IN
  IF read = {} THEN NoNumber ELSE (CHOOSE s \in read : \A x \in read : x.id <= s.id).volts

\* One row for each number, for all of a radio (contact = 0) or for one contact.
ExportTelemetry(samples, radio, since, contact) ==
  LET listed == {s \in samples : s.radio = radio /\ s.at >= since /\ (contact # 0 => s.contact = contact)} IN
  {[at |-> s.at, contact |-> 0, metric |-> "battery", value |-> s.volts, of |-> s.id] :
     s \in {x \in listed : x.contact = 0 /\ x.volts # NoNumber}}
  \cup
  UNION {{[at |-> s.at, contact |-> s.contact, metric |-> r.metric, value |-> r.value, of |-> s.id] :
            r \in {x \in s.readings : x.value # NoNumber}} : s \in {x \in listed : x.contact # 0}}

\* The time range a request may ask for: hours back from now.
SinceParameter(hours, now) == now - hours * 3600

\* No retention configured keeps everything.
Trimmed(rows, days, now) == IF days <= 0 THEN rows ELSE {r \in rows : r.at >= now - days * Day}

---------------------------------------------------------------------------
(* Webhooks.                                                               *)

Terminal == {"delivered", "failed", "dropped"}

ListWebhookDeliveries(deliveries, sub, state, before, limit) ==
  LET listed == {d \in deliveries : d.sub = sub /\ (state # "any" => d.state = state) /\ (before # 0 => d.id < before)} IN
  FirstBy(listed, LAMBDA d : -d.id, limit)

\* Only what is over, the oldest first; then events that no delivery refers to.
PruneWebhookRetention(db, cutoff, limit) ==
  LET over == {d \in db.deliveries : d.state \in Terminal /\ d.done < cutoff}
      left == db.deliveries \ FirstBy(over, LAMBDA d : d.done, limit)
      idle == {e \in db.events : \A d \in left : d.event # e.id}
  IN  [db EXCEPT !.deliveries = left, !.events = @ \ FirstBy(idle, LAMBDA e : e.at, limit)]

\* A key that some delivery still refers to stays, however long it is retired.
PruneRetiredWebhookKeys(db, cutoff, limit) ==
  LET idle == {k \in db.keys : /\ k.retired # -1 /\ k.retired < cutoff
                               /\ \A d \in db.deliveries : ~(d.sub = k.sub /\ d.key = k.id)}
  IN  [db EXCEPT !.keys = @ \ FirstBy(idle, LAMBDA k : k.retired, limit)]

\* What the worker does with the database before it claims anything.
Pruned(db, cutoff, limit) == PruneRetiredWebhookKeys(PruneWebhookRetention(db, cutoff, limit), cutoff, limit)
===========================================================================
