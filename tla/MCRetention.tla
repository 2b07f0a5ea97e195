---------------------------- MODULE MCRetention ----------------------------
(* What queries and pruning owe each other, over every small database.     *)
EXTENDS Retention

Readings == {{}, {[metric |-> "1:temp", value |-> 20]}, {[metric |-> "1:temp", value |-> 20], [metric |-> "2:gps", value |-> -1]}}

SampleOf(id) ==
  {[id |-> id, radio |-> 1, at |-> at, contact |-> 0, volts |-> v, readings |-> {}] : at \in {0, 2 * Day}, v \in {-1, 4000}}
  \cup
  {[id |-> id, radio |-> 1, at |-> at, contact |-> c, volts |-> -1, readings |-> r] : at \in {0, 2 * Day}, c \in {1, 2}, r \in Readings}

Logs == {{a, b} : a \in SampleOf(1), b \in SampleOf(2)}

\* An export of everything is what the graphs show, each number once: the export of
\* each contact, and the battery.
ASSUME ExportIsWhatIsShown ==
  \A log \in Logs, since \in {0, 1, 2 * Day} :
    LET all == ExportTelemetry(log, 1, since, 0) IN
    /\ all = {r \in all : r.contact = 0} \cup UNION {ExportTelemetry(log, 1, since, c) : c \in {1, 2}}
    /\ {r.of : r \in {x \in all : x.contact = 0}} = {s.id : s \in {x \in GetTelemetry(log, 1, since) : x.volts # -1}}
    /\ \A c \in {1, 2} : {r.of : r \in ExportTelemetry(log, 1, since, c)} \subseteq
                           {s.id : s \in GetContactTelemetry(log, 1, c, since)}
    /\ \A s \in log : Cardinality({r \in all : r.of = s.id}) <= 1

\* Trimming takes nothing that a request for the kept time still asks for, and the
\* latest reading of the battery is gone only when every reading is.
ASSUME TrimKeepsWhatIsAsked ==
  \A log \in Logs, days \in {0, 1, 2}, hours \in {1, 24, 48} :
    LET now   == 3 * Day
        kept  == Trimmed(log, days, now)
        since == SinceParameter(hours, now)
    IN  /\ days = 0 \/ hours <= 24 * days =>
             /\ GetTelemetry(kept, 1, since) = GetTelemetry(log, 1, since)
             /\ ExportTelemetry(kept, 1, since, 1) = ExportTelemetry(log, 1, since, 1)
        /\ (\A x, y \in log : x.id < y.id => x.at <= y.at) =>
             \/ LatestBatteryMv(kept, 1) = LatestBatteryMv(log, 1)
             \/ \A s \in GetTelemetry(kept, 1, 0) : s.volts = NoNumber

ADelivery(id) == [id : {id}, sub : {1}, event : {1, 2}, key : {1, 2}, state : {"queued", "leased", "delivered", "failed"}, done : {0, 5}]
Databases ==
  {[deliveries |-> ds, events |-> {[id |-> 1, at |-> 0], [id |-> 2, at |-> 0]},
    keys |-> {[id |-> 1, sub |-> 1, retired |-> 0], [id |-> 2, sub |-> 1, retired |-> -1]}] :
     ds \in {{}} \cup {{a} : a \in ADelivery(1)} \cup {{a, b} : a \in ADelivery(1), b \in ADelivery(2)}}

Again(db, cutoff) == LET once == Pruned(db, cutoff, 1) IN Pruned(once, cutoff, 1)

\* Pruning, however often it runs, takes no delivery that is not over or not old, no
\* event or key that a delivery refers to, and no key in use - and everything else
\* in the end.
ASSUME PruneTakesTheRest ==
  \A db \in Databases, cutoff \in {0, 3, 9} :
    LET end == Again(Again(db, cutoff), cutoff) IN
    /\ end.deliveries = {d \in db.deliveries : d.state \notin Terminal \/ d.done >= cutoff}
    /\ {e.id : e \in end.events} = {d.event : d \in end.deliveries}
    /\ \A k \in db.keys : k \in end.keys <=>
         \/ k.retired = -1 \/ k.retired >= cutoff
         \/ \E d \in end.deliveries : d.key = k.id

\* Paging through deliveries shows each one once, newest first.
ASSUME DeliveriesPaged ==
  \A db \in Databases, limit \in {1, 2}, state \in {"any", "queued"} :
    LET one == ListWebhookDeliveries(db.deliveries, 1, state, 0, limit)
        two == IF one = {} THEN {}
               ELSE ListWebhookDeliveries(db.deliveries, 1, state, (CHOOSE d \in one : \A x \in one : d.id <= x.id).id, limit)
    IN  one \cup two = {d \in db.deliveries : state # "any" => d.state = state} /\ one \cap two = {}
===========================================================================
