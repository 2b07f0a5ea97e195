------------------------- MODULE TelemetryMonitors -------------------------
(***************************************************************************)
(* The telemetry of one radio: its battery, the contacts whose sensors are *)
(* polled in turn, and the alert rules that every recorded sample is held  *)
(* against (link.ts, store.ts).                                            *)
(*                                                                         *)
(* Time is counted in poll intervals, and of the rows of a contact only    *)
(* the age of the newest matters: nextDueMonitor orders by MAX(ts), and    *)
(* trimTelemetry removes a contact's newest row last.  A reading carries   *)
(* two values of one metric, v then w, because an answer may list a metric *)
(* twice; v = w stands for one value, since a rule that has just been held *)
(* against a value does not move when it meets that value again.           *)
(***************************************************************************)
EXTENDS Integers, FiniteSets, Sequences

CONSTANTS Contacts,   \* remote contacts
          Silent,     \* the ones that never answer: out of reach, or no permission
          Own,        \* the radio itself, contact_key NULL
          Values,     \* values of a metric
          RuleSpecs,  \* what a rule may say: [subject, comparator, threshold]
          Rules,      \* ids of alert rules, never used twice (AUTOINCREMENT)
          Retention,  \* intervals a row is kept; bounds the ages
          MaxEvents,  \* events of a rule that are remembered here
          MaxAsked    \* bound: requests of users under way

ASSUME MonitorAssumption ==
  /\ Own \notin Contacts /\ Silent \subseteq Contacts
  /\ Values \subseteq Int /\ Retention \in Nat /\ MaxEvents \in Nat \ {0} /\ MaxAsked \in Nat
  /\ RuleSpecs \subseteq [subject : Contacts \cup {Own}, comparator : {"below", "above"}, threshold : Int]

VARIABLES
  conn,      \* the link: "down", "syncing" or "up"
  battery,   \* a battery request is under way on this connection
  asked,     \* telemetry requests under way: [contact, by]
  monitors,  \* the table telemetry_monitors
  newest,    \* age of the newest row of each contact, or None
  rules,     \* telemetry_alert_rules and the events each has fired
  heard      \* per rule: the last value recorded since it was added, if any

vars == <<conn, battery, asked, monitors, newest, rules, heard>>

None     == -1
NoRule   == [subject |-> Own, comparator |-> "none", threshold |-> 0]
Requests == [contact : Contacts, by : {"poll", "user"}]
Ages     == 0..Retention + 1    \* the last one stands for all that are too old
\* life: a rule is added once and removed at most once; its events stay.
RuleRows == [spec : RuleSpecs \cup {NoRule}, life : {"unborn", "live", "removed"},
             state : {"ok", "breached"}, events : Seq({"breach", "recover"})]

TypeOK ==
  /\ conn \in {"down", "syncing", "up"} /\ battery \in BOOLEAN
  /\ asked \subseteq Requests
  /\ monitors \subseteq Contacts
  /\ newest \in [Contacts -> Ages \cup {None}]
  /\ rules \in [Rules -> RuleRows]
  /\ heard \in [Rules -> {<<>>} \cup {<<v>> : v \in Values}]
  /\ conn = "down" => asked = {} /\ ~battery
  /\ \A i \in Rules : rules[i].life = "unborn" <=> rules[i].spec = NoRule

Init ==
  /\ conn = "down" /\ battery = FALSE /\ asked = {} /\ monitors = {}
  /\ newest = [c \in Contacts |-> None]
  /\ rules = [i \in Rules |-> [spec |-> NoRule, life |-> "unborn", state |-> "ok", events |-> <<>>]]
  /\ heard = [i \in Rules |-> <<>>]

---------------------------------------------------------------------------
(* evaluateAlerts.                                                         *)

Breached(spec, v) == IF spec.comparator = "below" THEN v < spec.threshold ELSE v > spec.threshold
StateFor(spec, v) == IF Breached(spec, v) THEN "breached" ELSE "ok"
Direction(state)  == IF state = "breached" THEN "breach" ELSE "recover"

\* The events are history: the oldest is forgotten beyond MaxEvents.
Fired(events, d) == Append(IF Len(events) < MaxEvents THEN events ELSE Tail(events), d)

\* Faulty variant: the alert is fired and the state of the rule is not updated.
HeldSilently(r, v) ==
  LET s == StateFor(r.spec, v)
  IN  IF s = r.state THEN r ELSE [r EXCEPT !.events = Fired(@, Direction(s))]

\* One rule held against one value: it moves and fires when its state changes.
Held(r, v) ==
  LET s == StateFor(r.spec, v)
  IN  IF s = r.state THEN r ELSE [r EXCEPT !.state = s, !.events = Fired(@, Direction(s))]

Concerns(i, subject) == rules[i].life = "live" /\ rules[i].spec.subject = subject

\* Faulty variant: only the first value of an answer is looked at.
EvaluateFirst(subject, v, w) ==
  /\ rules' = [i \in Rules |-> IF Concerns(i, subject) THEN Held(rules[i], v) ELSE rules[i]]
  /\ heard' = [i \in Rules |-> IF Concerns(i, subject) THEN <<w>> ELSE heard[i]]

\* The values of one answer, one after the other, against every rule about its sender.
EvaluateAlerts(subject, v, w) ==
  /\ rules' = [i \in Rules |-> IF Concerns(i, subject) THEN Held(Held(rules[i], v), w) ELSE rules[i]]
  /\ heard' = [i \in Rules |-> IF Concerns(i, subject) THEN <<w>> ELSE heard[i]]

---------------------------------------------------------------------------
(* The link and its two timers.                                            *)

\* initialSync ends with a battery snapshot.
Syncs ==
  /\ conn = "down" /\ conn' = "syncing" /\ battery' = TRUE
  /\ UNCHANGED <<asked, monitors, newest, rules, heard>>

\* The battery is answered, or the read fails, which is logged: either way the
\* sync it belongs to is over.
BatteryEnds == battery /\ battery' = FALSE /\ conn' = "up" /\ UNCHANGED <<asked, monitors>>

\* trimTelemetry, which follows every insert: rows older than Retention go.
TrimTelemetry == [c \in Contacts |-> IF newest[c] > Retention THEN None ELSE newest[c]]

BatteryRead == BatteryEnds /\ newest' = TrimTelemetry /\ \E v \in Values : EvaluateAlerts(Own, v, v)

BatteryFails == BatteryEnds /\ UNCHANGED <<newest, rules, heard>>

BatteryTimer ==
  /\ conn = "up" /\ ~battery /\ battery' = TRUE
  /\ UNCHANGED <<conn, asked, monitors, newest, rules, heard>>

\* Requests of a connection that is gone are cancelled or time out in vain.
Lost ==
  /\ conn # "down" /\ conn' = "down" /\ battery' = FALSE /\ asked' = {}
  /\ UNCHANGED <<monitors, newest, rules, heard>>

\* Faulty variant: an inner join, which leaves out who has no sample yet.
NextPolled ==
  {c \in monitors : newest[c] # None /\ \A d \in monitors : newest[c] >= newest[d]}

\* Never polled first, then the oldest sample; equal times in any order.
NextDue ==
  {c \in monitors : \A d \in monitors :
     newest[c] = None \/ (newest[d] # None /\ newest[c] >= newest[d])}

Older(age) == IF age = None \/ age > Retention THEN age ELSE age + 1

Polling == \E q \in asked : q.by = "poll"

\* One interval passes.  The poll timer asks one contact; its answer or its
\* timeout comes within the interval, which is five minutes at least.
Tick ==
  /\ ~Polling
  /\ newest' = [c \in Contacts |-> Older(newest[c])]
  /\ IF conn = "up" /\ NextDue # {}
     THEN \E c \in NextDue : asked' = asked \cup {[contact |-> c, by |-> "poll"]}
     ELSE asked' = asked
  /\ UNCHANGED <<conn, battery, monitors, rules, heard>>

---------------------------------------------------------------------------
(* Requests to contacts: requestTelemetry.                                 *)

\* requireConnection lets a user ask while the link is still syncing.
UserAsks(c) ==
  /\ conn # "down" /\ Cardinality({q \in asked : q.by = "user"}) < MaxAsked
  /\ asked' = asked \cup {[contact |-> c, by |-> "user"]}
  /\ UNCHANGED <<conn, battery, monitors, newest, rules, heard>>

Answered(q) ==
  /\ q \in asked /\ q.contact \notin Silent
  /\ asked' = asked \ {q} /\ newest' = [TrimTelemetry EXCEPT ![q.contact] = 0]
  /\ UNCHANGED <<conn, battery, monitors>>

NumericAnswer(q) == Answered(q) /\ \E v, w \in Values : EvaluateAlerts(q.contact, v, w)

\* Readings without a number are recorded and meet no rule.
OtherAnswer(q) == Answered(q) /\ UNCHANGED <<rules, heard>>

\* An empty answer is not recorded, so the contact stays as overdue as it was.
NoAnswer(q) ==
  /\ q \in asked /\ q.contact \in Silent
  /\ asked' = asked \ {q}
  /\ UNCHANGED <<conn, battery, monitors, newest, rules, heard>>

---------------------------------------------------------------------------
(* The user's monitors and rules.                                          *)

AddMonitor(c) ==
  /\ c \notin monitors /\ monitors' = monitors \cup {c}
  /\ UNCHANGED <<conn, battery, asked, newest, rules, heard>>

RemoveMonitor(c) ==
  /\ c \in monitors /\ monitors' = monitors \ {c}
  /\ UNCHANGED <<conn, battery, asked, newest, rules, heard>>

AddRule(i, s) ==
  /\ rules[i].life = "unborn"
  /\ rules' = [rules EXCEPT ![i] = [spec |-> s, life |-> "live", state |-> "ok", events |-> <<>>]]
  /\ UNCHANGED <<conn, battery, asked, monitors, newest, heard>>

RemoveRule(i) ==
  /\ rules[i].life = "live"
  /\ rules' = [rules EXCEPT ![i].life = "removed"]
  /\ UNCHANGED <<conn, battery, asked, monitors, newest, heard>>

---------------------------------------------------------------------------
Answer(q) == NumericAnswer(q) \/ OtherAnswer(q) \/ NoAnswer(q)

Next ==
  \/ Syncs \/ BatteryRead \/ BatteryFails \/ BatteryTimer \/ Lost \/ Tick
  \/ \E c \in Contacts : UserAsks(c) \/ AddMonitor(c) \/ RemoveMonitor(c)
  \/ \E q \in Requests : Answer(q)
  \/ \E i \in Rules : RemoveRule(i) \/ \E s \in RuleSpecs : AddRule(i, s)

Spec == Init /\ [][Next]_vars

\* Time passes, and a request is answered or runs into its timeout.
FairSpec == Spec /\ WF_vars(Tick) /\ \A q \in Requests : WF_vars(Answer(q))

---------------------------------------------------------------------------
(* What is promised.                                                       *)

\* The alerts of a rule alternate, starting with a breach, and the rule is in
\* the state its last alert announced: a subscriber who follows the events of
\* evaluateAlerts knows the state of the rule, and hears of no change twice.
AlertsAlternate ==
  \A i \in Rules : LET r == rules[i] IN
    /\ \A k \in 1..Len(r.events) - 1 : r.events[k] # r.events[k + 1]
    /\ r.state = IF r.events # <<>> /\ r.events[Len(r.events)] = "breach" THEN "breached" ELSE "ok"

\* Every recorded sample passes through evaluateAlerts: a live rule is always in
\* the state that the last value recorded for it calls for, over polls, requests
\* of users and battery reads, and in "ok" while there has been none.
RuleTellsLastSample ==
  \A i \in Rules : rules[i].life = "live" =>
    rules[i].state = IF heard[i] = <<>> THEN "ok" ELSE StateFor(rules[i].spec, heard[i][1])

\* The round-robin is fair: while the link stays up and only contacts that answer
\* are monitored, each of them is asked, and answers, again and again.
MonitorsServed ==
  \A c \in Contacts :
    <>[](conn = "up" /\ c \in monitors /\ monitors \cap Silent = {}) => []<>(newest[c] = 0)
=============================================================================
