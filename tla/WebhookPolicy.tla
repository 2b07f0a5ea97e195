--------------------------- MODULE WebhookPolicy ---------------------------
(***************************************************************************)
(* What a webhook subscription may be, which events it receives and what   *)
(* of them, when a delivery is tried again and with which key it is signed:*)
(* the functions of routes.ts, worker.ts, store.ts and the shared package  *)
(* that the queue of WebhookQueue is built on.  MCWebhookPolicy evaluates  *)
(* what they promise over bounded inputs.                                  *)
(***************************************************************************)
EXTENDS Integers, FiniteSets, Sequences

CONSTANTS
  None,   \* null: no radio, no filter, no envelope, no host
  Unset   \* a field a request leaves out

---------------------------------------------------------------------------
(* Destinations.  A URL is what the code asks of it: its scheme, what it   *)
(* carries beside the host (credentials, a fragment, a port other than     *)
(* 443), and its host, which is a name or a literal address.               *)

Extras    == {"credentials", "fragment", "port"}
HostKinds == {None, "name", "v4public", "v4reserved", "v6public", "v6reserved"}
Urls      == [https : BOOLEAN, extras : SUBSET Extras, host : HostKinds]

Plain(url) == url.https /\ url.extras = {} /\ url.host # None

\* The management routes want a name; an IPv6 literal keeps its brackets and
\* is taken for one.
NormalizeWebhookDestination(url) == Plain(url) /\ url.host \notin {"v4public", "v4reserved"}

\* The worker, before each attempt.
ValidateWebhookDestination(url) == Plain(url) /\ url.host \notin {"v4reserved", "v6reserved"}

\* The first two octets of an IPv4 address decide.
IsForbidden4(a, b) ==
  \/ a \in {0, 10, 127} \/ a >= 224
  \/ a = 169 /\ b = 254
  \/ a = 172 /\ b \in 16..31
  \/ a = 192 /\ b \in {0, 168}
  \/ a = 198 /\ b \in {18, 19, 51}
  \/ a = 203 /\ b = 0
  \/ a = 100 /\ b \in 64..127

\* Groups of an IPv6 address around its "::", as many zeros as are missing.
Ipv6Groups(left, right, compressed) ==
  LET missing == 8 - Len(left) - Len(right) IN
  IF missing < 0 \/ (~compressed /\ missing # 0) THEN <<>>
  ELSE left \o [i \in 1..missing |-> 0] \o right

\* The groups of 16 bits are tested byte by byte, as the code does.
IsForbidden6(g) ==
  LET hi(x) == x \div 256
      lo(x) == x % 256
  IN  \/ g = <<>>
      \/ IF g[6] = 65535 /\ \A i \in 1..5 : g[i] = 0
         THEN IsForbidden4(hi(g[7]), lo(g[7]))
         ELSE \/ \A i \in 1..7 : g[i] = 0 /\ g[8] \in {0, 1}
              \/ hi(g[1]) = 254 /\ lo(g[1]) \div 64 = 2
              \/ hi(g[1]) \div 2 = 126
              \/ hi(g[1]) = 255

\* Every answer of the resolver must be acceptable; the first one is connected to.
Reachable(answers) == answers # <<>> /\ \A i \in 1..Len(answers) : answers[i] # "reserved"

---------------------------------------------------------------------------
(* A subscription as the routes accept it.  A PATCH is parsed with the     *)
(* schema of POST made optional: zod applies the default of a field that   *)
(* is absent, so includeSensitive is never left as it was.                 *)

Confirmed(wanted, had, confirm) == wanted /\ ~had => confirm

Known(radioIds, radios) == radioIds = None \/ radioIds \subseteq radios

Create(body, active, radios) ==
  LET sensitive == body.includeSensitive = "yes" IN
  [accepted |-> /\ Confirmed(sensitive, FALSE, body.confirm)
                /\ active < 20
                /\ Known(body.radioIds, radios)
                /\ NormalizeWebhookDestination(body.destination),
   includeSensitive |-> sensitive]

ParsedSensitive(body) == IF body.includeSensitive = Unset THEN FALSE ELSE body.includeSensitive = "yes"

Patch(existing, body, radios) ==
  LET sensitive == ParsedSensitive(body)
      ids       == IF body.radioIds = Unset THEN existing.radioIds ELSE body.radioIds
      url       == IF body.destination = Unset THEN existing.destination ELSE body.destination
  IN  [accepted |-> /\ Confirmed(sensitive, existing.includeSensitive, body.confirm)
                    /\ Known(ids, radios)
                    /\ body.destination # Unset => NormalizeWebhookDestination(url),
       subscription |-> [existing EXCEPT !.includeSensitive = sensitive, !.radioIds = ids,
                                         !.destination = url,
                                         !.state = IF body.state = Unset THEN @ ELSE body.state]]

\* POST .../test: queued like any event, once a minute, while deliveries can be signed.
TestAnswer(sub, sinceLast) ==
  CASE sub = None -> 404
    [] sub # None /\ (sub.state # "active" \/ sub.key = 0) -> 409
    [] sub # None /\ sub.state = "active" /\ sub.key # 0 -> IF sinceLast < 60 THEN 429 ELSE 202

---------------------------------------------------------------------------
(* Events.  An event of the bus is [type, radio, fields]; the projection   *)
(* keeps the fields of the contract and adds the sensitive ones only with  *)
(* the subscription's consent.                                             *)

ExternalType(event) ==
  CASE event.type = "message.new"      -> "message.created"
    [] event.type = "message.status"   -> "message.status_changed"
    [] event.type = "contact.updated"  -> "contact.updated"
    [] event.type = "contact.removed"  -> "contact.removed"
    [] event.type = "telemetry"        -> "telemetry.received"
    [] event.type = "telemetry.alert"  -> "telemetry.alert_triggered"
    [] event.type = "timeline.event"   -> IF event.kind = "link" THEN "radio.link_changed" ELSE None
    [] event.type = "status.changed"   -> IF event.radio = None THEN None ELSE "radio.status_changed"
    [] event.type = "self.updated"     -> None

Sensitive(type) == CASE type = "message.created" -> {"text"}
                     [] type = "contact.updated" -> {"lat", "lon"}
                     [] OTHER -> {}

\* What the contract names for each type (connection errors as codes).
Contract(type) ==
  CASE type = "message.created" -> {"id", "kind", "direction", "contactKey", "contactName", "channelIdx",
                                    "channelName", "senderTimestamp", "status", "createdAt"}
    [] type = "message.status_changed"    -> {"messageId", "status"}
    [] type = "contact.updated"           -> {"publicKey", "name", "type", "flags", "outPathLen", "lastAdvert", "lastSeen"}
    [] type = "contact.removed"           -> {"publicKey"}
    [] type = "telemetry.received"        -> {"batteryMilliVolts", "ts"}
    [] type = "telemetry.alert_triggered" -> {"id", "ruleId", "contactKey", "contactName", "metric", "label",
                                              "value", "threshold", "comparator", "direction", "ts"}
    [] type = "radio.link_changed"        -> {"state", "transport", "label", "errorCode"}
    [] type = "radio.status_changed"      -> {"state", "transport", "connectedAt", "counts"}

Allowed(type, radio, sub) == type \in sub.eventTypes /\ (sub.radioIds = None \/ radio \in sub.radioIds)

ProjectWsEvent(event, sub) ==
  LET type == ExternalType(event) IN
  IF type = None THEN None
  ELSE IF ~Allowed(type, event.radio, sub) THEN None
  ELSE [type |-> type, radio |-> event.radio,
        fields |-> Contract(type) \cup (IF sub.includeSensitive THEN Sensitive(type) ELSE {})]

\* The schema the envelope is parsed with refuses coordinates out of range, and
\* enqueue has no catch: the subscriptions after this one get nothing.
Parses(event, envelope) == event.inRange \/ {"lat", "lon"} \cap envelope.fields = {}

\* The subscriptions, by id, that an event is queued for.
Enqueue(event, subs) ==
  LET listed == {i \in 1..Len(subs) : subs[i].state = "active" /\ subs[i].key # 0}
      wants  == {i \in listed : ProjectWsEvent(event, subs[i]) # None}
      throws == {i \in wants : ~Parses(event, ProjectWsEvent(event, subs[i]))}
  IN  {i \in wants : \A j \in throws : i < j}

---------------------------------------------------------------------------
(* Retries and keys.                                                       *)

AfterCap == 6 * 60 * 60

\* draw / 1000 is what the random source returned, below 1.
RetryDelaySeconds(attempt, draw) ==
  LET doubled == 30 * 2 ^ (IF attempt > 1 THEN attempt - 1 ELSE 0)
      ceiling == IF doubled < AfterCap THEN doubled ELSE AfterCap
  IN  (draw * (ceiling + 1)) \div 1000

\* A Retry-After header: absent or unreadable, a number of seconds, or a date.
RetryAfterSeconds(header, nowMs) ==
  LET capped(s) == IF s < AfterCap THEN s ELSE AfterCap
      ceil(ms)  == (ms + 999) \div 1000
  IN  CASE header.kind = "seconds" -> capped(header.value)
        [] header.kind = "date"    -> LET s == capped(ceil(header.value - nowMs)) IN IF s > 0 THEN s ELSE 0
        [] OTHER -> -1

\* A key signs until it retires, a day after its successor was created.
Rotated(keys, active, at) ==
  Append([i \in 1..Len(keys) |-> IF i = active THEN [keys[i] EXCEPT !.retireAt = at + 86400] ELSE keys[i]],
         [retireAt |-> -1, deleted |-> FALSE])

GetWebhookSigningKey(keys, i, at) ==
  i \in 1..Len(keys) /\ ~keys[i].deleted /\ (keys[i].retireAt = -1 \/ keys[i].retireAt > at)
===========================================================================
