-------------------------- MODULE MCWebhookPolicy --------------------------
(* What the functions of WebhookPolicy promise, evaluated before the queue *)
(* is explored.                                                            *)
EXTENDS WebhookPolicy

\* IPv4 blocks that no public receiver has, as <<first, last>> of their two
\* leading octets (a * 256 + b): local, shared, documentation, multicast.
Blocks4 == {<<0, 255>>, <<2560, 2815>>, <<25664, 25727>>, <<32512, 32767>>, <<43518, 43518>>,
            <<44048, 44063>>, <<49152, 49152>>, <<49320, 49320>>, <<50706, 50707>>,
            <<50739, 50739>>, <<51968, 51968>>, <<57344, 65535>>}

\* "Reject local, multicast, documentation, CGNAT": the test agrees with the
\* blocks on every pair of octets.
ASSUME AddressesClassified ==
  \A a, b \in 0..255 : IsForbidden4(a, b) <=> \E r \in Blocks4 : a * 256 + b \in r[1]..r[2]

Groups6 == {0, 1, 255, 8193, 64512, 65152, 65280, 65535}

\* An address is read the same whichever run of zeros its "::" stands for, and
\* a mapped IPv4 address is judged as that address.
ASSUME CompressionTransparent ==
  /\ \A x, y \in Groups6 : \A n \in 0..6 :
       LET full == [i \in 1..8 |-> IF i = 1 THEN x ELSE IF i = 8 THEN y ELSE 0] IN
       /\ Ipv6Groups(SubSeq(full, 1, 1 + n), SubSeq(full, 8, 8), TRUE) = full
       /\ Ipv6Groups(full, <<>>, FALSE) = full
  /\ \A a, b \in 0..255 :
       IsForbidden6(<<0, 0, 0, 0, 0, 65535, a * 256 + b, 0>>) <=> IsForbidden4(a, b)
  /\ \A g \in {<<>>, <<1, 2, 3>>} : IsForbidden6(Ipv6Groups(g, <<>>, FALSE))

\* What management accepts by name is never refused by the worker's own check, and
\* one reserved address among the answers of the resolver is enough to refuse it.
ASSUME NamesStayAcceptable ==
  /\ \A u \in Urls : NormalizeWebhookDestination(u) /\ u.host = "name" => ValidateWebhookDestination(u)
  /\ \A x, y \in {<<>>, <<"public">>, <<"reserved">>} :
       Reachable(x \o y) => (x = <<>> \/ Reachable(x)) /\ (y = <<>> \/ Reachable(y))

Radios == {1, 2}
ASub(types, ids, sensitive, state, key) ==
  [eventTypes |-> types, radioIds |-> ids, includeSensitive |-> sensitive, state |-> state, key |-> key,
   destination |-> [https |-> TRUE, extras |-> {}, host |-> "name"]]
SampleTypes == {"message.created", "contact.updated", "radio.status_changed"}
SampleSubs  == {ASub(t, r, s, st, k) : t \in SUBSET SampleTypes, r \in (SUBSET Radios) \cup {None},
                s \in BOOLEAN, st \in {"active", "paused"}, k \in {0, 1}}
SampleEvents == [type : {"message.new", "contact.updated", "timeline.event", "status.changed", "self.updated"},
                 radio : Radios \cup {None}, kind : {"link", "advert"}, inRange : BOOLEAN]

\* An envelope goes only where its type and its radio were asked for, and with
\* text or coordinates only after consent.
ASSUME OnlyAskedFor ==
  \A e \in SampleEvents, s \in SampleSubs :
    LET p == ProjectWsEvent(e, s) IN
    p = None \/ /\ p.type \in s.eventTypes
                /\ s.radioIds # None => p.radio \in s.radioIds
                /\ ~s.includeSensitive => {"text", "lat", "lon"} \cap p.fields = {}

\* Coordinates in range: every subscription that can be signed for and wants the
\* event gets it, whatever the others are.
ASSUME EverySubscriberServed ==
  LET few == {s \in SampleSubs : s.eventTypes \in {{}, {"contact.updated"}} /\ s.radioIds \in {None, {1}}} IN
  \A e \in {x \in SampleEvents : x.inRange} : \A a, b \in few :
    Enqueue(e, <<a, b>>) =
      {i \in 1..2 : LET s == <<a, b>>[i] IN
                    s.state = "active" /\ s.key # 0 /\ ProjectWsEvent(e, s) # None}

Bodies == [includeSensitive : {Unset, "yes", "no"}, confirm : BOOLEAN, radioIds : {Unset, None, {1}, {9}},
           destination : {Unset} \cup {u \in Urls : Cardinality(u.extras) <= 1}, state : {Unset, "active", "paused"}]

\* A test is let through where events are, for the same subscriptions.
ASSUME TestsReachWhoEventsReach ==
  \A s \in {x \in SampleSubs : x.eventTypes = {"contact.updated"} /\ x.radioIds = None} :
    LET event == [type |-> "contact.updated", radio |-> 1, kind |-> "link", inRange |-> TRUE] IN
    /\ Enqueue(event, <<s>>) = {1} <=> TestAnswer(s, 60) = 202
    /\ TestAnswer(s, 59) # 202 /\ TestAnswer(None, 60) = 404

\* Consent is only gained with a confirmation, and an accepted subscription names
\* stored radios and an acceptable destination.
ASSUME ConsentConfirmed ==
  \A s \in {x \in SampleSubs : x.eventTypes = {} /\ x.radioIds \in {None, {1}}}, body \in Bodies :
    LET p == Patch(s, body, Radios) IN
    p.accepted => /\ p.subscription.includeSensitive /\ ~s.includeSensitive => body.confirm
                  /\ Known(p.subscription.radioIds, Radios)
                  /\ NormalizeWebhookDestination(p.subscription.destination)

\* So it is for a subscription that is created, as one of at most twenty.
ASSUME CreationConfirmed ==
  \A body \in {b \in Bodies : b.radioIds # Unset /\ b.destination # Unset}, n \in {0, 19, 20} :
    LET c == Create(body, n, Radios) IN
    c.accepted => /\ c.includeSensitive => body.confirm
                  /\ n < 20 /\ Known(body.radioIds, Radios)
                  /\ NormalizeWebhookDestination(body.destination)

\* A retry comes within the cap, later draws never sooner, later attempts never
\* with less room; a Retry-After is honoured within the same cap and rounds up.
ASSUME DelaysBounded ==
  /\ \A n \in 0..12, d \in 0..999 : RetryDelaySeconds(n, d) \in 0..AfterCap
  /\ \A n \in 0..11 : RetryDelaySeconds(n, 999) <= RetryDelaySeconds(n + 1, 999)
  /\ \A v \in {0, 1, AfterCap, AfterCap + 1} :
       RetryAfterSeconds([kind |-> "seconds", value |-> v], 0) = IF v > AfterCap THEN AfterCap ELSE v
  /\ \A then, now \in 0..2500 : then % 50 = 0 /\ now % 50 = 0 =>
       LET s == RetryAfterSeconds([kind |-> "date", value |-> then], now) IN
       s >= 0 /\ now + 1000 * s >= then /\ (s > 0 => now + 1000 * (s - 1) < then)

\* After any rotation the replaced key signs for a day and no longer, and the new
\* one for good; older keys are not prolonged.
ASSUME ReplacedKeyRetires ==
  \A t1, t2 \in {0, 100, 86400, 90000} : t1 <= t2 =>
    LET first  == <<[retireAt |-> -1, deleted |-> FALSE]>>
        keys   == Rotated(Rotated(first, 1, t1), 2, t2)
    IN  \A at \in {t1, t1 + 86399, t1 + 86400, t2 + 86399, t2 + 86400} :
          /\ GetWebhookSigningKey(keys, 1, at) <=> at < t1 + 86400
          /\ GetWebhookSigningKey(keys, 2, at) <=> at < t2 + 86400
          /\ GetWebhookSigningKey(keys, 3, at)
===========================================================================
