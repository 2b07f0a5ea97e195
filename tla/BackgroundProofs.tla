-------------------------- MODULE BackgroundProofs --------------------------
(***************************************************************************)
(* Proofs about TelemetryMonitors, for any contacts, values, rules and     *)
(* number of events that are remembered, and about BrowserAccess, for any  *)
(* endpoints, tabs and logins.                                             *)
(***************************************************************************)
EXTENDS TelemetryMonitors, BrowserAccess, FiniteSetTheorems, TLAPS

---------------------------------------------------------------------------
(* TelemetryMonitors.  One rule held against one value is the heart of it  *)
(* (HeldOK); the rest is which rows a step touches.                        *)

LinkOK ==
  /\ conn \in {"down", "syncing", "up"} /\ battery \in BOOLEAN
  /\ asked \subseteq Requests
  /\ monitors \subseteq Contacts
  /\ newest \in [Contacts -> Ages \cup {None}]
  /\ conn = "down" => asked = {} /\ ~battery

HeardOK == heard \in [Rules -> {<<>>} \cup {<<v>> : v \in Values}]

RulesOK ==
  /\ rules \in [Rules -> RuleRows]
  /\ \A i \in Rules : rules[i].life = "unborn" <=> rules[i].spec = NoRule

\* What a rule and its events owe each other.
Alternates(r) ==
  /\ \A k \in 1..Len(r.events) - 1 : r.events[k] # r.events[k + 1]
  /\ r.state = IF r.events # <<>> /\ r.events[Len(r.events)] = "breach" THEN "breached" ELSE "ok"

\* Nothing was heard for a rule that has not been added.
Unheard == \A i \in Rules : rules[i].life = "unborn" => heard[i] = <<>>

IInv == LinkOK /\ HeardOK /\ RulesOK /\ AlertsAlternate /\ RuleTellsLastSample /\ Unheard

LEMMA InvariantImplies == IInv => TypeOK
<1>1. IInv => battery \in BOOLEAN
  BY Zenon DEF IInv, LinkOK
<1> QED
  BY <1>1 DEF IInv, TypeOK, LinkOK, HeardOK, RulesOK

---------------------------------------------------------------------------
(* One rule.                                                               *)

\* An added event differs from the last one and is remembered as the last.
LEMMA FiredOK ==
  ASSUME NEW s \in Seq({"breach", "recover"}), NEW d \in {"breach", "recover"},
         \A k \in 1..Len(s) - 1 : s[k] # s[k + 1],
         s # <<>> => s[Len(s)] # d
  PROVE  /\ Fired(s, d) \in Seq({"breach", "recover"})
         /\ Fired(s, d) # <<>> /\ Fired(s, d)[Len(Fired(s, d))] = d
         /\ \A k \in 1..Len(Fired(s, d)) - 1 : Fired(s, d)[k] # Fired(s, d)[k + 1]
<1>1. CASE Len(s) < MaxEvents
  <2>1. Fired(s, d) = Append(s, d)
    BY <1>1 DEF Fired
  <2> QED
    BY <2>1
<1>2. CASE ~(Len(s) < MaxEvents)
  <2>1. Fired(s, d) = Append(Tail(s), d)
    BY <1>2 DEF Fired
  <2>2. s # <<>>
    BY <1>2, MonitorAssumption
  <2>3. Tail(s) \in Seq({"breach", "recover"}) /\ Len(Tail(s)) = Len(s) - 1
        /\ \A k \in 1..Len(Tail(s)) : Tail(s)[k] = s[k + 1]
    BY <2>2
  <2>4. \A k \in 1..Len(Tail(s)) - 1 : Tail(s)[k] # Tail(s)[k + 1]
    BY <2>3
  <2>5. Tail(s) # <<>> => Tail(s)[Len(Tail(s))] # d
    BY <2>2, <2>3
  <2> DEFINE t == Tail(s)
  <2>6. t \in Seq({"breach", "recover"})
    BY <2>3
  <2> HIDE DEF t
  <2>7. /\ Append(t, d) \in Seq({"breach", "recover"})
        /\ Append(t, d) # <<>> /\ Append(t, d)[Len(Append(t, d))] = d
    BY <2>6
  <2>8. \A k \in 1..Len(Append(t, d)) - 1 : Append(t, d)[k] # Append(t, d)[k + 1]
    BY <2>4, <2>5, <2>6 DEF t
  <2> QED
    BY <2>1, <2>7, <2>8 DEF t
<1> QED
  BY <1>1, <1>2

\* A rule held against a value keeps its bargain with its events, and ends in the
\* state the value calls for.
LEMMA HeldOK ==
  ASSUME NEW r \in RuleRows, NEW v, Alternates(r)
  PROVE  /\ Held(r, v) \in RuleRows /\ Alternates(Held(r, v))
         /\ Held(r, v).state = StateFor(r.spec, v)
         /\ Held(r, v).spec = r.spec /\ Held(r, v).life = r.life
<1> DEFINE s == StateFor(r.spec, v)
           d == Direction(s)
<1>1. s \in {"ok", "breached"} /\ d = (IF s = "breached" THEN "breach" ELSE "recover")
  BY DEF StateFor, Direction
<1> HIDE DEF s, d
<1>2. CASE s = r.state
  BY <1>2 DEF Held, s
<1>3. CASE s # r.state
  <2>1. Held(r, v) = [r EXCEPT !.state = s, !.events = Fired(r.events, d)]
    BY <1>3 DEF Held, s, d
  <2>2. r.events \in Seq({"breach", "recover"}) /\ d \in {"breach", "recover"}
    BY <1>1 DEF RuleRows
  <2>3. r.events # <<>> => r.events[Len(r.events)] \in {"breach", "recover"}
    BY <2>2
  <2>4. r.events # <<>> => r.events[Len(r.events)] # d
    BY <1>1, <1>3, <2>3 DEF Alternates
  <2> DEFINE f == Fired(r.events, d)
  <2>5. /\ f \in Seq({"breach", "recover"}) /\ f # <<>> /\ f[Len(f)] = d
        /\ \A k \in 1..Len(f) - 1 : f[k] # f[k + 1]
    BY <2>2, <2>4, FiredOK DEF Alternates
  <2> HIDE DEF f
  <2>6. Held(r, v) = [r EXCEPT !.state = s, !.events = f]
    BY <2>1 DEF f
  <2>7. Held(r, v) = [spec |-> r.spec, life |-> r.life, state |-> s, events |-> f]
    BY <2>6 DEF RuleRows
  <2>8. Alternates(Held(r, v))
    BY <1>1, <2>5, <2>7 DEF Alternates
  <2> QED
    BY <1>1, <2>5, <2>7, <2>8 DEF RuleRows, s
<1> QED
  BY <1>2, <1>3

---------------------------------------------------------------------------
(* The rules in a step.                                                    *)

RulePart == HeardOK /\ RulesOK /\ AlertsAlternate /\ RuleTellsLastSample /\ Unheard

LEMMA EvaluateOK ==
  ASSUME RulePart, NEW subject, NEW v \in Values, NEW w \in Values, EvaluateAlerts(subject, v, w)
  PROVE  RulePart'
<1> USE DEF RulePart
<1>1. \A i \in Rules : rules[i] \in RuleRows /\ Alternates(rules[i])
  BY DEF RulesOK, AlertsAlternate, Alternates
<1>2. \A i \in Rules : Concerns(i, subject) =>
        /\ rules'[i] = Held(Held(rules[i], v), w) /\ heard'[i] = <<w>>
        /\ rules'[i] \in RuleRows /\ Alternates(rules'[i])
        /\ rules'[i].state = StateFor(rules[i].spec, w)
        /\ rules'[i].spec = rules[i].spec /\ rules'[i].life = rules[i].life /\ rules[i].life = "live"
  <2> SUFFICES ASSUME NEW i \in Rules, Concerns(i, subject)
               PROVE  /\ rules'[i] = Held(Held(rules[i], v), w) /\ heard'[i] = <<w>>
                      /\ rules'[i] \in RuleRows /\ Alternates(rules'[i])
                      /\ rules'[i].state = StateFor(rules[i].spec, w)
                      /\ rules'[i].spec = rules[i].spec /\ rules'[i].life = rules[i].life
                      /\ rules[i].life = "live"
    OBVIOUS
  <2>1. rules'[i] = Held(Held(rules[i], v), w) /\ heard'[i] = <<w>> /\ rules[i].life = "live"
    BY DEF EvaluateAlerts, Concerns
  <2>2. /\ Held(rules[i], v) \in RuleRows /\ Alternates(Held(rules[i], v))
        /\ Held(rules[i], v).spec = rules[i].spec /\ Held(rules[i], v).life = rules[i].life
    BY <1>1, HeldOK
  <2> DEFINE r == Held(rules[i], v)
  <2>3. /\ Held(r, w) \in RuleRows /\ Alternates(Held(r, w))
        /\ Held(r, w).state = StateFor(r.spec, w)
        /\ Held(r, w).spec = r.spec /\ Held(r, w).life = r.life
    <3> HIDE DEF r
    <3>1. r \in RuleRows /\ Alternates(r)
      BY <2>2 DEF r
    <3> QED
      BY <3>1, HeldOK
  <2> QED
    BY <2>1, <2>2, <2>3
<1>3. \A i \in Rules : ~Concerns(i, subject) => rules'[i] = rules[i] /\ heard'[i] = heard[i]
  BY DEF EvaluateAlerts
<1>4. \A i \in Rules : rules'[i] \in RuleRows /\ Alternates(rules'[i])
  BY <1>1, <1>2, <1>3
<1>5. HeardOK'
  BY DEF EvaluateAlerts, HeardOK
<1>6. rules' \in [Rules -> RuleRows]
  <2>1. rules' = [i \in Rules |-> rules'[i]]
    BY DEF EvaluateAlerts
  <2> QED
    BY <1>4, <2>1
<1>7. RulesOK'
  BY <1>2, <1>3, <1>6 DEF RulesOK
<1>8. AlertsAlternate'
  BY <1>4 DEF AlertsAlternate, Alternates
<1>9. RuleTellsLastSample'
  <2> SUFFICES ASSUME NEW i \in Rules, rules'[i].life = "live"
               PROVE  rules'[i].state = IF heard'[i] = <<>> THEN "ok" ELSE StateFor(rules'[i].spec, heard'[i][1])
    BY DEF RuleTellsLastSample, StateFor, Breached
  <2>1. CASE Concerns(i, subject)
    <3>1. heard'[i] = <<w>> /\ <<w>> # <<>> /\ <<w>>[1] = w
      BY <1>2, <2>1
    <3> QED
      BY <1>2, <2>1, <3>1
  <2>2. CASE ~Concerns(i, subject)
    BY <1>3, <2>2 DEF RuleTellsLastSample
  <2> QED
    BY <2>1, <2>2
<1>10. Unheard'
  BY <1>2, <1>3 DEF Unheard
<1> QED
  BY <1>5, <1>7, <1>8, <1>9, <1>10

LEMMA AddRuleOK ==
  ASSUME RulePart, NEW i \in Rules, NEW s \in RuleSpecs, AddRule(i, s)
  PROVE  RulePart'
<1> DEFINE r == [spec |-> s, life |-> "live", state |-> "ok", events |-> <<>>]
<1> USE DEF RulePart
<1>1. rules' = [rules EXCEPT ![i] = r] /\ heard' = heard /\ rules[i].life = "unborn"
  BY DEF AddRule
<1>2. r \in RuleRows /\ Alternates(r)
  <2>1. <<>> \in Seq({"breach", "recover"})
    OBVIOUS
  <2> QED
    BY <2>1 DEF RuleRows, Alternates
<1>3. s # NoRule
  BY MonitorAssumption DEF NoRule
<1>4. heard[i] = <<>>
  BY <1>1 DEF Unheard
<1>5. r.spec = s /\ r.life = "live" /\ r.state = "ok"
  OBVIOUS
<1> HIDE DEF r
<1>6. RulesOK'
  BY <1>1, <1>2, <1>3, <1>5 DEF RulesOK
<1>7. AlertsAlternate'
  BY <1>1, <1>2 DEF AlertsAlternate, Alternates, RulesOK
<1>8. RuleTellsLastSample'
  BY <1>1, <1>4, <1>5 DEF RuleTellsLastSample, RulesOK
<1> QED
  BY <1>1, <1>5, <1>6, <1>7, <1>8 DEF Unheard, HeardOK, RulesOK

LEMMA RemoveRuleOK ==
  ASSUME RulePart, NEW i \in Rules, RemoveRule(i)
  PROVE  RulePart'
<1> USE DEF RulePart
<1>1. rules' = [rules EXCEPT ![i].life = "removed"] /\ heard' = heard /\ rules[i].life = "live"
  BY DEF RemoveRule
<1> DEFINE r == rules'[i]
<1>2. /\ r \in RuleRows /\ r.life = "removed" /\ r.spec = rules[i].spec
      /\ r.state = rules[i].state /\ r.events = rules[i].events
  BY <1>1 DEF RulesOK, RuleRows
<1>3. \A j \in Rules \ {i} : rules'[j] = rules[j]
  BY <1>1 DEF RulesOK
<1>4. RulesOK'
  <2>1. rules' = [j \in Rules |-> rules'[j]]
    BY <1>1 DEF RulesOK
  <2>2. \A j \in Rules : rules'[j] \in RuleRows
    BY <1>2, <1>3 DEF RulesOK
  <2> QED
    BY <1>1, <1>2, <1>3, <2>1, <2>2 DEF RulesOK
<1>5. AlertsAlternate'
  BY <1>2, <1>3 DEF AlertsAlternate
<1> QED
  BY <1>1, <1>2, <1>3, <1>4, <1>5 DEF RuleTellsLastSample, Unheard, HeardOK

---------------------------------------------------------------------------
(* The link in a step.                                                     *)

LEMMA TrimOK ==
  ASSUME newest \in [Contacts -> Ages \cup {None}]
  PROVE  TrimTelemetry \in [Contacts -> Ages \cup {None}]
BY DEF TrimTelemetry

LEMMA LinkStep ==
  ASSUME LinkOK, Next
  PROVE  LinkOK'
<1>0. battery' \in BOOLEAN
  BY Zenon DEF LinkOK, Next, Syncs, BatteryEnds, BatteryRead, BatteryFails, BatteryTimer, Lost, Tick, UserAsks,
     Answer, Answered, NumericAnswer, OtherAnswer, NoAnswer, AddMonitor, RemoveMonitor, AddRule, RemoveRule
<1>1. CASE Syncs \/ BatteryTimer \/ Lost
  BY <1>0, <1>1 DEF Syncs, BatteryTimer, Lost, LinkOK
<1>2. CASE BatteryRead \/ BatteryFails
  BY <1>0, <1>2, TrimOK DEF BatteryRead, BatteryFails, BatteryEnds, LinkOK
<1>3. CASE Tick
  <2>1. newest' \in [Contacts -> Ages \cup {None}]
    BY <1>3, MonitorAssumption DEF Tick, Older, LinkOK, Ages, None
  <2>2. asked' \subseteq Requests
    BY <1>3 DEF Tick, LinkOK, NextDue, Requests
  <2> QED
    BY <1>0, <1>3, <2>1, <2>2 DEF Tick, LinkOK
<1>4. ASSUME NEW c \in Contacts, UserAsks(c) \/ AddMonitor(c) \/ RemoveMonitor(c)
      PROVE  LinkOK'
  BY <1>0, <1>4 DEF UserAsks, AddMonitor, RemoveMonitor, LinkOK, Requests
<1>5. ASSUME NEW q \in Requests, NumericAnswer(q) \/ OtherAnswer(q) \/ NoAnswer(q)
      PROVE  LinkOK'
  <2>1. CASE Answered(q)
    <3>1. q.contact \in Contacts /\ 0 \in Ages
      BY MonitorAssumption DEF Requests, Ages
    <3>2. newest' \in [Contacts -> Ages \cup {None}]
      BY <2>1, <3>1, TrimOK DEF Answered, LinkOK
    <3> QED
      BY <1>0, <2>1, <3>2 DEF Answered, LinkOK
  <2>2. CASE NoAnswer(q)
    BY <1>0, <2>2 DEF NoAnswer, LinkOK
  <2> QED
    BY <1>5, <2>1, <2>2 DEF NumericAnswer, OtherAnswer
<1>6. ASSUME NEW i \in Rules, RemoveRule(i) \/ \E s \in RuleSpecs : AddRule(i, s)
      PROVE  LinkOK'
  BY <1>0, <1>6 DEF RemoveRule, AddRule, LinkOK
<1> QED
  BY <1>1, <1>2, <1>3, <1>4, <1>5, <1>6 DEF Next, Answer

LEMMA RuleStep ==
  ASSUME RulePart, Next
  PROVE  RulePart'
<1>1. CASE UNCHANGED <<rules, heard>>
  BY <1>1 DEF RulePart, HeardOK, RulesOK, AlertsAlternate, RuleTellsLastSample, Unheard
<1>2. CASE BatteryRead
  BY <1>2, EvaluateOK DEF BatteryRead
<1>3. ASSUME NEW q \in Requests, NumericAnswer(q)
      PROVE  RulePart'
  BY <1>3, EvaluateOK DEF NumericAnswer
<1>4. ASSUME NEW i \in Rules, RemoveRule(i) \/ \E s \in RuleSpecs : AddRule(i, s)
      PROVE  RulePart'
  BY <1>4, RemoveRuleOK, AddRuleOK
<1> QED
  BY <1>1, <1>2, <1>3, <1>4 DEF Next, Syncs, BatteryFails, BatteryTimer, Lost, Tick, UserAsks,
     Answer, OtherAnswer, NoAnswer, AddMonitor, RemoveMonitor

---------------------------------------------------------------------------

LEMMA InitOK == Init => IInv
<1> SUFFICES ASSUME Init PROVE IInv
  OBVIOUS
<1>1. LinkOK
  <2>1. battery \in BOOLEAN
    BY Zenon DEF Init
  <2> QED
    BY <2>1 DEF Init, LinkOK
<1>2. <<>> \in Seq({"breach", "recover"})
  OBVIOUS
<1>3. RulesOK
  BY <1>2 DEF Init, RulesOK, RuleRows
<1> QED
  BY <1>1, <1>3 DEF Init, IInv, HeardOK, AlertsAlternate, RuleTellsLastSample, Unheard

LEMMA StepOK == IInv /\ [Next]_vars => IInv'
<1> SUFFICES ASSUME IInv, [Next]_vars PROVE IInv'
  OBVIOUS
<1>1. CASE Next
  BY <1>1, LinkStep, RuleStep DEF IInv, RulePart
<1>2. CASE UNCHANGED vars
  BY <1>2 DEF vars, IInv, LinkOK, HeardOK, RulesOK, AlertsAlternate, RuleTellsLastSample, Unheard
<1> QED
  BY <1>1, <1>2

\* Requests, monitors, rules and their events are what they should be, and what a
\* rule tells is what it was told last (store.ts).
THEOREM Invariant == Spec => []IInv
BY InitOK, StepOK, PTL DEF Spec

\* Type correctness of the monitors, the requests under way and the rules.
THEOREM TypeCorrect == Spec => []TypeOK
BY Invariant, InvariantImplies, PTL

\* Breach and recovery alternate for every rule, and its state is the one its last
\* event announced (evaluateAlerts).
THEOREM AlternationCorrect == Spec => []AlertsAlternate
<1>1. IInv => AlertsAlternate
  BY DEF IInv
<1> QED
  BY Invariant, <1>1, PTL

\* A live rule is in the state its last recorded value calls for: no sample passes
\* by evaluateAlerts.
THEOREM LastSampleCorrect == Spec => []RuleTellsLastSample
<1>1. IInv => RuleTellsLastSample
  BY DEF IInv
<1> QED
  BY Invariant, <1>1, PTL

---------------------------------------------------------------------------
(* BrowserAccess: the types, with the cap on the clients of the feed, and  *)
(* that no subscription survives the logout of its session.                *)

Connected == {t \in Tabs : client[t] # "off"}

\* The cap holds whenever no client is added.
LEMMA NoneAdded ==
  ASSUME AccessTypeOK, \A t \in Tabs : client'[t] # "off" => client[t] # "off"
  PROVE  Cardinality({t \in Tabs : client'[t] # "off"}) <= MaxClients
<1>1. IsFiniteSet(Connected)
  BY AccessAssumption, FS_Subset DEF Connected
<1>2. {t \in Tabs : client'[t] # "off"} \subseteq Connected
  BY DEF Connected
<1>3. /\ Cardinality({t \in Tabs : client'[t] # "off"}) <= Cardinality(Connected)
      /\ Cardinality({t \in Tabs : client'[t] # "off"}) \in Nat
      /\ Cardinality(Connected) \in Nat
  BY <1>1, <1>2, FS_Subset, FS_CardinalityType
<1>4. Cardinality(Connected) <= MaxClients
  BY DEF AccessTypeOK, Connected
<1> QED
  BY <1>3, <1>4, AccessAssumption

\* A client is added where there is room for it.
LEMMA OneAdded ==
  ASSUME NEW t \in Tabs, AccessTypeOK, Room, client' = [client EXCEPT ![t] = "open"]
  PROVE  Cardinality({u \in Tabs : client'[u] # "off"}) <= MaxClients
<1>1. IsFiniteSet(Connected) /\ Cardinality(Connected) \in Nat
  BY AccessAssumption, FS_Subset, FS_CardinalityType DEF Connected
<1>2. {u \in Tabs : client'[u] # "off"} = Connected \cup {t}
  BY DEF AccessTypeOK, Connected
<1>3. Cardinality(Connected \cup {t}) <= Cardinality(Connected) + 1
  <2>1. CASE t \in Connected
    <3>1. Connected \cup {t} = Connected
      BY <2>1
    <3>2. Cardinality(Connected \cup {t}) = Cardinality(Connected)
      BY <3>1, Zenon
    <3> QED
      BY <3>2, <1>1
  <2>2. CASE t \notin Connected
    <3>1. Cardinality(Connected \cup {t}) = Cardinality(Connected) + 1
      BY <2>2, <1>1, FS_AddElement, Zenon
    <3> QED  BY <3>1, <1>1
  <2> QED  BY <2>1, <2>2
<1>4. Cardinality(Connected \cup {t}) \in Nat
  <2>1. IsFiniteSet(Connected \cup {t})
    BY <1>1, FS_AddElement, Zenon
  <2> QED  BY <2>1, FS_CardinalityType
<1>5. Cardinality(Connected) < MaxClients
  BY DEF Room, Connected
<1>6. MaxClients \in Nat
  BY AccessAssumption DEF AccessAssumption
<1>7. Cardinality(Connected \cup {t}) <= MaxClients
  BY <1>1, <1>3, <1>4, <1>5, <1>6
<1> QED
  BY <1>2, <1>7, Zenon

\* The two invariants together are inductive.
AccessInv == AccessTypeOK /\ LoggedOutGone

LEMMA InitInv == AccessInit => AccessInv
<1> SUFFICES ASSUME AccessInit PROVE AccessInv
  OBVIOUS
<1>1. {t \in Tabs : client[t] # "off"} = {}
  BY DEF AccessInit
<1>2. Cardinality({t \in Tabs : client[t] # "off"}) <= MaxClients
  BY <1>1, FS_EmptySet, AccessAssumption
<1> QED
  BY <1>2, AccessAssumption DEF AccessInit, AccessInv, AccessTypeOK, LoggedOutGone, Sessions, NoSession

\* How the sends to an endpoint, or the browser, change its row.
LEMMA RowTyped ==
  ASSUME AccessInv, NEW e \in Endpoints, Dropped(e) \/ Failed(e) \/ Succeeded(e)
  PROVE  /\ bound' \in [Endpoints -> Sessions \cup {NoSession}]
         /\ streak' \in [Endpoints -> 0..FailureBurst - 1]
         /\ \A f \in Endpoints : bound'[f] # NoSession => bound'[f] = bound[f]
<1>1. CASE Dropped(e)
  BY <1>1, AccessAssumption DEF Dropped, AccessInv, AccessTypeOK
<1>2. CASE Succeeded(e)
  BY <1>2, AccessAssumption DEF Succeeded, AccessInv, AccessTypeOK
<1>3. CASE Failed(e)
  <2>1. CASE bound[e] = NoSession
    BY <1>3, <2>1 DEF Failed, AccessInv, AccessTypeOK
  <2>2. CASE bound[e] # NoSession /\ streak[e] + 1 >= FailureBurst
    BY <1>3, <2>2, AccessAssumption DEF Failed, Dropped, AccessInv, AccessTypeOK
  <2>3. CASE bound[e] # NoSession /\ ~(streak[e] + 1 >= FailureBurst)
    BY <1>3, <2>3, AccessAssumption DEF Failed, AccessInv, AccessTypeOK
  <2> QED  BY <2>1, <2>2, <2>3
<1> QED
  BY <1>1, <1>2, <1>3

LEMMA NextInv == AccessInv /\ [AccessNext]_accessVars => AccessInv'
<1> SUFFICES ASSUME AccessInv, [AccessNext]_accessVars PROVE AccessInv'
  OBVIOUS
<1> USE AccessAssumption
<1>1. ASSUME NEW s \in Sessions, Login(s) PROVE AccessInv'
  <2>1. session' \in [Sessions -> {"new", "valid", "expired", "out", "purged"}] /\ cookie' \in Sessions
    BY <1>1 DEF Login, AccessInv, AccessTypeOK
  <2>2. AccessTypeOK'
    BY <1>1, <2>1 DEF Login, AccessInv, AccessTypeOK, push, feed
  <2>3. \A r \in Sessions : session[r] # "out" => session'[r] # "out"
    BY <1>1 DEF Login
  <2> QED
    BY <1>1, <2>2, <2>3 DEF AccessInv, LoggedOutGone, AccessTypeOK, Login, push
<1>2. ASSUME NEW s \in Sessions, Expires(s) PROVE AccessInv'
  BY <1>2 DEF Expires, AccessInv, AccessTypeOK, LoggedOutGone, push, feed
<1>3. CASE Logout
  <2>1. cookie \in Sessions /\ NoSession \notin Sessions
    BY <1>3 DEF Logout, AccessInv, AccessTypeOK, NoSession, Sessions
  <2>2. AccessTypeOK'
    BY <1>3, <2>1 DEF Logout, AccessInv, AccessTypeOK, feed
  <2>3. LoggedOutGone'
    BY <1>3, <2>1 DEF Logout, AccessInv, AccessTypeOK, LoggedOutGone
  <2> QED
    BY <2>2, <2>3 DEF AccessInv
<1>4. CASE Publish
  <2>1. \A t \in Tabs : client'[t] # "off" => client[t] # "off"
    BY <1>4 DEF Publish, Terminated
  <2>2. Cardinality({t \in Tabs : client'[t] # "off"}) <= MaxClients
    BY <2>1, NoneAdded DEF AccessInv
  <2>3. client' \in [Tabs -> {"off", "open", "silent"}] /\ ponged' \in [Tabs -> BOOLEAN]
    <3>1. PICK full \in SUBSET {t \in Tabs : client[t] = "silent"} : Terminated(full)
      BY <1>4 DEF Publish
    <3> QED  BY <3>1 DEF Terminated, AccessInv, AccessTypeOK
  <2>4. flight' \in [Endpoints -> 0..MaxFlight] /\ resting' \subseteq Endpoints
    BY <1>4 DEF Publish, AccessInv, AccessTypeOK
  <2> QED
    BY <1>4, <2>2, <2>3, <2>4 DEF Publish, AccessInv, AccessTypeOK, LoggedOutGone, login
<1>5. CASE Heartbeat
  <2>1. \A t \in Tabs : client'[t] # "off" => client[t] # "off"
    BY <1>5 DEF Heartbeat, Beat
  <2>2. Cardinality({t \in Tabs : client'[t] # "off"}) <= MaxClients
    BY <2>1, NoneAdded DEF AccessInv
  <2>3. client' \in [Tabs -> {"off", "open", "silent"}] /\ ponged' \in [Tabs -> BOOLEAN]
    BY <1>5 DEF Heartbeat, Beat, AccessInv, AccessTypeOK
  <2> QED
    BY <1>5, <2>2, <2>3 DEF Heartbeat, AccessInv, AccessTypeOK, LoggedOutGone, login, push
<1>6. ASSUME NEW e \in Endpoints, Subscribe(e) PROVE AccessInv'
  <2>1. cookie \in Sessions /\ session[cookie] # "out"
    BY <1>6 DEF Subscribe, HasValidSession, AccessInv, AccessTypeOK
  <2>2. AccessTypeOK'
    BY <1>6, <2>1 DEF Subscribe, AccessInv, AccessTypeOK, login, feed
  <2> QED
    BY <1>6, <2>1, <2>2 DEF Subscribe, AccessInv, AccessTypeOK, LoggedOutGone, login
<1>7. ASSUME NEW e \in Endpoints, Unsubscribe(e) PROVE AccessInv'
  <2>1. (UNCHANGED <<bound, streak>>) \/ Dropped(e)
    BY <1>7 DEF Unsubscribe, Dropped
  <2>2. AccessTypeOK'
    BY <1>7, <2>1, RowTyped DEF Unsubscribe, AccessInv, AccessTypeOK, login, feed
  <2> QED
    BY <1>7, <2>1, <2>2, RowTyped DEF Unsubscribe, AccessInv, LoggedOutGone, login
<1>8. ASSUME NEW e \in Endpoints, WindowPasses(e) PROVE AccessInv'
  BY <1>8 DEF WindowPasses, AccessInv, AccessTypeOK, LoggedOutGone, login, feed
<1>9. ASSUME NEW e \in Endpoints, SendEnds(e) PROVE AccessInv'
  <2>1. Dropped(e) \/ Failed(e) \/ Succeeded(e)
    BY <1>9 DEF SendEnds, Deliver
  <2>2. flight' \in [Endpoints -> 0..MaxFlight]
    BY <1>9 DEF SendEnds, AccessInv, AccessTypeOK
  <2>3. AccessTypeOK'
    BY <1>9, <2>1, <2>2, RowTyped DEF SendEnds, AccessInv, AccessTypeOK, login, feed
  <2> QED
    BY <1>9, <2>1, <2>3, RowTyped DEF SendEnds, AccessInv, LoggedOutGone, login
<1>10. ASSUME NEW t \in Tabs, Connect(t) PROVE AccessInv'
  <2>1. Cardinality({u \in Tabs : client'[u] # "off"}) <= MaxClients
    BY <1>10, OneAdded DEF Connect, AccessInv
  <2> QED
    BY <1>10, <2>1 DEF Connect, AccessInv, AccessTypeOK, LoggedOutGone, login, push
<1>11. ASSUME NEW t \in Tabs, Closes(t) \/ FallsSilent(t) \/ Pong(t) PROVE AccessInv'
  <2>1. \A u \in Tabs : client'[u] # "off" => client[u] # "off"
    BY <1>11 DEF Closes, FallsSilent, Pong, AccessInv, AccessTypeOK
  <2>2. Cardinality({u \in Tabs : client'[u] # "off"}) <= MaxClients
    BY <2>1, NoneAdded DEF AccessInv
  <2> QED
    BY <1>11, <2>2 DEF Closes, FallsSilent, Pong, AccessInv, AccessTypeOK, LoggedOutGone, login, push
<1>12. CASE UNCHANGED accessVars
  BY <1>12 DEF accessVars, AccessInv, AccessTypeOK, LoggedOutGone
<1> QED
  BY <1>1, <1>2, <1>3, <1>4, <1>5, <1>6, <1>7, <1>8, <1>9, <1>10, <1>11, <1>12 DEF AccessNext

\* Sessions, subscriptions and feed clients have their types, and no subscription
\* outlives the logout of its session (auth.ts, push/worker.ts, ws.ts).
THEOREM AccessInvariant == AccessSpec => []AccessInv
<1> QED
  BY InitInv, NextInv, PTL DEF AccessSpec

\* The state has its types, and the feed never has more clients than maxClients.
THEOREM AccessTypeCorrect == AccessSpec => []AccessTypeOK
<1>1. AccessInv => AccessTypeOK
  BY DEF AccessInv
<1> QED
  BY AccessInvariant, <1>1, PTL

\* No subscription survives the logout of the session it is bound to, whatever
\* sends are under way and whichever sessions follow (logout).
THEOREM LogoutCorrect == AccessSpec => []LoggedOutGone
<1>1. AccessInv => LoggedOutGone
  BY DEF AccessInv
<1> QED
  BY AccessInvariant, <1>1, PTL
=============================================================================
