--------------------------- MODULE BrowserAccess ----------------------------
(***************************************************************************)
(* What the server keeps of a browser, and for how long: sessions          *)
(* (api/auth.ts), Web Push subscriptions and the sends to them             *)
(* (push/worker.ts), and the clients of the event feed (api/ws.ts).        *)
(*                                                                         *)
(* One browser with a cookie, several tabs, and the endpoints its push     *)
(* service has given it one after the other.  Time is a step: a session    *)
(* expires, the window of the rate limit passes, the heartbeat beats.      *)
(***************************************************************************)
EXTENDS Naturals, FiniteSets

CONSTANTS Endpoints, Tabs,
          MaxLogins,    \* bound: sessions
          MaxFlight,    \* bound: sends to one endpoint that are under way
          FailureBurst, \* failureBurst
          MaxClients    \* maxClients

ASSUME AccessAssumption ==
  MaxLogins \in Nat /\ MaxFlight \in Nat \ {0} /\ FailureBurst \in Nat \ {0}
  /\ MaxClients \in Nat /\ IsFiniteSet(Tabs)

Sessions == 1..MaxLogins
NoSession     == 0

VARIABLES
  cookie,     \* the session in the cookie of the browser, or NoSession
  session,    \* each session: "new", "valid", "expired", "out" or "purged"
  bound,      \* session_token_hash of the subscription of each endpoint, or NoSession
  streak,     \* consecutive_failures of that subscription
  service,    \* the push service: an endpoint is "new", "held" or "gone"
  resting,    \* endpoints within the rate limit since the last send
  flight,     \* sends under way to each endpoint
  client,     \* the feed's client of each tab: "off", "open", or "silent"
  ponged      \* liveness of that client

accessVars == <<cookie, session, bound, streak, service, resting, flight, client, ponged>>
login == <<cookie, session>>
push  == <<bound, streak, service, resting, flight>>
feed  == <<client, ponged>>

AccessTypeOK ==
  /\ cookie \in Sessions \cup {NoSession}
  /\ session \in [Sessions -> {"new", "valid", "expired", "out", "purged"}]
  /\ bound \in [Endpoints -> Sessions \cup {NoSession}]
  /\ streak \in [Endpoints -> 0..FailureBurst - 1]
  /\ service \in [Endpoints -> {"new", "held", "gone"}]
  /\ resting \subseteq Endpoints /\ flight \in [Endpoints -> 0..MaxFlight]
  /\ client \in [Tabs -> {"off", "open", "silent"}] /\ ponged \in [Tabs -> BOOLEAN]
  /\ Cardinality({t \in Tabs : client[t] # "off"}) <= MaxClients

AccessInit ==
  /\ cookie = NoSession /\ session = [s \in Sessions |-> "new"]
  /\ bound = [e \in Endpoints |-> NoSession] /\ streak = [e \in Endpoints |-> 0]
  /\ service = [e \in Endpoints |-> "new"] /\ resting = {} /\ flight = [e \in Endpoints |-> 0]
  /\ client = [t \in Tabs |-> "off"] /\ ponged = [t \in Tabs |-> FALSE]

---------------------------------------------------------------------------
(* Sessions.                                                               *)

HasValidSession == cookie # NoSession /\ session[cookie] = "valid"

\* A login purges the sessions that have expired, and leaves a session the
\* browser still had.
Login(s) ==
  /\ session[s] = "new"
  /\ cookie' = s
  /\ session' = [r \in Sessions |-> IF r = s THEN "valid" ELSE IF session[r] = "expired" THEN "purged" ELSE session[r]]
  /\ UNCHANGED <<push, feed>>

Expires(s) ==
  /\ session[s] = "valid" /\ session' = [session EXCEPT ![s] = "expired"]
  /\ UNCHANGED <<cookie, push, feed>>

\* Faulty variant: only the subscriptions whose last send went through are dropped.
LogoutSome ==
  /\ cookie # NoSession /\ cookie' = NoSession
  /\ session' = [session EXCEPT ![cookie] = "out"]
  /\ bound' = [e \in Endpoints |-> IF bound[e] = cookie /\ streak[e] = 0 THEN NoSession ELSE bound[e]]
  /\ UNCHANGED <<streak, service, resting, flight, feed>>

\* The session is deleted, and the subscriptions that are bound to it.
Logout ==
  /\ cookie # NoSession /\ cookie' = NoSession
  /\ session' = [session EXCEPT ![cookie] = "out"]
  /\ bound' = [e \in Endpoints |-> IF bound[e] = cookie THEN NoSession ELSE bound[e]]
  /\ streak' = [e \in Endpoints |-> IF bound[e] = cookie THEN 0 ELSE streak[e]]
  /\ UNCHANGED <<service, resting, flight, feed>>

---------------------------------------------------------------------------
(* Subscriptions and sends.                                                *)

\* The push service gives the browser an endpoint, or the one it has already.
\* The server replaces the row of that endpoint.
Subscribe(e) ==
  /\ HasValidSession /\ service[e] # "gone"
  /\ \A f \in Endpoints \ {e} : service[f] \in {"new", "gone"}
  /\ service' = [service EXCEPT ![e] = "held"]
  /\ bound' = [bound EXCEPT ![e] = cookie] /\ streak' = [streak EXCEPT ![e] = 0]
  /\ UNCHANGED <<login, resting, flight, feed>>

\* The browser gives its endpoint up.  The server is told, which may fail, and
\* it only removes what the session itself has subscribed.
Unsubscribe(e) ==
  /\ service[e] = "held" /\ service' = [service EXCEPT ![e] = "gone"]
  /\ \/ UNCHANGED <<bound, streak>>
     \/ /\ HasValidSession /\ bound[e] = cookie
        /\ bound' = [bound EXCEPT ![e] = NoSession] /\ streak' = [streak EXCEPT ![e] = 0]
  /\ UNCHANGED <<login, resting, flight, feed>>

WindowPasses(e) ==
  /\ e \in resting /\ resting' = resting \ {e}
  /\ UNCHANGED <<login, bound, streak, service, flight, feed>>

Terminated(gone) ==
  /\ client' = [t \in Tabs |-> IF t \in gone THEN "off" ELSE client[t]]
  /\ ponged' = [t \in Tabs |-> ponged[t] /\ t \notin gone]

\* A message or an alert is published: it is sent to the endpoints that are not
\* resting, and clients that do not take what they are sent are terminated.
Publish ==
  LET due == {e \in Endpoints : bound[e] # NoSession /\ e \notin resting} IN
  /\ \A e \in due : flight[e] < MaxFlight
  /\ resting' = resting \cup due
  /\ flight' = [e \in Endpoints |-> IF e \in due THEN flight[e] + 1 ELSE flight[e]]
  /\ \E full \in SUBSET {t \in Tabs : client[t] = "silent"} : Terminated(full)
  /\ UNCHANGED <<login, bound, streak, service>>

Dropped(e) == bound' = [bound EXCEPT ![e] = NoSession] /\ streak' = [streak EXCEPT ![e] = 0]

\* A failure counts, and at the burst the row goes.
Failed(e) ==
  IF bound[e] = NoSession THEN UNCHANGED <<bound, streak>>
  ELSE IF streak[e] + 1 >= FailureBurst THEN Dropped(e)
  ELSE bound' = bound /\ streak' = [streak EXCEPT ![e] = @ + 1]

Succeeded(e) == bound' = bound /\ streak' = [streak EXCEPT ![e] = 0]

\* Faulty variant: an endpoint that is gone is a failure like another, and not counted.
DeliverIgnoring(e) ==
  \/ service[e] = "gone" /\ UNCHANGED <<bound, streak>>
  \/ service[e] = "held" /\ (Succeeded(e) \/ Failed(e))

\* How a send ends: the row of the endpoint, whichever it is by then, has its
\* streak reset or increased, or is removed.  A failure may also be of the
\* network or of a push service that has a bad time.
Deliver(e) ==
  \/ service[e] = "gone" /\ (Dropped(e) \/ Failed(e))
  \/ service[e] = "held" /\ (Succeeded(e) \/ Failed(e))

SendEnds(e) ==
  /\ flight[e] > 0 /\ flight' = [flight EXCEPT ![e] = @ - 1]
  /\ Deliver(e)
  /\ UNCHANGED <<login, service, resting, feed>>

---------------------------------------------------------------------------
(* Clients of the feed.                                                    *)

\* An upgrade finds a place among maxClients.
Room == Cardinality({u \in Tabs : client[u] # "off"}) < MaxClients

\* A client is admitted once, at the upgrade: its session may end before it.
Connect(t) ==
  /\ client[t] = "off" /\ HasValidSession /\ Room
  /\ client' = [client EXCEPT ![t] = "open"] /\ ponged' = [ponged EXCEPT ![t] = TRUE]
  /\ UNCHANGED <<login, push>>

\* A client closes, or has been told to go.
Closes(t) ==
  /\ client[t] = "open" /\ client' = [client EXCEPT ![t] = "off"]
  /\ ponged' = [ponged EXCEPT ![t] = FALSE]
  /\ UNCHANGED <<login, push>>

\* The network of the browser is gone, and the server is not told.
FallsSilent(t) ==
  /\ client[t] = "open" /\ client' = [client EXCEPT ![t] = "silent"]
  /\ UNCHANGED <<login, push, ponged>>

Pong(t) ==
  /\ client[t] = "open" /\ ~ponged[t] /\ ponged' = [ponged EXCEPT ![t] = TRUE]
  /\ UNCHANGED <<login, push, client>>

\* Who has not answered the last ping is terminated, the others are pinged.
Beat ==
  /\ client' = [t \in Tabs |-> IF client[t] # "off" /\ ~ponged[t] THEN "off" ELSE client[t]]
  /\ ponged' = [t \in Tabs |-> FALSE]

Heartbeat == Beat /\ UNCHANGED <<login, push>>

---------------------------------------------------------------------------
AccessNext ==
  \/ \E s \in Sessions : Login(s) \/ Expires(s)
  \/ Logout \/ Publish \/ Heartbeat
  \/ \E e \in Endpoints : \/ Subscribe(e) \/ Unsubscribe(e) \/ WindowPasses(e) \/ SendEnds(e)
  \/ \E t \in Tabs : Connect(t) \/ Closes(t) \/ FallsSilent(t) \/ Pong(t)

AccessSpec == AccessInit /\ [][AccessNext]_accessVars

\* Timers fire, sends end, and there is always something to publish.  That the
\* radio stops, that a client answers or that it closes is not assumed.
AccessFair ==
  /\ AccessSpec /\ WF_accessVars(Publish) /\ WF_accessVars(Heartbeat)
  /\ \A e \in Endpoints : WF_accessVars(WindowPasses(e)) /\ WF_accessVars(SendEnds(e))

---------------------------------------------------------------------------
(* What is promised.                                                       *)

\* A subscription does not survive the logout of the session it is bound to
\* (logout): with re-subscriptions under other sessions and sends that end late,
\* none of a session that was logged out is there.
LoggedOutGone == \A e \in Endpoints : bound[e] # NoSession => session[bound[e]] # "out"

\* An endpoint the push service has discarded is removed, though the browser
\* could not tell the server and no session may know of it any more (deliver).  A
\* feed client that is gone without a word gives its place back (heartbeat).
GoneAreRemoved ==
  /\ \A e \in Endpoints : service[e] = "gone" /\ bound[e] # NoSession ~> bound[e] = NoSession
  /\ \A t \in Tabs : client[t] = "silent" ~> client[t] = "off"
=============================================================================
