----------------------------- MODULE RadioLink -----------------------------
(***************************************************************************)
(* The lifecycle of one radio link (link.ts): connecting, the initial      *)
(* sync, teardown, reconnection, and release and claim by the user.        *)
(*                                                                         *)
(* An action is what runs between two awaits.  The await that matters is   *)
(* the one in teardown: connection.close() takes its time, and whatever    *)
(* called teardown goes on only afterwards, in the state other handlers    *)
(* have made meanwhile.  Each connection being closed therefore remembers  *)
(* the continuation that waits for it.  A generation of the link is the    *)
(* time one connection is current, so isCurrent(c, generation) is          *)
(* connection = c here: every teardown ends both together.                 *)
(***************************************************************************)
EXTENDS Naturals, FiniteSets

CONSTANTS Conns,    \* connection objects; as many may be open or closing at once
          NoConn

ASSUME LinkAssumption == NoConn \notin Conns

VARIABLES
  state,       \* this.state; "new" until start() has run
  connection,  \* this.connection
  standby,     \* this.standby
  stopped,     \* this.stopped
  timer,       \* reconnectTimer is armed
  settings,    \* what getEffectiveSettings() answers
  phase,       \* what each connection object is doing
  after        \* what follows when its close() resolves

vars == <<state, connection, standby, stopped, timer, settings, phase, after>>

\* "invalid" is what validateConnectionSettings refuses; "none" it accepts.
Settings      == {"none", "invalid", "serial", "ble"}
Continuations == {"release", "stop", "lost", "failed"}
Using         == {"opening", "syncing", "ready"}

TypeOK ==
  /\ state \in {"new", "disconnected", "connecting", "syncing", "connected", "standby", "error"}
  /\ connection \in Conns \cup {NoConn}
  /\ standby \in BOOLEAN /\ stopped \in BOOLEAN /\ timer \in BOOLEAN
  /\ settings \in Settings
  /\ phase \in [Conns -> Using \cup {"free", "closing"}]
  /\ after \in [Conns -> Continuations \cup {"nothing"}]
  /\ \A c \in Conns : phase[c] = "closing" <=> after[c] # "nothing"

Init ==
  /\ state = "new" /\ connection = NoConn
  /\ standby \in BOOLEAN /\ stopped = FALSE /\ timer = FALSE
  /\ settings \in Settings
  /\ phase = [c \in Conns |-> "free"] /\ after = [c \in Conns |-> "nothing"]

---------------------------------------------------------------------------
(* The helpers read standby', stopped' and connection as their caller      *)
(* leaves them; t is whether the timer is armed when they are called.      *)

\* Faulty variants: without its guard, and before the teardown that clears it.
ScheduleAlways(t)   == timer' = TRUE
ScheduleTooEarly(t) == timer' = FALSE

ScheduleReconnect(t) == timer' = (t \/ (~stopped' /\ ~standby'))

Settle(s, t) == state' = s /\ timer' = t /\ UNCHANGED <<connection, phase, after>>

\* Faulty variant: a second connection is opened over the current one.
ConnectAgain(t) ==
  IF stopped' \/ standby'
  THEN Settle(state, t)
  ELSE \/ settings \in {"none", "invalid"} /\ Settle("error", t)
       \/ \E c \in Conns :
            /\ settings \in {"serial", "ble"} /\ phase[c] = "free"
            /\ state' = "connecting" /\ timer' = t
            /\ connection' = c /\ phase' = [phase EXCEPT ![c] = "opening"]
            /\ UNCHANGED after

\* connect() up to its first await.
Connect(t) ==
  IF stopped' \/ standby' \/ connection # NoConn
  THEN Settle(state, t)
  ELSE \/ settings = "none" /\ Settle("connecting", t)  \* connectionFactory throws
       \/ settings = "invalid" /\ Settle("error", t)
       \/ /\ settings = "ble"                           \* beforeConnect objects
          /\ state' = "error" /\ ScheduleReconnect(t)
          /\ UNCHANGED <<connection, phase, after>>
       \/ \E c \in Conns :
            /\ settings \in {"serial", "ble"} /\ phase[c] = "free"
            /\ state' = "connecting" /\ timer' = t
            /\ connection' = c /\ phase' = [phase EXCEPT ![c] = "opening"]
            /\ UNCHANGED after

\* What each caller of teardown does once the close has resolved.
Continue(k, t) ==
  CASE k = "release" -> state' = "standby" /\ timer' = t
    [] k = "stop"    -> state' = "disconnected" /\ timer' = t
    [] k = "failed"  -> state' = "error" /\ ScheduleReconnect(t)
    [] k = "lost"    -> IF stopped' \/ standby'
                        THEN state' = state /\ timer' = t
                        ELSE state' = "error" /\ ScheduleReconnect(t)

\* teardown() on behalf of k.  Without a connection nothing is awaited.
Teardown(k) ==
  IF connection = NoConn
  THEN Continue(k, FALSE) /\ UNCHANGED <<connection, phase, after>>
  ELSE /\ timer' = FALSE /\ connection' = NoConn /\ state' = state
       /\ phase' = [phase EXCEPT ![connection] = "closing"]
       /\ after' = [after EXCEPT ![connection] = k]

---------------------------------------------------------------------------
(* The hub and the users.                                                  *)

Start ==
  /\ state = "new"
  /\ UNCHANGED <<standby, stopped, settings>>
  /\ IF settings = "none" THEN Settle("disconnected", timer)
     ELSE IF standby THEN Settle("standby", timer)
     ELSE Connect(timer)

Release == standby' = TRUE /\ UNCHANGED <<stopped, settings>> /\ Teardown("release")

Claim ==
  /\ standby' = FALSE /\ UNCHANGED <<stopped, settings>>
  /\ IF state \in {"standby", "disconnected", "error"}
     THEN Connect(timer)
     ELSE Settle(state, timer)

Stop == stopped' = TRUE /\ UNCHANGED <<standby, settings>> /\ Teardown("stop")

\* The default link's settings follow the override and the active profile, and
\* not every change of those restarts it.
SettingsChange ==
  /\ settings' \in Settings \ {settings}
  /\ UNCHANGED <<state, connection, standby, stopped, timer, phase, after>>

---------------------------------------------------------------------------
(* connect() after its awaits, the listeners and the timer.                *)

Progress(c, from, to, s) ==
  /\ connection = c /\ phase[c] = from
  /\ phase' = [phase EXCEPT ![c] = to] /\ state' = s
  /\ UNCHANGED <<connection, standby, stopped, timer, settings, after>>

Opened(c) == Progress(c, "opening", "syncing", "syncing")

Synced(c) == Progress(c, "syncing", "ready", "connected")

\* The attempt is refused, times out or fails while syncing.
ConnectFails(c) ==
  /\ connection = c /\ phase[c] \in {"opening", "syncing"}
  /\ UNCHANGED <<standby, stopped, settings>>
  /\ Teardown("failed")

Disconnected(c) ==
  /\ connection = c
  /\ UNCHANGED <<standby, stopped, settings>>
  /\ Teardown("lost")

CloseResolves(c) ==
  /\ phase[c] = "closing"
  /\ phase' = [phase EXCEPT ![c] = "free"] /\ after' = [after EXCEPT ![c] = "nothing"]
  /\ UNCHANGED <<connection, standby, stopped, settings>>
  /\ Continue(after[c], timer)

ReconnectTimerFires ==
  /\ timer
  /\ UNCHANGED <<standby, stopped, settings>>
  /\ Connect(FALSE)

---------------------------------------------------------------------------

Next ==
  \/ Start
  \/ /\ state # "new"
     /\ \/ Release \/ Claim \/ Stop \/ SettingsChange \/ ReconnectTimerFires
        \/ \E c \in Conns : Opened(c) \/ Synced(c) \/ ConnectFails(c) \/ Disconnected(c)
                            \/ CloseResolves(c)

Spec == Init /\ [][Next]_vars

\* The hub starts every link, an attempt ends one way or the other (it has a
\* timeout), a close resolves and timers fire.  Nobody has to do anything else.
FairSpec ==
  /\ Spec /\ WF_vars(Start) /\ WF_vars(ReconnectTimerFires)
  /\ \A c \in Conns : WF_vars(CloseResolves(c)) /\ WF_vars(Opened(c) \/ ConnectFails(c))
                      /\ WF_vars(Synced(c) \/ ConnectFails(c))

---------------------------------------------------------------------------
(* Properties.                                                             *)

\* A released or stopped link is quiet: it holds no connection and no timer
\* will open one, whichever teardown, failure or loss was under way.
QuietWhenReleased == standby \/ stopped => connection = NoConn /\ ~timer

\* The link never forgets a connection: one that was opened and is not closed
\* or being closed is the link's current one.
NoLeakedConnection == \A c \in Conns : phase[c] \in Using <=> connection = c

\* A connection that is lost or refused is tried again, as long as the link is
\* neither released nor stopped and its settings still name a radio.
LossIsRetried ==
  (\E c \in Conns : after[c] \in {"lost", "failed"})
     ~> (connection # NoConn \/ standby \/ stopped \/ settings # "serial")
===========================================================================
