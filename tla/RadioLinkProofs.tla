-------------------------- MODULE RadioLinkProofs --------------------------
(***************************************************************************)
(* Proofs about a link: first RadioLink, for any number of connection      *)
(* objects, then RadioCommands, for any channels, contacts and calls.      *)
(*                                                                         *)
(* RadioLink: the two safety properties and the type invariant are         *)
(* inductive together: a continuation that runs late can do harm only      *)
(* through connection and timer, and each of them is guarded by stopped    *)
(* and standby.                                                            *)
(***************************************************************************)
EXTENDS RadioLink, RadioCommands, FiniteSetTheorems, SequenceTheorems, TLAPS

\* The part of the invariant that speaks about connections.
ConnsOK ==
  /\ connection \in Conns \cup {NoConn}
  /\ phase \in [Conns -> {"opening", "syncing", "ready", "free", "closing"}]
  /\ after \in [Conns -> {"release", "stop", "lost", "failed", "nothing"}]
  /\ \A c \in Conns : phase[c] = "closing" <=> after[c] # "nothing"
  /\ \A c \in Conns : phase[c] \in {"opening", "syncing", "ready"} <=> connection = c

\* The part that speaks about what may happen next.
QuietOK ==
  /\ standby \in BOOLEAN /\ stopped \in BOOLEAN /\ timer \in BOOLEAN
  /\ QuietWhenReleased

StateOK == state \in {"new", "disconnected", "connecting", "syncing", "connected", "standby", "error"}

IInv == ConnsOK /\ QuietOK /\ StateOK /\ settings \in Settings

\* The inductive invariant is the three invariants the run checks.
LEMMA InvariantImplies == IInv => TypeOK /\ QuietWhenReleased /\ NoLeakedConnection
<1>1. IInv => standby \in BOOLEAN /\ stopped \in BOOLEAN /\ timer \in BOOLEAN
  BY Zenon DEF IInv, QuietOK
<1> QED
  BY <1>1 DEF IInv, TypeOK, NoLeakedConnection, ConnsOK, QuietOK, StateOK, Using, Continuations

---------------------------------------------------------------------------
(* The helpers, in any step that calls them.                               *)

\* Scheduling a reconnection never wakes a link that must stay quiet.
LEMMA ScheduleOK ==
  ASSUME NEW t \in BOOLEAN, standby' \in BOOLEAN, stopped' \in BOOLEAN,
         t => ~standby' /\ ~stopped', ScheduleReconnect(t)
  PROVE  timer' \in BOOLEAN /\ (timer' => ~standby' /\ ~stopped')
BY Zenon DEF ScheduleReconnect

LEMMA ConnectOK ==
  ASSUME ConnsOK, StateOK, NEW t \in BOOLEAN, standby' \in BOOLEAN, stopped' \in BOOLEAN,
         t => ~standby' /\ ~stopped', connection # NoConn => ~standby' /\ ~stopped', Connect(t)
  PROVE  ConnsOK' /\ QuietOK' /\ StateOK'
<1>1. CASE stopped' \/ standby' \/ connection # NoConn
  <2>1. Settle(state, t)
    BY <1>1, Zenon DEF Connect
  <2> QED
    BY <2>1 DEF Settle, ConnsOK, QuietOK, StateOK, QuietWhenReleased
<1>2. CASE ~(stopped' \/ standby' \/ connection # NoConn)
  <2>1. CASE Settle("connecting", t) \/ Settle("error", t)
    BY <1>2, <2>1 DEF Settle, ConnsOK, QuietOK, StateOK, QuietWhenReleased
  <2>2. CASE /\ state' = "error" /\ ScheduleReconnect(t)
             /\ UNCHANGED <<connection, phase, after>>
    BY <1>2, <2>2, ScheduleOK DEF ConnsOK, QuietOK, StateOK, QuietWhenReleased
  <2>3. ASSUME NEW c \in Conns, phase[c] = "free", state' = "connecting", timer' = t,
               connection' = c, phase' = [phase EXCEPT ![c] = "opening"], after' = after
        PROVE  ConnsOK' /\ QuietOK' /\ StateOK'
    BY <1>2, <2>3, LinkAssumption DEF ConnsOK, QuietOK, StateOK, QuietWhenReleased
  <2> QED
    BY <1>2, <2>1, <2>2, <2>3 DEF Connect
<1> QED
  BY <1>1, <1>2

LEMMA ContinueOK ==
  ASSUME StateOK, NEW k \in Continuations, NEW t \in BOOLEAN, standby' \in BOOLEAN, stopped' \in BOOLEAN,
         t => ~standby' /\ ~stopped', Continue(k, t)
  PROVE  StateOK' /\ timer' \in BOOLEAN /\ (timer' => ~standby' /\ ~stopped')
BY ScheduleOK DEF Continue, Continuations, StateOK

LEMMA TeardownOK ==
  ASSUME ConnsOK, StateOK, NEW k \in Continuations, standby' \in BOOLEAN, stopped' \in BOOLEAN, Teardown(k)
  PROVE  ConnsOK' /\ QuietOK' /\ StateOK'
<1>1. CASE connection = NoConn
  <2>1. Continue(k, FALSE) /\ UNCHANGED <<connection, phase, after>>
    BY <1>1 DEF Teardown
  <2>2. StateOK' /\ timer' \in BOOLEAN /\ (timer' => ~standby' /\ ~stopped')
    BY <2>1, ContinueOK
  <2> QED
    BY <1>1, <2>1, <2>2 DEF ConnsOK, QuietOK, QuietWhenReleased
<1>2. CASE connection # NoConn
  BY <1>2, LinkAssumption
     DEF Teardown, Continuations, ConnsOK, QuietOK, StateOK, QuietWhenReleased
<1> QED
  BY <1>1, <1>2

---------------------------------------------------------------------------
(* Every step preserves the invariant.                                     *)

LEMMA StepInvariant == IInv /\ [Next]_vars => IInv'
<1> SUFFICES ASSUME IInv, [Next]_vars PROVE IInv'
  OBVIOUS
<1>1. ConnsOK /\ QuietOK /\ StateOK /\ settings \in Settings
  BY DEF IInv
<1>2. SUFFICES (ConnsOK /\ QuietOK /\ StateOK)' /\ settings' \in Settings
  BY DEF IInv
<1>3. /\ standby \in BOOLEAN /\ stopped \in BOOLEAN /\ timer \in BOOLEAN
      /\ timer => ~standby /\ ~stopped
      /\ connection # NoConn => ~standby /\ ~stopped
  BY <1>1 DEF QuietOK, QuietWhenReleased
<1>4. CASE Start
  <2>1. standby' = standby /\ stopped' = stopped /\ settings' = settings
    BY <1>4 DEF Start
  <2>2. Settle("disconnected", timer) \/ Settle("standby", timer) \/ Connect(timer)
    BY <1>4, Zenon DEF Start
  <2>3. CASE Connect(timer)
    BY <1>1, <1>3, <2>1, <2>3, ConnectOK
  <2>4. CASE Settle("disconnected", timer) \/ Settle("standby", timer)
    BY <1>1, <2>1, <2>4 DEF Settle, ConnsOK, QuietOK, StateOK, QuietWhenReleased
  <2> QED
    BY <1>1, <2>1, <2>2, <2>3, <2>4
<1>5. CASE Claim
  <2>1. standby' = FALSE /\ stopped' = stopped /\ settings' = settings
    BY <1>5 DEF Claim
  <2>2. standby' \in BOOLEAN /\ ~standby'
    BY <2>1, Zenon
  <2>3. Connect(timer) \/ Settle(state, timer)
    BY <1>5, Zenon DEF Claim
  <2>4. CASE Connect(timer)
    BY <1>1, <1>3, <2>1, <2>2, <2>4, ConnectOK
  <2>5. CASE Settle(state, timer)
    BY <1>1, <1>3, <2>1, <2>2, <2>5 DEF Settle, ConnsOK, QuietOK, StateOK, QuietWhenReleased
  <2> QED
    BY <1>1, <2>1, <2>3, <2>4, <2>5
<1>6. ASSUME NEW k \in Continuations, Teardown(k), standby' \in BOOLEAN, stopped' \in BOOLEAN,
             settings' = settings
      PROVE  (ConnsOK /\ QuietOK /\ StateOK)' /\ settings' \in Settings
  BY <1>1, <1>6, TeardownOK
<1>7. CASE Release
  <2>1. standby' \in BOOLEAN /\ stopped' \in BOOLEAN
    BY <1>3, <1>7, Zenon DEF Release
  <2> QED
    BY <1>6, <1>7, <2>1 DEF Release, Continuations
<1>8. CASE Stop
  <2>1. standby' \in BOOLEAN /\ stopped' \in BOOLEAN
    BY <1>3, <1>8, Zenon DEF Stop
  <2> QED
    BY <1>6, <1>8, <2>1 DEF Stop, Continuations
<1>9. ASSUME NEW c \in Conns, ConnectFails(c) \/ Disconnected(c)
      PROVE  (ConnsOK /\ QuietOK /\ StateOK)' /\ settings' \in Settings
  BY <1>3, <1>6, <1>9 DEF ConnectFails, Disconnected, Continuations
<1>10. CASE SettingsChange \/ UNCHANGED vars
  BY <1>1, <1>10 DEF SettingsChange, vars, ConnsOK, QuietOK, StateOK, QuietWhenReleased
<1>11. ASSUME NEW c \in Conns, Opened(c) \/ Synced(c)
       PROVE  (ConnsOK /\ QuietOK /\ StateOK)' /\ settings' \in Settings
  BY <1>1, <1>11 DEF Opened, Synced, Progress, ConnsOK, QuietOK, StateOK, QuietWhenReleased
<1>12. ASSUME NEW c \in Conns, CloseResolves(c)
       PROVE  (ConnsOK /\ QuietOK /\ StateOK)' /\ settings' \in Settings
  <2>1. after[c] \in Continuations
    BY <1>1, <1>12 DEF CloseResolves, ConnsOK, Continuations
  <2>2. /\ phase[c] = "closing" /\ standby' = standby /\ stopped' = stopped
        /\ settings' = settings /\ connection' = connection
        /\ phase' = [phase EXCEPT ![c] = "free"] /\ after' = [after EXCEPT ![c] = "nothing"]
        /\ Continue(after[c], timer)
    BY <1>12 DEF CloseResolves
  <2>3. StateOK' /\ timer' \in BOOLEAN /\ (timer' => ~standby' /\ ~stopped')
    BY <1>1, <1>3, <2>1, <2>2, ContinueOK
  <2>4. ConnsOK'
    BY <1>1, <2>2 DEF ConnsOK
  <2> QED
    BY <1>1, <1>3, <2>2, <2>3, <2>4 DEF QuietOK, QuietWhenReleased
<1>13. CASE ReconnectTimerFires
  <2>1. /\ standby' = standby /\ stopped' = stopped /\ settings' = settings
        /\ Connect(FALSE)
    BY <1>13 DEF ReconnectTimerFires
  <2> QED
    BY <1>1, <1>3, <2>1, ConnectOK
<1> QED
  BY <1>4, <1>5, <1>7, <1>8, <1>9, <1>10, <1>11, <1>12, <1>13 DEF Next

LEMMA InitInvariant == Init => IInv
<1> SUFFICES ASSUME Init PROVE IInv
  OBVIOUS
<1>1. standby \in BOOLEAN /\ stopped \in BOOLEAN /\ timer \in BOOLEAN /\ ~stopped /\ ~timer
  BY Zenon DEF Init
<1>2. ConnsOK /\ StateOK /\ settings \in Settings
  BY LinkAssumption DEF Init, ConnsOK, StateOK
<1>3. QuietOK
  BY <1>1, LinkAssumption DEF Init, QuietOK, QuietWhenReleased
<1> QED
  BY <1>2, <1>3 DEF IInv

---------------------------------------------------------------------------

\* The link's variables keep the values the code can give them, and a
\* connection is being closed exactly while somebody waits for it to close.
THEOREM TypeCorrect == Spec => []TypeOK
BY InvariantImplies, InitInvariant, StepInvariant, PTL DEF Spec

\* Once released or stopped, the link holds no connection and arms no timer, in
\* whatever order closes, failures, losses and claims come.
THEOREM StaysQuiet == Spec => []QuietWhenReleased
BY InvariantImplies, InitInvariant, StepInvariant, PTL DEF Spec

\* No connection is forgotten: one that is in use is the current one.
THEOREM NothingLeaks == Spec => []NoLeakedConnection
BY InvariantImplies, InitInvariant, StepInvariant, PTL DEF Spec
---------------------------------------------------------------------------
(***************************************************************************)
(* The commands of a link.  Mirrors speaks of the moments at which nothing *)
(* is under way; the invariant says what holds until then.                 *)
(*                                                                         *)
(* Base, always: what each job has still to send and what it has got, by   *)
(* its kind (Shape), and the queue: each job of a queued kind is there     *)
(* once, and only its first sends.                                         *)
(*                                                                         *)
(* CleanOK, while the connection is up and clean:                          *)
(*   - Settled: a frame on its way has a job that waits for it, and a job  *)
(*     that waits has the one frame that ends its wait on its way;         *)
(*   - InfoOK, SettingsOK, ChannelsOK: what an answer says is what the     *)
(*     radio keeps, and what the database has is that too, or a job under  *)
(*     way will save it;                                                   *)
(*   - ContactsOK, the same of contacts, unless the connection is Doomed:  *)
(*     two jobs that wait for one kind of answer are both served by the    *)
(*     first that comes, clean ends there, and until then the list that a  *)
(*     scan brings may be older than what has been written since.          *)
(***************************************************************************)

\* Types.
Vals == Values \cup {None}
Partial == UNION {[D -> Vals] : D \in SUBSET Items}
Command == [name : {"write", "read"}, writes : Partial, reads : SUBSET Items]
FrameType == [kind : {"ok", "err", "info", "contact", "end"}, data : Partial, for : Jobs]
JobType == [kind : Kinds, patch : Partial, old : Partial, todo : Seq(Command),
            pc : {"idle", "queued", "waits", "answered", "refused"}, got : Partial, live : BOOLEAN]

FrameOK(f) ==
  /\ f.kind \in {"ok", "err", "end"} => f.data = Nothing
  /\ f.kind = "contact" => DOMAIN f.data \subseteq Contacts
  /\ f.kind = "info" => DOMAIN f.data = SettingKeys \/ \E s \in SlotSet : DOMAIN f.data = {s}

\* What a setting is to be once a call is through.
Final(r, x) == IF x \in DOMAIN r.patch THEN r.patch[x] ELSE r.old[x]

\* What a job has to send, and what it has got, by its kind.
Shape(r) ==
  /\ r.kind = "set" => r.todo = <<Write(r.patch)>> /\ DOMAIN r.patch \subseteq SlotSet
  /\ r.kind = "remove" => r.todo = <<Write(r.patch)>> /\ DOMAIN r.patch \subseteq Contacts /\ \A c \in DOMAIN r.patch : r.patch[c] = None
  /\ r.kind = "plain" => r.todo = <<Write(Nothing)>>
  /\ r.kind = "import" => /\ DOMAIN r.patch \subseteq Contacts
                          /\ \/ r.todo = <<Write(r.patch), Read(Contacts)>> /\ r.got = Nothing
                             \/ r.todo = <<Read(Contacts)>> /\ r.pc # "queued"
  /\ r.kind = "contacts" => r.todo = <<Read(Contacts)>>
  /\ r.kind = "self" => r.todo = <<Read(SettingKeys)>> /\ DOMAIN r.got \subseteq SettingKeys
  /\ r.kind = "channels" => /\ \A i \in DOMAIN r.todo : \E s \in SlotSet : r.todo[i] = Read({s})
                            /\ DOMAIN r.got \subseteq SlotSet
  /\ r.kind = "settings" => /\ DOMAIN r.old = SettingKeys /\ DOMAIN r.patch \subseteq SettingKeys
                            /\ \A i \in DOMAIN r.todo : /\ r.todo[i] = Write(r.todo[i].writes)
                                                        /\ DOMAIN r.todo[i].writes \subseteq SettingKeys
                                                        /\ \A x \in DOMAIN r.todo[i].writes : r.todo[i].writes[x] = Final(r, x)
  /\ r.pc = "queued" => r.got = Nothing

\* A job that is not heard any more is a write, or has not begun.
JobOK(j, r) ==
  IF r.pc = "idle" THEN r = Idle
  ELSE /\ Shape(r) /\ r.todo # <<>>
       /\ ~r.live => r.kind = "set" \/ (r.kind = "channels" /\ r.pc = "queued")
       /\ IF j = Sync THEN r.kind \in {"self", "contacts", "channels"} /\ r.live ELSE r.kind # "self"

Several(t) == Len(t) > 1
Rest(u, t) == u = Tail(t)
Holds(q, x) == \E i \in DOMAIN q : q[i] = x
Distinct(q) == \A i, k \in DOMAIN q : q[i] = q[k] => i = k

QueueOK ==
  /\ queue \in Seq(Jobs) /\ Distinct(queue)
  /\ \A j \in Jobs : Holds(queue, j) <=> job[j].pc # "idle" /\ Queued(job[j].kind)
  /\ \A j \in Jobs : Queued(job[j].kind) /\ job[j].pc \in {"waits", "answered", "refused"} => queue[1] = j

CommandsOK ==
  /\ radio \in [Items -> Vals] /\ store \in [Items -> Vals]
  /\ linkState \in {"down", "syncing", "connected"}
  /\ linkState = "down" => air = <<>> /\ \A j \in Jobs : ~job[j].live
  /\ linkState = "syncing" <=> job[Sync].pc # "idle"
  /\ air \in Seq(FrameType) /\ \A i \in DOMAIN air : FrameOK(air[i])
  /\ job \in [Jobs -> JobType] /\ \A j \in Jobs : JobOK(j, job[j])
  /\ clean \in BOOLEAN /\ calls \in 0..MaxCalls /\ opens \in 0..MaxOpens

\* While the connection is clean.
Waits(j) == job[j].pc = "waits" /\ job[j].live
Failing(j) == job[j].pc = "refused" \/ \E i \in DOMAIN air : air[i].for = j /\ air[i].kind = "err"

\* A frame that a job waits for: the one that ends its wait, or a contact of its scan.
Hears(r, f) == r.pc = "waits" /\ r.live /\ (Ends(r.todo[1], f) \/ (f.kind = "contact" /\ r.todo[1].reads = Contacts))

\* Each frame goes to the job that asked, and only the last frame for a job ends its wait.
AirOK ==
  /\ \A i \in DOMAIN air : Hears(job[air[i].for], air[i])
  /\ \A i, k \in DOMAIN air : i < k /\ air[i].for = air[k].for => air[i].kind = "contact"
  /\ \A j \in Jobs : Waits(j) => \E i \in DOMAIN air : air[i].for = j /\ air[i].kind # "contact"

\* An answer that is on its way says what the radio keeps.
InfoOK == \A i \in DOMAIN air : air[i].kind = "info" => \A x \in DOMAIN air[i].data : air[i].data[x] = radio[x]

\* One continuation is due at a time.
OneDue ==
  /\ \A i, k \in Jobs : job[i].pc \in {"answered", "refused"} /\ job[k].pc \in {"answered", "refused"} => i = k
  /\ \A j \in Jobs : job[j].pc \in {"answered", "refused"} => job[j].live

\* No two jobs are about settings.
Alone == \A i, k \in Jobs : job[i].kind \in {"self", "settings"} /\ job[k].kind \in {"self", "settings"} => i = k

\* The first of todo has been carried out.
Sent(j) == job[j].pc \in {"waits", "answered"} /\ job[j].live /\ ~Failing(j)

\* Settings are saved as they are on the radio, but while some are written.
SettingsSaved ==
  (linkState = "connected" \/ job[Sync].kind # "self") /\ (\A j \in Jobs : job[j].kind # "settings") =>
    \A x \in SettingKeys : store[x] = radio[x]

\* What a call has not written of its settings is still to be written.
SettingsWritten(j) ==
  job[j].kind = "settings" /\ ~Failing(j) =>
    \A x \in SettingKeys : \/ radio[x] = Final(job[j], x)
                           \/ \E i \in DOMAIN job[j].todo : (Sent(j) => i > 1) /\ x \in DOMAIN job[j].todo[i].writes

\* A read of the settings has got all of them when it is answered.
SelfRead(j) ==
  job[j].kind = "self" =>
    /\ \A x \in DOMAIN job[j].got : job[j].got[x] = radio[x]
    /\ job[j].pc = "answered" => SettingKeys \subseteq DOMAIN job[j].got

SettingsOK == SettingsSaved /\ \A j \in Jobs : SettingsWritten(j) /\ SelfRead(j)

Sets(j) == job[j].kind = "set" /\ Sent(j)

\* A slot that has been written is saved when the answer is there.
SlotsSet(j) == Sets(j) => \A s \in DOMAIN job[j].patch : job[j].patch[s] = radio[s]

\* A slot is saved, or a write of it has been sent and will be saved.
SlotsSaved ==
  linkState = "connected" => \A s \in SlotSet : store[s] = radio[s] \/ \E j \in Jobs : Sets(j) /\ s \in DOMAIN job[j].patch

\* A read of the channels has got each slot, or has still to ask for it.
SlotsRead(j) ==
  job[j].kind = "channels" /\ job[j].live /\ job[j].pc # "refused" =>
    /\ \A s \in DOMAIN job[j].got : job[j].got[s] = radio[s]
    /\ \A s \in SlotSet : \/ s \in DOMAIN job[j].got
                          \/ \E i \in DOMAIN job[j].todo : (job[j].pc = "answered" => i > 1) /\ job[j].todo[i] = Read({s})

ChannelsOK == SlotsSaved /\ \A j \in Jobs : SlotsSet(j) /\ SlotsRead(j)

Imports(j) == job[j].kind = "import" /\ Sent(j) /\ job[j].todo[1].name = "write"
Removes(j) == job[j].kind = "remove" /\ Sent(j)
Scans(j)   == job[j].pc \in {"waits", "answered"} /\ job[j].live /\ job[j].todo[1] = Read(Contacts)

\* The removal w will be saved after the scan s.
Behind(s, w) ==
  \/ job[s].pc = "answered"
  \/ \E i, k \in DOMAIN air : i < k /\ air[i].for = s /\ air[i].kind = "end" /\ air[k].for = w

\* The scan s brings contact c as it is on the radio.
Lists(s, c) ==
  /\ c \in DOMAIN job[s].got => job[s].got[c] = radio[c]
  /\ \A i \in DOMAIN air : air[i].for = s /\ c \in DOMAIN air[i].data => air[i].data[c] = radio[c]
  /\ \/ c \in DOMAIN job[s].got \/ radio[c] = None
     \/ \E i \in DOMAIN air : air[i].for = s /\ c \in DOMAIN air[i].data

\* A scan lists the contacts as they are, or as they were before a removal that will be saved after it.
Listing(s) ==
  /\ \A c \in Contacts : Lists(s, c) \/ \E w \in Jobs : Removes(w) /\ Behind(s, w) /\ c \in DOMAIN job[w].patch
  /\ \A w \in Jobs : Removes(w) /\ Behind(s, w) => \A c \in DOMAIN job[w].patch : radio[c] = None

\* A contact is saved, or its removal has been sent and will be saved.
ContactsSaved ==
  linkState = "connected" \/ job[Sync].kind = "channels" =>
    \A c \in Contacts : store[c] = radio[c] \/ \E w \in Jobs : Removes(w) /\ c \in DOMAIN job[w].patch

\* What has been removed stays so until that is saved.
Gone == \A w \in Jobs : Removes(w) => \A c \in DOMAIN job[w].patch : radio[c] = None

\* A written contact is read back by a scan of the same call, so nothing is said until that has begun.
ContactsOK ==
  (\A j \in Jobs : ~Imports(j)) =>
    /\ \A s \in Jobs : Scans(s) => Listing(s)
    /\ (\A s \in Jobs : ~Scans(s)) => ContactsSaved /\ Gone

\* Two jobs wait for one kind of answer.
Doomed == \E j, k \in Jobs :
  /\ j # k /\ Waits(j) /\ Waits(k)
  /\ \/ job[j].todo[1].name = "write" /\ job[k].todo[1].name = "write"
     \/ job[j].todo[1] = Read(Contacts) /\ job[k].todo[1] = Read(Contacts)

Linked == clean /\ linkState # "down"
Settled == AirOK /\ OneDue /\ Alone
CleanOK == Linked => Settled /\ InfoOK /\ SettingsOK /\ ChannelsOK /\ (Doomed \/ ContactsOK)

---------------------------------------------------------------------------
(* What the radio keeps, point by point.                                   *)

LEMMA ItemsAre ==
  /\ SlotSet \subseteq Items /\ Contacts \subseteq Items /\ SettingKeys \subseteq Items
  /\ \A x \in SlotSet : x \notin Contacts /\ x \notin SettingKeys
  /\ \A x \in Contacts : x \notin SettingKeys
  /\ Contacts # {} /\ SettingKeys # {}
BY CommandsAssumption DEF Items, SettingKeys

LEMMA PartialIs == ASSUME NEW f PROVE f \in Partial <=> DOMAIN f \subseteq Items /\ f \in [DOMAIN f -> Vals]
BY DEF Partial

\* What f ++ g and Only come to, point by point.
LEMMA OverOf ==
  ASSUME NEW f \in Partial, NEW g \in Partial, NEW h, h = f ++ g
  PROVE  h \in Partial /\ \A x : /\ x \in DOMAIN h <=> x \in DOMAIN f \/ x \in DOMAIN g
                                 /\ x \in DOMAIN f => h[x] = f[x]
                                 /\ x \in DOMAIN g /\ x \notin DOMAIN f => h[x] = g[x]
<1>1. DOMAIN f \subseteq Items /\ DOMAIN g \subseteq Items /\ (\A x \in DOMAIN f : f[x] \in Vals) /\ \A x \in DOMAIN g : g[x] \in Vals
  BY PartialIs
<1>2. h = [x \in DOMAIN f \cup DOMAIN g |-> IF x \in DOMAIN f THEN f[x] ELSE g[x]]
  BY DEF ++
<1>3. DOMAIN h \subseteq Items /\ h \in [DOMAIN h -> Vals]
  BY <1>1, <1>2
<1>4. h \in Partial
  BY <1>3, PartialIs
<1>5. \A x \in DOMAIN h : h[x] = IF x \in DOMAIN f THEN f[x] ELSE g[x]
  BY <1>2
<1>6. DOMAIN h = DOMAIN f \cup DOMAIN g
  BY <1>2
<1> QED
  BY <1>4, <1>5, <1>6

LEMMA OverAll ==
  ASSUME NEW f \in Partial, NEW g \in [Items -> Vals], NEW h, h = f ++ g
  PROVE  h \in [Items -> Vals] /\ \A x \in Items : /\ x \in DOMAIN f => h[x] = f[x]
                                                   /\ x \notin DOMAIN f => h[x] = g[x]
<1>1. DOMAIN f \subseteq Items /\ DOMAIN g = Items /\ (\A x \in DOMAIN f : f[x] \in Vals) /\ \A x \in Items : g[x] \in Vals
  BY PartialIs
<1>2. h = [x \in DOMAIN f \cup DOMAIN g |-> IF x \in DOMAIN f THEN f[x] ELSE g[x]]
  BY DEF ++
<1>3. DOMAIN f \cup DOMAIN g = Items
  BY <1>1
<1>4. h = [x \in Items |-> IF x \in DOMAIN f THEN f[x] ELSE g[x]]
  BY <1>2, <1>3
<1> QED
  BY <1>1, <1>4

LEMMA OnlyOf ==
  ASSUME NEW f \in Partial, NEW S, NEW g, g = Only(f, S)
  PROVE  g \in Partial /\ \A x : /\ x \in DOMAIN g <=> x \in DOMAIN f /\ x \in S
                                 /\ x \in DOMAIN g => g[x] = f[x]
<1>1. g = [x \in DOMAIN f \cap S |-> f[x]] /\ DOMAIN f \subseteq Items /\ \A x \in DOMAIN f : f[x] \in Vals
  BY PartialIs DEF Only
<1> QED
  BY <1>1, PartialIs

LEMMA NothingIs == Nothing \in Partial /\ DOMAIN Nothing = {} /\ \A f : DOMAIN f = {} /\ f \in Partial => f = Nothing
<1>1. Nothing = [x \in {} |-> None] /\ DOMAIN Nothing = {}
  BY DEF Nothing
<1>2. ASSUME NEW f \in Partial, DOMAIN f = {} PROVE f = Nothing
  <2>1. f = [x \in DOMAIN f |-> f[x]]
    BY PartialIs
  <2> QED
    BY <1>1, <1>2, <2>1
<1> QED
  BY <1>1, <1>2, PartialIs

LEMMA TotalPartial == ASSUME NEW f \in [Items -> Vals] PROVE f \in Partial
BY PartialIs

---------------------------------------------------------------------------
(* The queue, and lists of contacts.                                       *)

LEMMA RemovedIs ==
  ASSUME NEW S, NEW q \in Seq(S), Distinct(q), NEW e
  PROVE  /\ RemoveFirst(q, e) \in Seq(S) /\ Distinct(RemoveFirst(q, e))
         /\ \A x : Holds(RemoveFirst(q, e), x) <=> Holds(q, x) /\ x # e
         /\ q # <<>> /\ q[1] # e => RemoveFirst(q, e)[1] = q[1]
<1>1. Len(q) \in Nat /\ DOMAIN q = 1..Len(q)
  OBVIOUS
<1>2. CASE ~Holds(q, e)
  <2>1. RemoveFirst(q, e) = q
    BY <1>1, <1>2 DEF RemoveFirst, Holds
  <2> QED
    BY <1>2, <2>1
<1>3. CASE Holds(q, e)
  <2> PICK i \in 1..Len(q) : q[i] = e
    BY <1>1, <1>3 DEF Holds
  <2>1. {k \in 1..Len(q) : q[k] = e} = {i}
    BY <1>1 DEF Distinct
  <2>2. Min({i}) = i
    BY <1>1 DEF Min
  <2>3. SelectInSeq(q, LAMBDA v : v = e) = i
    BY <2>1, <2>2 DEF SelectInSeq
  <2>4. RemoveFirst(q, e) = SubSeq(q, 1, i - 1) \o SubSeq(q, i + 1, Len(q))
    BY <2>3 DEF RemoveFirst, RemoveAt
  <2>13. PICK r : r = RemoveFirst(q, e)
    OBVIOUS
  <2>14. PICK a : a = SubSeq(q, 1, i - 1)
    OBVIOUS
  <2>15. PICK b : b = SubSeq(q, i + 1, Len(q))
    OBVIOUS
  <2>5. a \in Seq(S) /\ Len(a) = i - 1 /\ \A k \in 1..(i - 1) : a[k] = q[k]
    <3>1. \A k \in 1..(i - 1) : q[k] \in S
      BY <1>1
    <3>2. i - 1 \in Int /\ i - 1 - 1 + 1 = i - 1 /\ \A k \in 1..(i - 1) : 1 + k - 1 = k
      BY <1>1
    <3> QED
      BY <2>14, <3>1, <3>2, SubSeqProperties
  <2>6. b \in Seq(S) /\ Len(b) = Len(q) - i /\ \A k \in 1..(Len(q) - i) : b[k] = q[i + k]
    <3>1. \A k \in (i + 1)..Len(q) : q[k] \in S
      BY <1>1
    <3>2. i + 1 \in Int /\ Len(q) \in Int /\ i \in Int /\ i <= Len(q)
      BY <1>1
    <3>3. /\ b \in Seq(S) /\ Len(b) = IF i + 1 <= Len(q) THEN Len(q) - (i + 1) + 1 ELSE 0
          /\ \A k \in 1..(Len(q) - (i + 1) + 1) : b[k] = q[i + 1 + k - 1]
      BY <2>15, <3>1, <3>2, SubSeqProperties
    <3>4. Len(q) - (i + 1) + 1 = Len(q) - i
      BY <3>2
    <3>5. \A k \in 1..(Len(q) - i) : i + 1 + k - 1 = i + k
      BY <3>2
    <3>6. Len(b) = Len(q) - i
      BY <3>2, <3>3
    <3> QED
      BY <3>3, <3>4, <3>5, <3>6
  <2>7. r = a \o b
    BY <2>4, <2>13, <2>14, <2>15
  <2>8. r \in Seq(S) /\ DOMAIN r = 1..(Len(q) - 1)
    <3>1. r \in Seq(S) /\ Len(r) = Len(a) + Len(b)
      BY <2>5, <2>6, <2>7, ConcatProperties
    <3>2. Len(r) = Len(q) - 1
      BY <1>1, <2>5, <2>6, <3>1
    <3> QED
      BY <3>1, <3>2
  <2>9. \A k \in 1..(Len(q) - 1) : r[k] = IF k < i THEN q[k] ELSE q[k + 1]
    <3> SUFFICES ASSUME NEW k \in 1..(Len(q) - 1) PROVE r[k] = IF k < i THEN q[k] ELSE q[k + 1]
      OBVIOUS
    <3>3. \A m \in 1..(Len(a) + Len(b)) : (a \o b)[m] = IF m <= Len(a) THEN a[m] ELSE b[m - Len(a)]
      BY <2>5, <2>6, ConcatProperties
    <3>4. k \in 1..(Len(a) + Len(b))
      BY <1>1, <2>5, <2>6
    <3>5. r[k] = IF k <= Len(a) THEN a[k] ELSE b[k - Len(a)]
      BY <2>7, <3>3, <3>4
    <3>1. CASE k < i
      BY <1>1, <2>5, <3>1, <3>5
    <3>2. CASE ~(k < i)
      <4>1. r[k] = b[k - (i - 1)]
        BY <1>1, <2>5, <3>2, <3>5
      <4>2. k - (i - 1) \in 1..(Len(q) - i) /\ i + (k - (i - 1)) = k + 1
        BY <1>1, <3>2
      <4> QED
        BY <2>6, <3>2, <4>1, <4>2
    <3> QED
      BY <3>1, <3>2
  <2>10. Distinct(r)
    <3> SUFFICES ASSUME NEW k \in 1..(Len(q) - 1), NEW m \in 1..(Len(q) - 1), r[k] = r[m] PROVE k = m
      BY <2>8 DEF Distinct
    <3>1. PICK x \in 1..Len(q) : r[k] = q[x] /\ x = IF k < i THEN k ELSE k + 1
      BY <1>1, <2>9
    <3>2. PICK y \in 1..Len(q) : r[m] = q[y] /\ y = IF m < i THEN m ELSE m + 1
      BY <1>1, <2>9
    <3>3. x = y
      BY <1>1, <3>1, <3>2 DEF Distinct
    <3> QED
      BY <3>1, <3>2, <3>3
  <2>11. ASSUME NEW x PROVE Holds(r, x) <=> Holds(q, x) /\ x # e
    <3>1. ASSUME NEW k \in 1..(Len(q) - 1), r[k] = x PROVE Holds(q, x) /\ x # e
      <4>1. PICK y \in 1..Len(q) : r[k] = q[y] /\ y = IF k < i THEN k ELSE k + 1
        BY <1>1, <2>9
      <4>2. y # i
        BY <4>1
      <4> QED
        BY <1>1, <3>1, <4>1, <4>2 DEF Distinct, Holds
    <3>2. ASSUME NEW k \in 1..Len(q), q[k] = x, x # e PROVE Holds(r, x)
      <4>1. k # i
        BY <3>2
      <4>2. PICK m \in 1..(Len(q) - 1) : m = IF k < i THEN k ELSE k - 1
        BY <1>1, <4>1
      <4>3. r[m] = q[k]
        BY <2>9, <4>1, <4>2
      <4> QED
        BY <2>8, <3>2, <4>3 DEF Holds
    <3> QED
      BY <1>1, <2>8, <3>1, <3>2 DEF Holds
  <2>12. q # <<>> /\ q[1] # e => r[1] = q[1]
    <3>1. ASSUME q[1] # e PROVE r[1] = q[1]
      <4>1. 1 < i /\ 1 \in 1..(Len(q) - 1)
        BY <1>1, <3>1
      <4> QED
        BY <2>9, <4>1
    <3> QED
      BY <3>1
  <2> QED
    BY <2>8, <2>10, <2>11, <2>12, <2>13
<1> QED
  BY <1>2, <1>3

LEMMA AppendedIs ==
  ASSUME NEW S, NEW q \in Seq(S), Distinct(q), NEW e \in S, ~Holds(q, e)
  PROVE  /\ Append(q, e) \in Seq(S) /\ Distinct(Append(q, e))
         /\ \A x : Holds(Append(q, e), x) <=> Holds(q, x) \/ x = e
         /\ q # <<>> => Append(q, e)[1] = q[1]
<1> PICK r : r = Append(q, e)
  OBVIOUS
<1>1. Len(q) \in Nat /\ DOMAIN q = 1..Len(q) /\ r \in Seq(S) /\ DOMAIN r = 1..(Len(q) + 1)
  OBVIOUS
<1>2. r[Len(q) + 1] = e /\ \A k \in 1..Len(q) : r[k] = q[k]
  BY <1>1
<1>3. Distinct(r)
  BY <1>1, <1>2 DEF Distinct, Holds
<1>4. ASSUME NEW x PROVE Holds(r, x) <=> Holds(q, x) \/ x = e
  BY <1>1, <1>2 DEF Holds
<1>5. q # <<>> => r[1] = q[1]
  BY <1>1, <1>2
<1> QED
  BY <1>1, <1>3, <1>4, <1>5

LEMMA TailIs ==
  ASSUME NEW S, NEW q \in Seq(S), Distinct(q), q # <<>>
  PROVE  /\ Tail(q) \in Seq(S) /\ Distinct(Tail(q)) /\ Head(q) = q[1]
         /\ \A x : Holds(Tail(q), x) <=> Holds(q, x) /\ x # q[1]
<1> PICK r : r = Tail(q)
  OBVIOUS
<1>1. Len(q) \in Nat /\ Len(q) > 0 /\ DOMAIN q = 1..Len(q) /\ r \in Seq(S) /\ DOMAIN r = 1..(Len(q) - 1) /\ Head(q) = q[1]
  OBVIOUS
<1>2. \A k \in 1..(Len(q) - 1) : r[k] = q[k + 1]
  BY <1>1
<1>3. Distinct(r)
  <2> SUFFICES ASSUME NEW k \in 1..(Len(q) - 1), NEW m \in 1..(Len(q) - 1), r[k] = r[m] PROVE k = m
    BY <1>1 DEF Distinct
  <2>1. q[k + 1] = q[m + 1] /\ k + 1 \in 1..Len(q) /\ m + 1 \in 1..Len(q)
    BY <1>1, <1>2
  <2>2. k + 1 = m + 1
    BY <1>1, <2>1 DEF Distinct
  <2> QED
    BY <2>2
<1>4. ASSUME NEW x PROVE Holds(r, x) <=> Holds(q, x) /\ x # q[1]
  <2>1. ASSUME NEW k \in 1..(Len(q) - 1), r[k] = x PROVE Holds(q, x) /\ x # q[1]
    <3>1. k + 1 \in 1..Len(q) /\ q[k + 1] = x /\ k + 1 # 1
      BY <1>1, <1>2, <2>1
    <3> QED
      BY <1>1, <3>1 DEF Distinct, Holds
  <2>2. ASSUME NEW k \in 1..Len(q), q[k] = x, x # q[1] PROVE Holds(r, x)
    <3>1. k - 1 \in 1..(Len(q) - 1) /\ (k - 1) + 1 = k
      BY <1>1, <2>2
    <3> QED
      BY <1>1, <1>2, <2>2, <3>1 DEF Holds
  <2> QED
    BY <1>1, <2>1, <2>2 DEF Holds
<1> QED
  BY <1>1, <1>3, <1>4

\* The contacts of a list, each once.
LEMMA SequenceOf ==
  ASSUME NEW S, IsFiniteSet(S)
  PROVE  SetToSeq(S) \in Seq(S) /\ \A x \in S : Holds(SetToSeq(S), x)
<1>1. Cardinality(S) \in Nat /\ ExistsBijection(1..Cardinality(S), S)
  BY FS_CardinalityType
<1>2. PICK g : g \in Bijection(1..Cardinality(S), S)
  BY <1>1 DEF ExistsBijection
<1>3. g \in [1..Cardinality(S) -> S] /\ IsInjective(g)
  BY <1>2 DEF Bijection, Injection
<1> PICK f : f = SetToSeq(S)
  OBVIOUS
<1>4. f \in [1..Cardinality(S) -> S] /\ IsInjective(f)
  BY <1>3 DEF SetToSeq
<1>5. f \in Injection(1..Cardinality(S), S)
  BY <1>4 DEF Injection
<1>6. IsFiniteSet(1..Cardinality(S)) /\ Cardinality(1..Cardinality(S)) = Cardinality(S)
  BY <1>1, FS_Interval
<1>7. f \in Surjection(1..Cardinality(S), S)
  BY <1>5, <1>6, FS_Injection
<1>8. f \in Seq(S) /\ DOMAIN f = 1..Cardinality(S)
  BY <1>1, <1>4
<1> QED
  BY <1>7, <1>8 DEF Surjection, Holds

---------------------------------------------------------------------------
(* Commands and jobs.                                                      *)

LEMMA CommandIs ==
  /\ \A w : Write(w).name = "write" /\ Write(w).writes = w /\ Write(w).reads = {}
  /\ \A s : Read(s).name = "read" /\ Read(s).writes = Nothing /\ Read(s).reads = s
  /\ \A w \in Partial : Write(w) \in Command
  /\ \A s \in SUBSET Items : Read(s) \in Command
<1>1. \A s \in SUBSET Items : Read(s) \in Command
  BY NothingIs DEF Read, Command
<1> QED
  BY <1>1 DEF Write, Read, Command

LEMMA Asked ==
  /\ Contacts \in SUBSET Items /\ SettingKeys \in SUBSET Items /\ \A s \in SlotSet : {s} \in SUBSET Items
  /\ Contacts # {} /\ SettingKeys # {} /\ Contacts # SettingKeys
  /\ \A s \in SlotSet : {s} # Contacts /\ {s} # SettingKeys /\ {s} # {}
  /\ ~(Contacts \subseteq SlotSet) /\ ~(SettingKeys \subseteq SlotSet)
BY ItemsAre

PatchOK(kind, patch) ==
  /\ patch \in Partial
  /\ kind = "set" => DOMAIN patch \subseteq SlotSet
  /\ kind = "remove" => DOMAIN patch \subseteq Contacts /\ \A c \in DOMAIN patch : patch[c] = None
  /\ kind = "import" => DOMAIN patch \subseteq Contacts
  /\ kind = "settings" => DOMAIN patch \subseteq SettingKeys /\ DOMAIN patch # {}
  /\ kind = "plain" => patch = Nothing

\* What is written of settings.
Saves(t, r) ==
  /\ t \in Seq(Command)
  /\ \A i \in DOMAIN t : /\ t[i] = Write(t[i].writes) /\ DOMAIN t[i].writes \subseteq SettingKeys
                         /\ \A x \in DOMAIN t[i].writes : t[i].writes[x] = Final(r, x)

LEMMA Joined ==
  ASSUME NEW S, NEW a \in Seq(S), NEW b \in Seq(S)
  PROVE  /\ a \o b \in Seq(S) /\ DOMAIN (a \o b) = 1..(Len(a) + Len(b)) /\ Len(a) \in Nat /\ Len(b) \in Nat
         /\ \A i \in DOMAIN (a \o b) : \/ i \in DOMAIN a /\ (a \o b)[i] = a[i]
                                       \/ i - Len(a) \in DOMAIN b /\ (a \o b)[i] = b[i - Len(a)]
         /\ \A i \in DOMAIN a : i \in DOMAIN (a \o b) /\ (a \o b)[i] = a[i]
         /\ \A i \in DOMAIN b : Len(a) + i \in DOMAIN (a \o b) /\ (a \o b)[Len(a) + i] = b[i]
<1>1. Len(a) \in Nat /\ Len(b) \in Nat /\ DOMAIN a = 1..Len(a) /\ DOMAIN b = 1..Len(b)
  OBVIOUS
<1>2. PICK c : c = a \o b
  OBVIOUS
<1>3. c \in Seq(S) /\ DOMAIN c = 1..(Len(a) + Len(b))
      /\ \A i \in 1..(Len(a) + Len(b)) : c[i] = IF i <= Len(a) THEN a[i] ELSE b[i - Len(a)]
  BY <1>1, <1>2, ConcatProperties, LenProperties
<1>4. \A i \in DOMAIN c : (i \in DOMAIN a /\ c[i] = a[i]) \/ (i - Len(a) \in DOMAIN b /\ c[i] = b[i - Len(a)])
  BY <1>1, <1>3
<1>5. \A i \in DOMAIN a : i \in DOMAIN c /\ c[i] = a[i]
  BY <1>1, <1>3
<1>6. ASSUME NEW i \in DOMAIN b PROVE Len(a) + i \in DOMAIN c /\ c[Len(a) + i] = b[i]
  <2>1. Len(a) + i \in 1..(Len(a) + Len(b)) /\ ~(Len(a) + i <= Len(a)) /\ (Len(a) + i) - Len(a) = i
    BY <1>1
  <2> QED
    BY <1>3, <2>1
<1> QED
  BY <1>1, <1>2, <1>3, <1>4, <1>5, <1>6

LEMMA OneCommand ==
  ASSUME NEW c \in Command
  PROVE  <<c>> \in Seq(Command) /\ DOMAIN <<c>> = 1..1 /\ <<c>>[1] = c /\ <<c>> # <<>>
OBVIOUS

LEMMA SettingsSent ==
  ASSUME NEW patch \in Partial, DOMAIN patch \subseteq SettingKeys, DOMAIN patch # {},
         NEW old \in Partial, DOMAIN old = SettingKeys, NEW r, r.patch = patch, r.old = old
  PROVE  /\ Saves(SettingsCommands(patch, old), r) /\ SettingsCommands(patch, old) # <<>>
         /\ \A x \in DOMAIN patch : \E i \in DOMAIN SettingsCommands(patch, old) :
              x \in DOMAIN SettingsCommands(patch, old)[i].writes
<1>1. PICK n : n = Only(patch, {Name})
  OBVIOUS
<1>2. PICK p : p = Only(patch, Params) ++ Only(old, Params)
  OBVIOUS
<1>3. n \in Partial /\ DOMAIN n = DOMAIN patch \cap {Name} /\ \A x \in DOMAIN n : n[x] = Final(r, x)
  <2>1. n \in Partial /\ \A x : (x \in DOMAIN n <=> x \in DOMAIN patch /\ x \in {Name}) /\ (x \in DOMAIN n => n[x] = patch[x])
    BY <1>1, OnlyOf
  <2> QED
    BY <2>1 DEF Final
<1>4. p \in Partial /\ DOMAIN p = Params /\ \A x \in DOMAIN p : p[x] = Final(r, x)
  <2>1. PICK f : f = Only(patch, Params)
    OBVIOUS
  <2>2. PICK g : g = Only(old, Params)
    OBVIOUS
  <2>3. f \in Partial /\ \A x : (x \in DOMAIN f <=> x \in DOMAIN patch /\ x \in Params) /\ (x \in DOMAIN f => f[x] = patch[x])
    BY <2>1, OnlyOf
  <2>4. g \in Partial /\ \A x : (x \in DOMAIN g <=> x \in DOMAIN old /\ x \in Params) /\ (x \in DOMAIN g => g[x] = old[x])
    BY <2>2, OnlyOf
  <2>5. p = f ++ g
    BY <1>2, <2>1, <2>2
  <2>6. p \in Partial /\ \A x : /\ x \in DOMAIN p <=> x \in DOMAIN f \/ x \in DOMAIN g
                                /\ x \in DOMAIN f => p[x] = f[x]
                                /\ x \in DOMAIN g /\ x \notin DOMAIN f => p[x] = g[x]
    BY <2>3, <2>4, <2>5, OverOf
  <2>7. Params \subseteq SettingKeys
    BY DEF SettingKeys
  <2>8. \A x : x \in DOMAIN f \/ x \in DOMAIN g <=> x \in Params
    BY <2>3, <2>4, <2>7
  <2> QED
    BY <2>3, <2>4, <2>6, <2>8 DEF Final
<1>5. PICK a : a = IF Name \in DOMAIN patch THEN <<Write(n)>> ELSE <<>>
  OBVIOUS
<1>6. PICK b : b = IF DOMAIN patch \cap Params # {} THEN <<Write(p)>> ELSE <<>>
  OBVIOUS
<1>7. SettingsCommands(patch, old) = a \o b
  <2>1. /\ a = IF Name \in DOMAIN patch THEN <<Write(Only(patch, {Name}))>> ELSE <<>>
        /\ b = IF DOMAIN patch \cap Params # {} THEN <<Write(Only(patch, Params) ++ Only(old, Params))>> ELSE <<>>
    BY <1>1, <1>2, <1>5, <1>6, Zenon
  <2> QED
    BY <2>1, Zenon DEF SettingsCommands
<1>8. Write(n) \in Command /\ Write(p) \in Command
  BY <1>3, <1>4, CommandIs
<1>9. a \in Seq(Command) /\ \A i \in DOMAIN a : a[i] = Write(n)
  BY <1>5, <1>8, OneCommand
<1>10. b \in Seq(Command) /\ \A i \in DOMAIN b : b[i] = Write(p)
  BY <1>6, <1>8, OneCommand
<1>11. PICK t : t = a \o b
  OBVIOUS
<1>12. t \in Seq(Command) /\ \A i \in DOMAIN t : t[i] = Write(n) \/ t[i] = Write(p)
  BY <1>9, <1>10, <1>11, Joined
<1>13. (\A i \in DOMAIN a : \E k \in DOMAIN t : t[k] = a[i]) /\ (\A i \in DOMAIN b : \E k \in DOMAIN t : t[k] = b[i])
  BY <1>9, <1>10, <1>11, Joined, SMTT(20)
<1>14. Name \in SettingKeys /\ Params \subseteq SettingKeys
  BY DEF SettingKeys
<1>15. DOMAIN n \subseteq SettingKeys /\ DOMAIN p \subseteq SettingKeys
  BY <1>3, <1>4, <1>14
<1>16. ASSUME NEW i \in DOMAIN t
       PROVE  /\ t[i] = Write(t[i].writes) /\ DOMAIN t[i].writes \subseteq SettingKeys
              /\ \A x \in DOMAIN t[i].writes : t[i].writes[x] = Final(r, x)
  <2>1. CASE t[i] = Write(n)
    BY <1>3, <1>15, <2>1, CommandIs
  <2>2. CASE t[i] = Write(p)
    BY <1>4, <1>15, <2>2, CommandIs
  <2> QED
    BY <1>12, <2>1, <2>2
<1>17. ASSUME NEW x \in DOMAIN patch PROVE \E i \in DOMAIN t : x \in DOMAIN t[i].writes
  <2>1. CASE x = Name
    <3>1. a = <<Write(n)>>
      BY <1>5, <2>1
    <3>2. 1 \in DOMAIN a /\ a[1] = Write(n)
      BY <1>8, <3>1, OneCommand
    <3>3. PICK k \in DOMAIN t : t[k] = Write(n)
      BY <1>13, <3>2
    <3>4. x \in DOMAIN n /\ Write(n).writes = n
      BY <1>3, <2>1, CommandIs
    <3> QED
      BY <3>3, <3>4
  <2>2. CASE x # Name
    <3>1. x \in Params
      BY <2>2 DEF SettingKeys
    <3>2. b = <<Write(p)>>
      BY <1>6, <3>1
    <3>3. 1 \in DOMAIN b /\ b[1] = Write(p)
      BY <1>8, <3>2, OneCommand
    <3>4. PICK k \in DOMAIN t : t[k] = Write(p)
      BY <1>13, <3>3
    <3>5. x \in DOMAIN p /\ Write(p).writes = p
      BY <1>4, <3>1, CommandIs
    <3> QED
      BY <3>4, <3>5
  <2> QED
    BY <2>1, <2>2
<1>18. t # <<>>
  BY <1>17
<1>19. SettingsCommands(patch, old) = t
  BY <1>7, <1>11
<1>20. Saves(t, r)
  BY <1>12, <1>16 DEF Saves
<1> QED
  BY <1>17, <1>18, <1>19, <1>20

\* Every slot is read.
ReadsSlots(t) ==
  /\ t \in Seq(Command) /\ t # <<>>
  /\ \A i \in DOMAIN t : \E s \in SlotSet : t[i] = Read({s})
  /\ \A s \in SlotSet : \E i \in DOMAIN t : t[i] = Read({s})

LEMMA ChannelsRead == \A patch, old : ReadsSlots(Commands("channels", patch, old))
<1>9. SUFFICES ASSUME NEW patch, NEW old, NEW t, t = Commands("channels", patch, old) PROVE ReadsSlots(t)
  OBVIOUS
<1>8. t = [i \in DOMAIN Slots |-> Read({Slots[i]})]
  BY <1>9 DEF Commands
<1>1. Len(Slots) \in Nat /\ DOMAIN Slots = 1..Len(Slots) /\ Slots # <<>> /\ 1 \in DOMAIN Slots /\ \A i \in DOMAIN Slots : Slots[i] \in SlotSet
  BY CommandsAssumption
<1>2. \A s \in SlotSet : Read({s}) \in Command
  BY CommandIs, Asked
<1>3. \A s \in SlotSet : \E i \in DOMAIN Slots : Slots[i] = s
  BY DEF SlotSet, Range
<1>4. DOMAIN t = 1..Len(Slots) /\ \A i \in 1..Len(Slots) : t[i] = Read({Slots[i]}) /\ t[i] \in Command
  BY <1>1, <1>2, <1>8
<1>5. t \in [1..Len(Slots) -> Command]
  BY <1>1, <1>2, <1>8
<1>6. t \in Seq(Command) /\ t # <<>>
  BY <1>1, <1>5
<1>7. \A s \in SlotSet : \E i \in DOMAIN t : t[i] = Read({s})
  <2> SUFFICES ASSUME NEW s \in SlotSet PROVE \E i \in DOMAIN t : t[i] = Read({s})
    OBVIOUS
  <2>1. PICK i \in DOMAIN Slots : Slots[i] = s
    BY <1>3
  <2> QED
    BY <1>1, <1>4, <2>1
<1> QED
  BY <1>1, <1>4, <1>6, <1>7 DEF ReadsSlots

LEMMA NewOK ==
  ASSUME NEW kind \in Kinds, NEW patch, PatchOK(kind, patch), store \in [Items -> Vals], NEW r, r = New(kind, patch)
  PROVE  /\ r \in JobType /\ Shape(r) /\ r.todo # <<>> /\ r.kind = kind /\ r.patch = patch /\ r.pc = "queued" /\ r.live
         /\ r.got = Nothing
         /\ kind = "settings" => /\ \A x \in DOMAIN patch : \E i \in DOMAIN r.todo : x \in DOMAIN r.todo[i].writes
                                 /\ \A x \in SettingKeys : r.old[x] = store[x]
         /\ kind = "channels" => \A s \in SlotSet : \E i \in DOMAIN r.todo : r.todo[i] = Read({s})
<1>1. PICK old : old = Only(store, SettingKeys)
  OBVIOUS
<1>2. store \in Partial /\ DOMAIN store = Items
  BY TotalPartial
<1>3. old \in Partial /\ \A x : (x \in DOMAIN old <=> x \in DOMAIN store /\ x \in SettingKeys) /\ (x \in DOMAIN old => old[x] = store[x])
  BY <1>1, <1>2, OnlyOf
<1>4. DOMAIN old = SettingKeys /\ \A x \in SettingKeys : old[x] = store[x]
  BY <1>2, <1>3, ItemsAre
<1>5. PICK t : t = Commands(kind, patch, old)
  OBVIOUS
<1>6. r = [kind |-> kind, patch |-> patch, old |-> old, todo |-> t, pc |-> "queued", got |-> Nothing, live |-> TRUE]
  BY <1>1, <1>5 DEF New
<1>7. patch \in Partial
  BY DEF PatchOK
<1>8. r.kind = kind /\ r.patch = patch /\ r.old = old /\ r.todo = t /\ r.pc = "queued" /\ r.got = Nothing /\ r.live = TRUE
  BY <1>6
<1>9. t \in Seq(Command) => r \in JobType
  BY <1>3, <1>6, <1>7, NothingIs DEF JobType
<1>10. DOMAIN Nothing = {}
  BY NothingIs
<1>11. CASE kind \in {"set", "remove", "plain"}
  <2>1. t = <<Write(patch)>> /\ Write(patch) \in Command
    BY <1>5, <1>7, <1>11, CommandIs DEF Commands
  <2>2. t \in Seq(Command) /\ t # <<>>
    BY <2>1
  <2>3. Shape(r)
    BY <1>8, <1>10, <1>11, <2>1 DEF Shape, PatchOK
  <2> QED
    BY <1>8, <1>9, <1>11, <2>2, <2>3
<1>12. CASE kind = "import"
  <2>1. t = <<Write(patch), Read(Contacts)>> /\ Write(patch) \in Command /\ Read(Contacts) \in Command
    BY <1>5, <1>7, <1>12, CommandIs, Asked DEF Commands
  <2>2. t \in Seq(Command) /\ t # <<>>
    BY <2>1
  <2>3. Shape(r)
    BY <1>8, <1>10, <1>12, <2>1 DEF Shape, PatchOK
  <2> QED
    BY <1>8, <1>9, <1>12, <2>2, <2>3
<1>13. CASE kind \in {"contacts", "self"}
  <2>1. t = <<Read(IF kind = "self" THEN SettingKeys ELSE Contacts)>>
    BY <1>5, <1>13 DEF Commands
  <2>2. Read(SettingKeys) \in Command /\ Read(Contacts) \in Command
    BY CommandIs, Asked
  <2>3. t \in Seq(Command) /\ t # <<>>
    BY <2>1, <2>2
  <2>4. Shape(r)
    BY <1>8, <1>10, <1>13, <2>1 DEF Shape
  <2> QED
    BY <1>8, <1>9, <1>13, <2>3, <2>4
<1>14. CASE kind = "channels"
  <2>1. t = Commands("channels", patch, old)
    BY <1>5, <1>14
  <2>4. ReadsSlots(t)
    BY <2>1, ChannelsRead
  <2>2. /\ t \in Seq(Command) /\ t # <<>> /\ \A i \in DOMAIN t : \E s \in SlotSet : t[i] = Read({s})
        /\ \A s \in SlotSet : \E i \in DOMAIN t : t[i] = Read({s})
    BY <2>4 DEF ReadsSlots
  <2>3. Shape(r)
    BY <1>8, <1>10, <1>14, <2>2 DEF Shape
  <2> QED
    BY <1>8, <1>9, <1>14, <2>2, <2>3
<1>15. CASE kind = "settings"
  <2>1. t = SettingsCommands(patch, old)
    BY <1>5, <1>15 DEF Commands
  <2>2. DOMAIN patch \subseteq SettingKeys /\ DOMAIN patch # {}
    BY <1>15 DEF PatchOK
  <2>3. /\ Saves(SettingsCommands(patch, old), r) /\ SettingsCommands(patch, old) # <<>>
        /\ \A x \in DOMAIN patch : \E i \in DOMAIN SettingsCommands(patch, old) :
              x \in DOMAIN SettingsCommands(patch, old)[i].writes
    BY <1>3, <1>4, <1>7, <1>8, <2>2, SettingsSent
  <2>4. Saves(t, r) /\ t # <<>> /\ \A x \in DOMAIN patch : \E i \in DOMAIN t : x \in DOMAIN t[i].writes
    BY <2>1, <2>3
  <2>5. Shape(r)
    BY <1>4, <1>8, <1>15, <2>2, <2>4 DEF Shape, Saves
  <2> QED
    BY <1>4, <1>8, <1>9, <1>15, <2>4, <2>5 DEF Saves
<1> QED
  BY <1>11, <1>12, <1>13, <1>14, <1>15 DEF Kinds, Channel

---------------------------------------------------------------------------
(* What is sent.                                                           *)

CommandOK(c) == c \in Command /\ (c = Write(c.writes) \/ c = Read(Contacts) \/ c = Read(SettingKeys) \/ \E s \in SlotSet : c = Read({s}))

\* The radio's answers to a command, and what it keeps after it.
Answers(j, c) ==
  /\ radio' \in [Items -> Vals] /\ air' \in Seq(FrameType)
  /\ DOMAIN air = 1..Len(air) /\ DOMAIN air' = 1..Len(air') /\ Len(air) \in Nat /\ Len(air') \in Nat /\ Len(air') > Len(air)
  /\ \A i \in DOMAIN air : i \in DOMAIN air' /\ air'[i] = air[i]
  /\ \A i \in DOMAIN air' : i \notin DOMAIN air =>
       /\ air'[i].for = j /\ FrameOK(air'[i])
       /\ i # Len(air') => air'[i].kind = "contact" /\ c.reads = Contacts
       /\ i = Len(air') => air'[i].kind # "contact" /\ Ends(c, air'[i])
       /\ \A x \in DOMAIN air'[i].data : air'[i].data[x] = radio'[x]
  /\ air'[Len(air')].kind = "err" => radio' = radio
  /\ air'[Len(air')].kind # "err" => \A x \in Items : radio'[x] = IF x \in DOMAIN c.writes THEN c.writes[x] ELSE radio[x]
  /\ c.name = "read" => radio' = radio
  /\ c.reads = Contacts => \A x \in Contacts : radio[x] = None \/ \E i \in DOMAIN air' : i \notin DOMAIN air /\ x \in DOMAIN air'[i].data

LEMMA Received ==
  ASSUME NEW F \in Seq(FrameType), air \in Seq(FrameType), F # <<>>, air' = air \o F
  PROVE  /\ air' \in Seq(FrameType) /\ Len(F) \in Nat /\ DOMAIN F = 1..Len(F) /\ Len(F) > 0
         /\ DOMAIN air = 1..Len(air) /\ DOMAIN air' = 1..Len(air') /\ Len(air) \in Nat /\ Len(air') = Len(air) + Len(F)
         /\ \A i \in DOMAIN air : i \in DOMAIN air' /\ air'[i] = air[i]
         /\ \A i \in DOMAIN air' : i \notin DOMAIN air => \E m \in DOMAIN F : i = Len(air) + m /\ air'[i] = F[m]
         /\ \A m \in DOMAIN F : Len(air) + m \in DOMAIN air' /\ Len(air) + m \notin DOMAIN air /\ air'[Len(air) + m] = F[m]
<1>1. Len(F) \in Nat /\ DOMAIN F = 1..Len(F) /\ Len(F) > 0 /\ DOMAIN air = 1..Len(air) /\ Len(air) \in Nat
  OBVIOUS
<1>2. PICK b : b = air \o F
  OBVIOUS
<1>3. b \in Seq(FrameType) /\ Len(b) = Len(air) + Len(F) /\ DOMAIN b = 1..(Len(air) + Len(F))
      /\ \A i \in 1..(Len(air) + Len(F)) : b[i] = IF i <= Len(air) THEN air[i] ELSE F[i - Len(air)]
  BY <1>1, <1>2, ConcatProperties, LenProperties
<1>4. \A i \in DOMAIN air : i \in DOMAIN b /\ b[i] = air[i]
  BY <1>1, <1>3
<1>5. ASSUME NEW i \in DOMAIN b, i \notin DOMAIN air PROVE \E m \in DOMAIN F : i = Len(air) + m /\ b[i] = F[m]
  <2>1. i - Len(air) \in 1..Len(F) /\ i = Len(air) + (i - Len(air)) /\ ~(i <= Len(air))
    BY <1>1, <1>3, <1>5
  <2> QED
    BY <1>1, <1>3, <2>1
<1>6. ASSUME NEW m \in DOMAIN F PROVE Len(air) + m \in DOMAIN b /\ Len(air) + m \notin DOMAIN air /\ b[Len(air) + m] = F[m]
  <2>1. Len(air) + m \in 1..(Len(air) + Len(F)) /\ ~(Len(air) + m <= Len(air)) /\ (Len(air) + m) - Len(air) = m
    BY <1>1
  <2> QED
    BY <1>1, <1>3, <2>1
<1> QED
  BY <1>1, <1>2, <1>3, <1>4, <1>5, <1>6

LEMMA FrameIs ==
  ASSUME NEW kind, NEW data, NEW j
  PROVE  /\ Frame(kind, data, j).kind = kind /\ Frame(kind, data, j).data = data /\ Frame(kind, data, j).for = j
         /\ kind \in {"ok", "err", "info", "contact", "end"} /\ data \in Partial /\ j \in Jobs => Frame(kind, data, j) \in FrameType
BY DEF Frame, FrameType

LEMMA OneAnswer ==
  ASSUME NEW j \in Jobs, NEW c, CommandOK(c), radio \in [Items -> Vals], radio' \in [Items -> Vals], air \in Seq(FrameType),
         NEW f \in FrameType, FrameOK(f), f.for = j, f.kind # "contact", Ends(c, f), c.reads # Contacts,
         \A x \in DOMAIN f.data : f.data[x] = radio'[x], air' = air \o <<f>>,
         f.kind = "err" => radio' = radio,
         f.kind # "err" => \A x \in Items : radio'[x] = IF x \in DOMAIN c.writes THEN c.writes[x] ELSE radio[x],
         c.name = "read" => radio' = radio
  PROVE  Answers(j, c)
<1>1. PICK F : F = <<f>>
  OBVIOUS
<1>2. F \in Seq(FrameType) /\ F # <<>> /\ air' = air \o F /\ Len(F) = 1 /\ F[1] = f
  BY <1>1
<1>3. /\ air' \in Seq(FrameType) /\ DOMAIN F = 1..Len(F)
      /\ DOMAIN air = 1..Len(air) /\ DOMAIN air' = 1..Len(air') /\ Len(air) \in Nat /\ Len(air') = Len(air) + Len(F)
      /\ \A i \in DOMAIN air : i \in DOMAIN air' /\ air'[i] = air[i]
      /\ \A i \in DOMAIN air' : i \notin DOMAIN air => \E m \in DOMAIN F : i = Len(air) + m /\ air'[i] = F[m]
  BY <1>2, Received
<1>4. Len(air') = Len(air) + 1 /\ \A i \in DOMAIN air' : i \notin DOMAIN air => i = Len(air') /\ air'[i] = f
  BY <1>2, <1>3
<1>5. Len(air') \in DOMAIN air' /\ Len(air') \notin DOMAIN air /\ Len(air') \in Nat /\ Len(air') > Len(air)
  BY <1>3, <1>4
<1>6. air'[Len(air')] = f
  BY <1>4, <1>5
<1>7. \A i \in DOMAIN air' : i \notin DOMAIN air =>
       /\ air'[i].for = j /\ FrameOK(air'[i])
       /\ i # Len(air') => air'[i].kind = "contact" /\ c.reads = Contacts
       /\ i = Len(air') => air'[i].kind # "contact" /\ Ends(c, air'[i])
       /\ \A x \in DOMAIN air'[i].data : air'[i].data[x] = radio'[x]
  BY <1>4
<1> QED
  BY <1>3, <1>5, <1>6, <1>7 DEF Answers

LEMMA CommandShape ==
  ASSUME NEW c, CommandOK(c)
  PROVE  /\ c \in Command /\ c.writes \in Partial /\ c.name \in {"read", "write"}
         /\ c.name = "write" => c = Write(c.writes) /\ c.reads = {}
         /\ c.name = "read" => c.writes = Nothing /\ c = Read(c.reads)
                               /\ (c.reads = Contacts \/ c.reads = SettingKeys \/ \E s \in SlotSet : c.reads = {s})
<1>1. c \in Command
  BY DEF CommandOK
<1>2. c.writes \in Partial /\ c.name \in {"read", "write"}
  BY <1>1 DEF Command
<1>3. CASE c = Write(c.writes)
  <2>1. c.name = "write" /\ c.reads = {}
    BY <1>3, CommandIs
  <2> QED
    BY <1>1, <1>2, <1>3, <2>1
<1>4. ASSUME NEW S, c = Read(S), S = Contacts \/ S = SettingKeys \/ \E s \in SlotSet : S = {s}
      PROVE  c.name = "read" /\ c.writes = Nothing /\ c.reads = S
  BY <1>4, CommandIs
<1> QED
  BY <1>1, <1>2, <1>3, <1>4 DEF CommandOK

LEMMA NothingOver ==
  ASSUME NEW f \in [Items -> Vals]
  PROVE  Nothing ++ f = f
<1>1. PICK h : h = Nothing ++ f
  OBVIOUS
<1>2. h \in [Items -> Vals] /\ \A x \in Items : x \notin DOMAIN Nothing => h[x] = f[x]
  BY <1>1, NothingIs, OverAll
<1>3. h = f
  BY <1>2, NothingIs
<1> QED
  BY <1>1, <1>3

SendsList(j) == air' = air \o Listed(j)

LEMMA SequenceIs == ASSUME NEW S, NEW n \in Nat, NEW f \in [1..n -> S] PROVE f \in Seq(S) /\ Len(f) = n
OBVIOUS

LEMMA ListSent ==
  ASSUME NEW j \in Jobs, NEW c, CommandOK(c), radio \in [Items -> Vals], air \in Seq(FrameType),
         c.name = "read", c.reads = Contacts, radio' = radio, SendsList(j)
  PROVE  Answers(j, c)
<1>1. PICK H : H = {x \in Contacts : radio[x] # None}
  OBVIOUS
<1>2. IsFiniteSet(H) /\ H \subseteq Contacts
  <2>1. IsFiniteSet(Contacts)
    BY CommandsAssumption
  <2> QED
    BY <1>1, <2>1, FS_Subset
<1>3. PICK here : here = SetToSeq(H)
  OBVIOUS
<1>4. here \in Seq(H) /\ \A x \in H : Holds(here, x)
  BY <1>2, <1>3, SequenceOf
<1>5. Len(here) \in Nat /\ DOMAIN here = 1..Len(here) /\ \A i \in DOMAIN here : here[i] \in Contacts
  BY <1>2, <1>4
<1>6. PICK M : M = [i \in DOMAIN here |-> Frame("contact", [x \in {here[i]} |-> radio[here[i]]], j)]
  OBVIOUS
<1>7. PICK e : e = Frame("end", Nothing, j)
  OBVIOUS
<1>8. Listed(j) = M \o <<e>>
  BY <1>1, <1>3, <1>6, <1>7 DEF Listed
<1>9. ASSUME NEW i \in DOMAIN here
      PROVE  /\ M[i] \in FrameType /\ M[i].kind = "contact" /\ M[i].for = j /\ FrameOK(M[i])
             /\ DOMAIN M[i].data = {here[i]} /\ M[i].data[here[i]] = radio[here[i]]
  <2>1. PICK d : d = [x \in {here[i]} |-> radio[here[i]]]
    OBVIOUS
  <2>2. DOMAIN d = {here[i]} /\ d[here[i]] = radio[here[i]] /\ here[i] \in Items /\ here[i] \in Contacts
    BY <1>5, <2>1, ItemsAre
  <2>3. d \in [{here[i]} -> Vals]
    BY <2>1, <2>2
  <2>4. d \in Partial
    BY <2>2, <2>3, PartialIs
  <2>5. M[i] = Frame("contact", d, j)
    BY <1>6, <2>1
  <2>6. M[i] \in FrameType /\ M[i].kind = "contact" /\ M[i].for = j /\ M[i].data = d
    BY <2>4, <2>5, FrameIs
  <2>7. FrameOK(M[i])
    BY <2>2, <2>6 DEF FrameOK
  <2> QED
    BY <2>2, <2>6, <2>7
<1>10. M \in Seq(FrameType) /\ DOMAIN M = 1..Len(here) /\ Len(M) = Len(here)
  <2>1. DOMAIN M = 1..Len(here)
    BY <1>5, <1>6
  <2>2. M \in [1..Len(here) -> FrameType]
    BY <1>5, <1>6, <1>9
  <2> QED
    BY <1>5, <2>1, <2>2, SequenceIs
<1>11. e \in FrameType /\ e.kind = "end" /\ e.for = j /\ e.data = Nothing
  BY <1>7, FrameIs, NothingIs
<1>12. PICK E : E = <<e>>
  OBVIOUS
<1>13. E \in Seq(FrameType) /\ DOMAIN E = 1..1 /\ E[1] = e /\ Len(E) = 1
  BY <1>11, <1>12
<1>14. PICK F : F = M \o E
  OBVIOUS
<1>15. /\ F \in Seq(FrameType) /\ DOMAIN F = 1..(Len(M) + Len(E))
       /\ \A i \in DOMAIN F : (i \in DOMAIN M /\ F[i] = M[i]) \/ (i - Len(M) \in DOMAIN E /\ F[i] = E[i - Len(M)])
       /\ \A i \in DOMAIN M : i \in DOMAIN F /\ F[i] = M[i]
  <2>1. M \in Seq(FrameType) /\ E \in Seq(FrameType)
    BY <1>10, <1>13
  <2>2. /\ M \o E \in Seq(FrameType) /\ DOMAIN (M \o E) = 1..(Len(M) + Len(E))
        /\ \A i \in DOMAIN (M \o E) : (i \in DOMAIN M /\ (M \o E)[i] = M[i]) \/ (i - Len(M) \in DOMAIN E /\ (M \o E)[i] = E[i - Len(M)])
        /\ \A i \in DOMAIN M : i \in DOMAIN (M \o E) /\ (M \o E)[i] = M[i]
    BY <2>1, Joined
  <2> QED
    BY <1>14, <2>2
<1>16. DOMAIN F = 1..(Len(here) + 1)
       /\ \A i \in DOMAIN F : (i \in DOMAIN here /\ F[i] = M[i]) \/ (i = Len(here) + 1 /\ F[i] = e)
  BY <1>5, <1>10, <1>13, <1>15
<1>17. air' = air \o F /\ F # <<>> /\ Len(F) = Len(here) + 1
  <2>1. F # <<>> /\ Len(F) = Len(here) + 1
    BY <1>5, <1>15, <1>16
  <2> QED
    BY <1>8, <1>12, <1>14, <2>1 DEF SendsList
<1>18. /\ air' \in Seq(FrameType) /\ DOMAIN air = 1..Len(air) /\ DOMAIN air' = 1..Len(air') /\ Len(air) \in Nat /\ Len(air') = Len(air) + Len(F)
       /\ \A i \in DOMAIN air : i \in DOMAIN air' /\ air'[i] = air[i]
       /\ \A i \in DOMAIN air' : i \notin DOMAIN air => \E m \in DOMAIN F : i = Len(air) + m /\ air'[i] = F[m]
       /\ \A m \in DOMAIN F : Len(air) + m \in DOMAIN air' /\ Len(air) + m \notin DOMAIN air /\ air'[Len(air) + m] = F[m]
  BY <1>15, <1>17, Received
<1>19. Ends(c, e) /\ FrameOK(e) /\ DOMAIN e.data = {}
  BY <1>11, NothingIs DEF Ends, FrameOK
<1>20. ASSUME NEW i \in DOMAIN air', i \notin DOMAIN air
       PROVE  /\ air'[i].for = j /\ FrameOK(air'[i])
              /\ i # Len(air') => air'[i].kind = "contact" /\ c.reads = Contacts
              /\ i = Len(air') => air'[i].kind # "contact" /\ Ends(c, air'[i]) /\ air'[i].kind = "end"
              /\ \A x \in DOMAIN air'[i].data : air'[i].data[x] = radio'[x]
  <2>1. PICK m \in DOMAIN F : i = Len(air) + m /\ air'[i] = F[m]
    BY <1>18, <1>20
  <2>2. CASE m \in DOMAIN here /\ F[m] = M[m]
    <3>1. i # Len(air')
      BY <1>5, <1>17, <1>18, <2>1, <2>2
    <3> QED
      BY <1>9, <2>1, <2>2, <3>1
  <2>3. CASE m = Len(here) + 1 /\ F[m] = e
    <3>1. i = Len(air')
      BY <1>5, <1>17, <1>18, <2>1, <2>3
    <3> QED
      BY <1>11, <1>19, <2>1, <2>3, <3>1
  <2> QED
    BY <1>16, <2>2, <2>3
<1>21. ASSUME NEW x \in Contacts, radio[x] # None PROVE \E i \in DOMAIN air' : i \notin DOMAIN air /\ x \in DOMAIN air'[i].data
  <2>1. PICK m \in DOMAIN here : here[m] = x
    BY <1>1, <1>4, <1>21 DEF Holds
  <2>2. m \in DOMAIN F /\ F[m] = M[m] /\ x \in DOMAIN M[m].data
    BY <1>9, <1>10, <1>15, <2>1, <1>5
  <2> QED
    BY <1>18, <2>2
<1>22. Len(air') \in Nat /\ Len(air') > Len(air) /\ Len(air') \in DOMAIN air' /\ Len(air') \notin DOMAIN air
  BY <1>5, <1>17, <1>18
<1>23. air'[Len(air')].kind = "end"
  BY <1>20, <1>22
<1>24. c.writes = Nothing /\ DOMAIN Nothing = {}
  BY CommandShape, NothingIs
<1> QED
  BY <1>18, <1>20, <1>21, <1>22, <1>23, <1>24 DEF Answers

LEMMA SendsOK ==
  ASSUME NEW j \in Jobs, NEW c, CommandOK(c), radio \in [Items -> Vals], air \in Seq(FrameType), Sends(j, c)
  PROVE  Answers(j, c)
<1>1. /\ c \in Command /\ c.writes \in Partial /\ c.name \in {"read", "write"}
      /\ c.name = "write" => c = Write(c.writes) /\ c.reads = {}
      /\ c.name = "read" => c.writes = Nothing /\ c = Read(c.reads)
                            /\ (c.reads = Contacts \/ c.reads = SettingKeys \/ \E s \in SlotSet : c.reads = {s})
  BY CommandShape
<1>2. CASE Rejected(j, c)
  <2>1. PICK f : f = Frame("err", Nothing, j)
    OBVIOUS
  <2>2. f \in FrameType /\ f.kind = "err" /\ f.for = j /\ f.data = Nothing /\ DOMAIN f.data = {}
    BY <2>1, FrameIs, NothingIs
  <2>3. air' = Append(air, f) /\ radio' = radio /\ (c.name = "write" \/ c.reads \subseteq SlotSet)
    BY <1>2, <2>1 DEF Rejected
  <2>4. air' = air \o <<f>>
    BY <2>2, <2>3, AppendIsConcat
  <2>5. FrameOK(f) /\ Ends(c, f)
    BY <2>2, <2>3 DEF FrameOK, Ends
  <2>6. c.reads # Contacts
    BY <1>1, <2>3, Asked
  <2> QED
    BY <2>2, <2>3, <2>4, <2>5, <2>6, OneAnswer
<1>3. CASE Performed(j, c) /\ c.name = "write"
  <2>1. PICK f : f = Frame("ok", Nothing, j)
    OBVIOUS
  <2>2. f \in FrameType /\ f.kind = "ok" /\ f.for = j /\ f.data = Nothing /\ DOMAIN f.data = {}
    BY <2>1, FrameIs, NothingIs
  <2>3. air' = air \o <<f>> /\ radio' = c.writes ++ radio
    BY <1>3, <2>1 DEF Performed
  <2>4. radio' \in [Items -> Vals] /\ \A x \in Items : (x \in DOMAIN c.writes => radio'[x] = c.writes[x]) /\ (x \notin DOMAIN c.writes => radio'[x] = radio[x])
    BY <1>1, <2>3, OverAll
  <2>5. FrameOK(f) /\ Ends(c, f) /\ c.reads # Contacts
    BY <1>1, <1>3, <2>2, Asked DEF FrameOK, Ends
  <2> QED
    BY <1>3, <2>2, <2>3, <2>4, <2>5, OneAnswer
<1>4. CASE Performed(j, c) /\ c.name = "read"
  <2>1. radio' = radio
    <3>1. radio' = Nothing ++ radio
      BY <1>1, <1>4 DEF Performed
    <3> QED
      BY <3>1, NothingOver
  <2>2. CASE c.reads = Contacts
    <3>1. air' = air \o Listed(j)
      BY <1>4, <2>2 DEF Performed
    <3>2. SendsList(j)
      BY <3>1 DEF SendsList
    <3> QED
      BY <1>4, <2>1, <2>2, <3>2, ListSent
  <2>3. CASE c.reads # Contacts
    <3>1. PICK d : d = Only(radio, c.reads)
      OBVIOUS
    <3>2. d \in Partial /\ \A x : (x \in DOMAIN d <=> x \in DOMAIN radio /\ x \in c.reads) /\ (x \in DOMAIN d => d[x] = radio[x])
      BY <3>1, TotalPartial, OnlyOf
    <3>3. c.reads \subseteq Items
      BY <1>1, <1>4, Asked
    <3>4. DOMAIN d = c.reads /\ \A x \in DOMAIN d : d[x] = radio'[x]
      BY <2>1, <3>2, <3>3
    <3>5. PICK f : f = Frame("info", d, j)
      OBVIOUS
    <3>6. f \in FrameType /\ f.kind = "info" /\ f.for = j /\ f.data = d
      BY <3>2, <3>5, FrameIs
    <3>7. FrameOK(f) /\ Ends(c, f)
      BY <1>1, <1>4, <2>3, <3>4, <3>6 DEF FrameOK, Ends
    <3>8. air' = air \o <<f>>
      BY <1>4, <2>3, <3>1, <3>5 DEF Performed
    <3>9. \A x \in Items : radio'[x] = IF x \in DOMAIN c.writes THEN c.writes[x] ELSE radio[x]
      BY <1>1, <1>4, <2>1, NothingIs
    <3>10. \A x \in DOMAIN f.data : f.data[x] = radio'[x]
      BY <3>4, <3>6
    <3> QED
      BY <2>1, <2>3, <3>6, <3>7, <3>8, <3>9, <3>10, OneAnswer
  <2> QED
    BY <2>2, <2>3
<1> QED
  BY <1>1, <1>2, <1>3, <1>4 DEF Sends

---------------------------------------------------------------------------
(* Steps, job by job.                                                      *)

Base == CommandsOK /\ QueueOK

Keeps(j) == job' \in [Jobs -> JobType] /\ \A k \in Jobs : k # j => job'[k] = job[k]

\* A command is sent.
Sending(j) ==
  /\ Keeps(j) /\ job[j].live /\ job'[j].live /\ job'[j].pc = "waits"
  /\ job'[j].kind = job[j].kind /\ job'[j].patch = job[j].patch /\ job'[j].old = job[j].old /\ job'[j].got = job[j].got
  /\ \/ job[j].pc = "queued" /\ job'[j].todo = job[j].todo
     \/ job[j].pc = "answered" /\ Several(job[j].todo) /\ job'[j].todo = Tail(job[j].todo)
  /\ Queued(job[j].kind) => queue[1] = j
  /\ CommandOK(job'[j].todo[1]) /\ Answers(j, job'[j].todo[1])
  /\ UNCHANGED <<store, linkState, queue, clean, calls, opens>>

\* A job ends.
Ending(j) == Keeps(j) /\ job'[j] = Idle /\ job[j].pc # "idle" /\ queue' = RemoveFirst(queue, j)

\* A job begins.
Beginning(j, kind, patch) ==
  /\ Keeps(j) /\ job'[j] = New(kind, patch) /\ PatchOK(kind, patch) /\ kind \in Kinds
  /\ queue' = IF Queued(kind) THEN Append(queue, j) ELSE queue

LEMMA QueuedIs == \A kind : Queued(kind) <=> kind \in {"set", "channels"}
BY DEF Queued, Channel

LEMMA TodoOK ==
  ASSUME NEW r \in JobType, Shape(r)
  PROVE  \A i \in DOMAIN r.todo : CommandOK(r.todo[i])
<1> SUFFICES ASSUME NEW i \in DOMAIN r.todo PROVE CommandOK(r.todo[i])
  OBVIOUS
<1>1. r.todo \in Seq(Command) /\ r.kind \in Kinds /\ r.patch \in Partial
  BY DEF JobType
<1>2. r.todo[i] \in Command
  BY <1>1
<1>3. \A w : Write(w) = Write(Write(w).writes)
  BY CommandIs
<1>4. CASE r.kind \in {"set", "remove", "plain", "contacts", "self"}
  <2>1. r.todo[i] = Write(r.patch) \/ r.todo[i] = Write(Nothing) \/ r.todo[i] = Read(Contacts) \/ r.todo[i] = Read(SettingKeys)
    BY <1>4 DEF Shape
  <2> QED
    BY <1>2, <1>3, <2>1 DEF CommandOK
<1>5. CASE r.kind = "import"
  <2>1. r.todo[i] = Write(r.patch) \/ r.todo[i] = Read(Contacts)
    BY <1>5 DEF Shape
  <2> QED
    BY <1>2, <1>3, <2>1 DEF CommandOK
<1>6. CASE r.kind = "channels"
  BY <1>2, <1>6 DEF CommandOK, Shape
<1>7. CASE r.kind = "settings"
  BY <1>2, <1>7 DEF CommandOK, Shape
<1> QED
  BY <1>1, <1>4, <1>5, <1>6, <1>7 DEF Kinds, Channel

LEMMA BaseJob ==
  ASSUME Base, NEW j \in Jobs, job[j].pc # "idle"
  PROVE  /\ job[j] \in JobType /\ Shape(job[j]) /\ job[j].todo # <<>> /\ job[j].todo \in Seq(Command)
         /\ Len(job[j].todo) \in Nat /\ Len(job[j].todo) > 0 /\ DOMAIN job[j].todo = 1..Len(job[j].todo)
         /\ \A i \in DOMAIN job[j].todo : CommandOK(job[j].todo[i])
         /\ CommandOK(job[j].todo[1]) /\ Head(job[j].todo) = job[j].todo[1]
         /\ Queued(job[j].kind) => queue # <<>> /\ Head(queue) = queue[1]
<1>1. job[j] \in JobType /\ JobOK(j, job[j])
  BY DEF Base, CommandsOK
<1>2. Shape(job[j]) /\ job[j].todo # <<>> /\ job[j].todo \in Seq(Command)
  BY <1>1 DEF JobOK, JobType
<1>3. \A i \in DOMAIN job[j].todo : CommandOK(job[j].todo[i])
  BY <1>1, <1>2, TodoOK
<1>4. PICK t : t = job[j].todo
  OBVIOUS
<1>5. t \in Seq(Command) /\ t # <<>>
  BY <1>2, <1>4
<1>6. Len(t) \in Nat /\ Len(t) > 0 /\ DOMAIN t = 1..Len(t) /\ Head(t) = t[1] /\ 1 \in DOMAIN t
  BY <1>5
<1>7. Queued(job[j].kind) => queue # <<>> /\ Head(queue) = queue[1]
  <2>1. ASSUME Queued(job[j].kind) PROVE queue # <<>> /\ Head(queue) = queue[1]
    <3>1. \E i \in DOMAIN queue : queue[i] = j
      BY <2>1 DEF Base, QueueOK, Holds
    <3>2. queue \in Seq(Jobs)
      BY DEF Base, QueueOK
    <3> QED
      BY <3>1, <3>2
  <2> QED
    BY <2>1
<1> QED
  BY <1>1, <1>2, <1>3, <1>4, <1>6, <1>7

\* A write of a channel that waits on: nobody will answer it.
Lingering(j) ==
  /\ Keeps(j) /\ ~job[j].live /\ ~job'[j].live /\ job[j].pc = "queued" /\ job'[j].pc = "waits" /\ job[j].kind = "set"
  /\ job'[j].kind = job[j].kind /\ job'[j].patch = job[j].patch /\ job'[j].old = job[j].old /\ job'[j].got = job[j].got
  /\ job'[j].todo = job[j].todo /\ queue[1] = j
  /\ UNCHANGED <<radio, store, linkState, air, queue, clean, calls, opens>>

LEMMA IdleIs == Idle \in JobType /\ Idle.kind = "plain" /\ Idle.pc = "idle" /\ ~Idle.live /\ Idle.got = Nothing
BY NothingIs DEF Idle, JobType, Kinds, Channel

LEMMA PcChanged ==
  ASSUME job \in [Jobs -> JobType], NEW j \in Jobs, NEW p \in {"idle", "queued", "waits", "answered", "refused"},
         job' = [job EXCEPT ![j].pc = p]
  PROVE  /\ Keeps(j) /\ job'[j].pc = p /\ job'[j].kind = job[j].kind /\ job'[j].patch = job[j].patch /\ job'[j].old = job[j].old
         /\ job'[j].got = job[j].got /\ job'[j].todo = job[j].todo /\ job'[j].live = job[j].live
<1>1. job[j] \in JobType
  OBVIOUS
<1>2. job'[j] = [job[j] EXCEPT !.pc = p] /\ DOMAIN job' = Jobs /\ \A k \in Jobs : k # j => job'[k] = job[k]
  OBVIOUS
<1>3. job'[j] \in JobType /\ job'[j].pc = p /\ job'[j].kind = job[j].kind /\ job'[j].patch = job[j].patch /\ job'[j].old = job[j].old
      /\ job'[j].got = job[j].got /\ job'[j].todo = job[j].todo /\ job'[j].live = job[j].live
  BY <1>1, <1>2 DEF JobType
<1>4. job' \in [Jobs -> JobType]
  <2>1. \A k \in Jobs : job'[k] \in JobType
    BY <1>2, <1>3
  <2>2. job' = [k \in Jobs |-> job'[k]]
    OBVIOUS
  <2> QED
    BY <2>1, <2>2
<1> QED
  BY <1>2, <1>3, <1>4 DEF Keeps

LEMMA OverIs ==
  ASSUME job \in [Jobs -> JobType], NEW j \in Jobs, job[j].pc # "idle", Over(j)
  PROVE  Ending(j)
<1>1. job' = [job EXCEPT ![j] = Idle] /\ queue' = RemoveFirst(queue, j)
  BY DEF Over, Dequeued
<1> QED
  BY <1>1, IdleIs DEF Ending, Keeps

LEMMA StartsOK ==
  ASSUME Base, NEW j \in Jobs, Starts(j)
  PROVE  \/ Sending(j) \/ Lingering(j)
         \/ Ending(j) /\ ~job[j].live /\ UNCHANGED <<radio, air, store, linkState, clean, calls, opens>>
<1>1. job[j].pc = "queued" /\ (Queued(job[j].kind) => Head(queue) = j) /\ UNCHANGED <<store, linkState, clean, calls, opens>>
  BY DEF Starts
<1>2. /\ CommandOK(job[j].todo[1]) /\ Head(job[j].todo) = job[j].todo[1]
      /\ Queued(job[j].kind) => queue[1] = j
  BY <1>1, BaseJob
<1>3. job \in [Jobs -> JobType] /\ radio \in [Items -> Vals] /\ air \in Seq(FrameType)
  BY DEF Base, CommandsOK
<1>4. CASE job[j].live /\ Sends(j, Head(job[j].todo)) /\ job' = [job EXCEPT ![j].pc = "waits"] /\ queue' = queue
  <2>1. /\ Keeps(j) /\ job'[j].pc = "waits" /\ job'[j].kind = job[j].kind /\ job'[j].patch = job[j].patch /\ job'[j].old = job[j].old
        /\ job'[j].got = job[j].got /\ job'[j].todo = job[j].todo /\ job'[j].live = job[j].live
    BY <1>3, <1>4, PcChanged
  <2>2. Answers(j, job[j].todo[1])
    BY <1>2, <1>3, <1>4, SendsOK
  <2> QED
    BY <1>1, <1>2, <1>4, <2>1, <2>2 DEF Sending
<1>5. CASE ~job[j].live /\ job[j].kind = "set" /\ job' = [job EXCEPT ![j].pc = "waits"] /\ UNCHANGED <<radio, air, queue>>
  <2>1. /\ Keeps(j) /\ job'[j].pc = "waits" /\ job'[j].kind = job[j].kind /\ job'[j].patch = job[j].patch /\ job'[j].old = job[j].old
        /\ job'[j].got = job[j].got /\ job'[j].todo = job[j].todo /\ job'[j].live = job[j].live
    BY <1>3, <1>5, PcChanged
  <2> QED
    BY <1>1, <1>2, <1>5, <2>1, QueuedIs DEF Lingering
<1>6. CASE ~job[j].live /\ job[j].kind = "channels" /\ Over(j) /\ UNCHANGED <<radio, air>>
  BY <1>1, <1>3, <1>6, OverIs
<1> QED
  BY <1>4, <1>5, <1>6 DEF Starts

LEMMA NextCommandOK ==
  ASSUME Base, NEW j \in Jobs, job[j].pc = "answered", job[j].live, NextCommand(j), UNCHANGED <<clean, calls, opens>>
  PROVE  Sending(j)
<1>1. Len(job[j].todo) > 1 /\ Sends(j, job[j].todo[2]) /\ job' = [job EXCEPT ![j].todo = Tail(@), ![j].pc = "waits"]
      /\ UNCHANGED <<store, linkState, queue>>
  BY DEF NextCommand
<1>2. /\ job[j].todo \in Seq(Command) /\ Len(job[j].todo) \in Nat /\ DOMAIN job[j].todo = 1..Len(job[j].todo)
      /\ job[j].todo # <<>> /\ \A i \in DOMAIN job[j].todo : CommandOK(job[j].todo[i])
  BY BaseJob
<1>3. job \in [Jobs -> JobType] /\ radio \in [Items -> Vals] /\ air \in Seq(FrameType) /\ job[j] \in JobType
  BY DEF Base, CommandsOK
<1>4. Tail(job[j].todo) \in Seq(Command) /\ Tail(job[j].todo)[1] = job[j].todo[2] /\ CommandOK(job[j].todo[2])
  BY <1>1, <1>2
<1>5. job'[j] = [job[j] EXCEPT !.todo = Tail(job[j].todo), !.pc = "waits"] /\ DOMAIN job' = Jobs /\ \A k \in Jobs : k # j => job'[k] = job[k]
  BY <1>1, <1>3
<1>6. job'[j] \in JobType /\ job'[j].pc = "waits" /\ job'[j].kind = job[j].kind /\ job'[j].patch = job[j].patch /\ job'[j].old = job[j].old
      /\ job'[j].got = job[j].got /\ job'[j].todo = Tail(job[j].todo) /\ job'[j].live = job[j].live
  <2>1. PICK t : t = Tail(job[j].todo)
    OBVIOUS
  <2>2. PICK r : r = job[j]
    OBVIOUS
  <2>3. t \in Seq(Command) /\ r \in JobType /\ job'[j] = [r EXCEPT !.todo = t, !.pc = "waits"]
    BY <1>3, <1>4, <1>5, <2>1, <2>2
  <2>4. job'[j] \in JobType /\ job'[j].pc = "waits" /\ job'[j].kind = r.kind /\ job'[j].patch = r.patch /\ job'[j].old = r.old
        /\ job'[j].got = r.got /\ job'[j].todo = t /\ job'[j].live = r.live
    <3>1. PICK u : u = [r EXCEPT !.todo = t]
      OBVIOUS
    <3>2. job'[j] = [u EXCEPT !.pc = "waits"]
      BY <2>3, <3>1 DEF JobType
    <3>3. /\ u \in JobType /\ u.kind = r.kind /\ u.patch = r.patch /\ u.old = r.old
          /\ u.got = r.got /\ u.todo = t /\ u.live = r.live
      BY <2>3, <3>1 DEF JobType
    <3> QED
      BY <3>2, <3>3 DEF JobType
  <2>5. job'[j].todo = Tail(job[j].todo)
    BY <2>1, <2>4, Zenon
  <2>6. /\ job'[j].kind = job[j].kind /\ job'[j].patch = job[j].patch /\ job'[j].old = job[j].old
        /\ job'[j].got = job[j].got /\ job'[j].live = job[j].live
    BY <2>2, <2>4, Zenon
  <2> QED
    BY <2>4, <2>5, <2>6, Zenon
<1>7. Keeps(j)
  <2>1. \A k \in Jobs : job'[k] \in JobType
    BY <1>3, <1>5, <1>6
  <2>2. job' = [k \in Jobs |-> job'[k]]
    BY <1>1, <1>3
  <2> QED
    BY <1>5, <2>1, <2>2 DEF Keeps
<1>8. Answers(j, job'[j].todo[1])
  BY <1>1, <1>3, <1>4, <1>6, SendsOK
<1>9. Queued(job[j].kind) => queue[1] = j
  BY DEF Base, QueueOK
<1> QED
  BY <1>1, <1>4, <1>6, <1>7, <1>8, <1>9 DEF Sending, Several

LEMMA QueueSame ==
  ASSUME QueueOK, queue' = queue, \A j \in Jobs : job'[j].kind = job[j].kind /\ (job'[j].pc = "idle" <=> job[j].pc = "idle"),
         \A j \in Jobs : Queued(job[j].kind) /\ job'[j].pc \in {"waits", "answered", "refused"} =>
                           job[j].pc \in {"waits", "answered", "refused"} \/ queue[1] = j
  PROVE  QueueOK'
BY DEF QueueOK

LEMMA QueueEnding ==
  ASSUME Base, NEW j \in Jobs, Ending(j)
  PROVE  QueueOK'
<1>1. queue \in Seq(Jobs) /\ Distinct(queue)
      /\ (\A k \in Jobs : Holds(queue, k) <=> job[k].pc # "idle" /\ Queued(job[k].kind))
      /\ \A k \in Jobs : Queued(job[k].kind) /\ job[k].pc \in {"waits", "answered", "refused"} => queue[1] = k
  BY DEF Base, QueueOK
<1>2. PICK q : q = RemoveFirst(queue, j)
  OBVIOUS
<1>3. q \in Seq(Jobs) /\ Distinct(q) /\ (\A x : Holds(q, x) <=> Holds(queue, x) /\ x # j)
      /\ (queue # <<>> /\ queue[1] # j => q[1] = queue[1])
  BY <1>1, <1>2, RemovedIs
<1>4. queue' = q /\ job'[j] = Idle /\ \A k \in Jobs : k # j => job'[k] = job[k]
  BY <1>2 DEF Ending, Keeps
<1>5. \A k \in Jobs : Holds(q, k) <=> job'[k].pc # "idle" /\ Queued(job'[k].kind)
  BY <1>1, <1>3, <1>4, IdleIs
<1>6. ASSUME NEW k \in Jobs, Queued(job'[k].kind), job'[k].pc \in {"waits", "answered", "refused"} PROVE q[1] = k
  <2>1. k # j
    BY <1>4, <1>6, IdleIs
  <2>2. queue[1] = k /\ Holds(queue, k)
    BY <1>1, <1>4, <1>6, <2>1
  <2>3. queue # <<>>
    BY <2>2 DEF Holds
  <2> QED
    BY <1>3, <2>1, <2>2, <2>3
<1> QED
  BY <1>3, <1>4, <1>5, <1>6 DEF QueueOK

LEMMA QueueBeginning ==
  ASSUME Base, NEW j \in Jobs, NEW kind, NEW patch, Beginning(j, kind, patch), job[j].pc = "idle" \/ ~Queued(job[j].kind)
  PROVE  QueueOK'
<1>1. queue \in Seq(Jobs) /\ Distinct(queue)
      /\ (\A k \in Jobs : Holds(queue, k) <=> job[k].pc # "idle" /\ Queued(job[k].kind))
      /\ \A k \in Jobs : Queued(job[k].kind) /\ job[k].pc \in {"waits", "answered", "refused"} => queue[1] = k
  BY DEF Base, QueueOK
<1>2. job'[j].kind = kind /\ job'[j].pc = "queued" /\ \A k \in Jobs : k # j => job'[k] = job[k]
  BY DEF Beginning, Keeps, New
<1>3. ~Holds(queue, j)
  BY <1>1
<1>4. CASE Queued(kind)
  <2>1. PICK q : q = Append(queue, j)
    OBVIOUS
  <2>2. q \in Seq(Jobs) /\ Distinct(q) /\ (\A x : Holds(q, x) <=> Holds(queue, x) \/ x = j) /\ (queue # <<>> => q[1] = queue[1])
    BY <1>1, <1>3, <2>1, AppendedIs
  <2>3. queue' = q
    BY <1>4, <2>1 DEF Beginning
  <2>4. ASSUME NEW k \in Jobs, Queued(job'[k].kind), job'[k].pc \in {"waits", "answered", "refused"} PROVE q[1] = k
    <3>1. k # j
      BY <1>2, <2>4
    <3>2. queue[1] = k /\ Holds(queue, k)
      BY <1>1, <1>2, <2>4, <3>1
    <3>3. queue # <<>>
      BY <3>2 DEF Holds
    <3> QED
      BY <2>2, <3>2, <3>3
  <2>5. \A k \in Jobs : Holds(q, k) <=> job'[k].pc # "idle" /\ Queued(job'[k].kind)
    BY <1>1, <1>2, <1>4, <2>2
  <2> QED
    BY <2>2, <2>3, <2>4, <2>5 DEF QueueOK
<1>5. CASE ~Queued(kind)
  <2>1. queue' = queue
    BY <1>5 DEF Beginning
  <2>2. \A k \in Jobs : Holds(queue, k) <=> job'[k].pc # "idle" /\ Queued(job'[k].kind)
    BY <1>1, <1>2, <1>3, <1>5
  <2>3. \A k \in Jobs : Queued(job'[k].kind) /\ job'[k].pc \in {"waits", "answered", "refused"} => queue[1] = k
    BY <1>1, <1>2, <1>5
  <2> QED
    BY <1>1, <2>1, <2>2, <2>3 DEF QueueOK
<1> QED
  BY <1>4, <1>5

\* The connection is gone.
Closing ==
  /\ job' \in [Jobs -> JobType]
  /\ \A j \in Jobs : IF Kept(j) THEN /\ job'[j].kind = job[j].kind /\ job'[j].patch = job[j].patch /\ job'[j].old = job[j].old
                                     /\ job'[j].got = job[j].got /\ job'[j].todo = job[j].todo /\ job'[j].pc = job[j].pc
                                     /\ ~job'[j].live
                     ELSE job'[j] = Idle

LEMMA ClosedIs ==
  ASSUME Base, Closed
  PROVE  Closing
<1>1. job' = [j \in Jobs |-> IF Kept(j) THEN [job[j] EXCEPT !.live = FALSE] ELSE Idle] /\ job \in [Jobs -> JobType]
  BY DEF Closed, Base, CommandsOK
<1>2. ASSUME NEW j \in Jobs
      PROVE  /\ job'[j] \in JobType
             /\ IF Kept(j) THEN /\ job'[j].kind = job[j].kind /\ job'[j].patch = job[j].patch /\ job'[j].old = job[j].old
                                /\ job'[j].got = job[j].got /\ job'[j].todo = job[j].todo /\ job'[j].pc = job[j].pc
                                /\ ~job'[j].live
                ELSE job'[j] = Idle
  <2>1. CASE Kept(j)
    <3>1. PICK r : r = job[j]
      OBVIOUS
    <3>2. r \in JobType /\ job'[j] = [r EXCEPT !.live = FALSE]
      BY <1>1, <2>1, <3>1
    <3>3. /\ job'[j] \in JobType /\ job'[j].kind = r.kind /\ job'[j].patch = r.patch /\ job'[j].old = r.old
          /\ job'[j].got = r.got /\ job'[j].todo = r.todo /\ job'[j].pc = r.pc /\ ~job'[j].live
      BY <3>2 DEF JobType
    <3> QED
      BY <2>1, <3>1, <3>3
  <2>2. CASE ~Kept(j)
    BY <1>1, <2>2, IdleIs
  <2> QED
    BY <2>1, <2>2
<1>3. job' \in [Jobs -> JobType]
  <2>1. job' = [j \in Jobs |-> job'[j]]
    BY <1>1
  <2> QED
    BY <1>2, <2>1
<1> QED
  BY <1>2, <1>3 DEF Closing

LEMMA KeptIs ==
  ASSUME Base, NEW j \in Jobs
  PROVE  Kept(j) => Queued(job[j].kind) /\ job[j].pc # "idle" /\ j # Sync
<1>1. JobOK(j, job[j]) /\ Idle.kind = "plain"
  BY IdleIs DEF Base, CommandsOK
<1> QED
  BY <1>1, QueuedIs DEF Kept, JobOK

LEMMA QueueClosed ==
  ASSUME Base, Closed
  PROVE  QueueOK'
<1>1. queue \in Seq(Jobs) /\ Distinct(queue)
      /\ (\A k \in Jobs : Holds(queue, k) <=> job[k].pc # "idle" /\ Queued(job[k].kind))
      /\ \A k \in Jobs : Queued(job[k].kind) /\ job[k].pc \in {"waits", "answered", "refused"} => queue[1] = k
  BY DEF Base, QueueOK
<1>2. PICK q : q = IF queue # <<>> /\ ~Kept(Head(queue)) THEN Tail(queue) ELSE queue
  OBVIOUS
<1>3. queue' = RemoveFirst(q, Sync)
  BY <1>2 DEF Closed
<1>4. queue # <<>> => Head(queue) = queue[1]
  BY <1>1
<1>5. /\ q \in Seq(Jobs) /\ Distinct(q) /\ (\A x : Holds(q, x) <=> Holds(queue, x) /\ ~(x = queue[1] /\ ~Kept(x)))
      /\ (queue # <<>> /\ Kept(queue[1]) => q = queue)
  <2>1. CASE queue # <<>> /\ ~Kept(Head(queue))
    <3>1. PICK t : t = Tail(queue)
      OBVIOUS
    <3>2. t \in Seq(Jobs) /\ Distinct(t) /\ \A x : Holds(t, x) <=> Holds(queue, x) /\ x # queue[1]
      BY <1>1, <2>1, <3>1, TailIs
    <3>3. q = t /\ ~Kept(queue[1])
      BY <1>2, <1>4, <2>1, <3>1
    <3> QED
      BY <3>2, <3>3
  <2>2. CASE queue = <<>>
    <3>1. q = queue /\ \A x : ~Holds(queue, x)
      BY <1>2, <2>2 DEF Holds
    <3> QED
      BY <1>1, <2>2, <3>1
  <2>3. CASE queue # <<>> /\ Kept(Head(queue))
    BY <1>1, <1>2, <1>4, <2>3
  <2> QED
    BY <2>1, <2>2, <2>3
<1>6. PICK r : r = RemoveFirst(q, Sync)
  OBVIOUS
<1>7. r \in Seq(Jobs) /\ Distinct(r) /\ (\A x : Holds(r, x) <=> Holds(q, x) /\ x # Sync)
      /\ (q # <<>> /\ q[1] # Sync => r[1] = q[1])
  BY <1>5, <1>6, RemovedIs
<1>8. Closing
  BY ClosedIs
<1>9. ASSUME NEW k \in Jobs, Holds(r, k) PROVE Kept(k)
  <2>1. Holds(queue, k) /\ ~(k = queue[1] /\ ~Kept(k)) /\ k # Sync
    BY <1>5, <1>7, <1>9
  <2>2. job[k].pc # "idle" /\ Queued(job[k].kind) /\ (job[k].pc \in {"waits", "answered", "refused"} => queue[1] = k)
    BY <1>1, <2>1
  <2>3. job[k] \in JobType
    BY DEF Base, CommandsOK
  <2>4. job[k].kind \in {"set", "channels"} /\ job[k].pc \in {"idle", "queued", "waits", "answered", "refused"}
    BY <2>2, <2>3, QueuedIs DEF JobType
  <2> QED
    BY <2>1, <2>2, <2>4 DEF Kept
<1>10. ASSUME NEW k \in Jobs, Kept(k) PROVE Holds(r, k)
  BY <1>1, <1>5, <1>7, <1>10, KeptIs
<1>11. \A k \in Jobs : Holds(r, k) <=> job'[k].pc # "idle" /\ Queued(job'[k].kind)
  BY <1>8, <1>9, <1>10, KeptIs, IdleIs DEF Closing
<1>12. ASSUME NEW k \in Jobs, Queued(job'[k].kind), job'[k].pc \in {"waits", "answered", "refused"} PROVE r[1] = k
  <2>1. Kept(k) /\ job'[k].kind = job[k].kind /\ job'[k].pc = job[k].pc
    BY <1>8, <1>12, IdleIs DEF Closing
  <2>2. queue[1] = k /\ k # Sync /\ Holds(queue, k)
    BY <1>1, <1>12, <2>1, KeptIs
  <2>3. queue # <<>>
    BY <2>2 DEF Holds
  <2>4. q = queue
    BY <1>5, <2>1, <2>2, <2>3
  <2> QED
    BY <1>7, <2>2, <2>3, <2>4
<1> QED
  BY <1>3, <1>6, <1>7, <1>11, <1>12 DEF QueueOK

\* A frame arrives.
Hearing(f) ==
  /\ f \in FrameType /\ FrameOK(f) /\ f = air[1] /\ 1 \in DOMAIN air
  /\ air' \in Seq(FrameType) /\ DOMAIN air = 1..Len(air) /\ Len(air) \in Nat /\ DOMAIN air' = 1..(Len(air) - 1)
  /\ \A i \in DOMAIN air' : i + 1 \in DOMAIN air /\ air'[i] = air[i + 1]
  /\ \A i \in DOMAIN air : i # 1 => i - 1 \in DOMAIN air' /\ air'[i - 1] = air[i]
  /\ job' \in [Jobs -> JobType]
  /\ \A j \in Jobs : ~Listens(j, f) => job'[j] = job[j]
  /\ \A j \in Jobs : Listens(j, f) =>
       /\ job'[j].kind = job[j].kind /\ job'[j].patch = job[j].patch /\ job'[j].old = job[j].old
       /\ job'[j].todo = job[j].todo /\ job'[j].live = job[j].live
       /\ job'[j].pc = IF ~Ends(job[j].todo[1], f) THEN "waits" ELSE IF f.kind = "err" THEN "refused" ELSE "answered"
       /\ \A x : /\ x \in DOMAIN job'[j].got <=> x \in DOMAIN f.data \/ x \in DOMAIN job[j].got
                 /\ x \in DOMAIN f.data => job'[j].got[x] = f.data[x]
                 /\ x \in DOMAIN job[j].got /\ x \notin DOMAIN f.data => job'[j].got[x] = job[j].got[x]
  /\ clean' = (clean /\ \A j \in Jobs : Listens(j, f) => j = f.for)
  /\ \A j \in Jobs : job[j].pc \notin {"answered", "refused"}
  /\ UNCHANGED <<radio, store, linkState, queue, calls, opens>>

LEMMA ListensIs ==
  ASSUME Base, NEW j \in Jobs, NEW f
  PROVE  Listens(j, f) <=> Hears(job[j], f)
<1>1. job[j].pc = "waits" => Head(job[j].todo) = job[j].todo[1]
  BY BaseJob
<1> QED
  BY <1>1 DEF Listens, Hears

LEMMA TailOfAir ==
  ASSUME air \in Seq(FrameType), air # <<>>, air' = Tail(air)
  PROVE  /\ air' \in Seq(FrameType) /\ DOMAIN air = 1..Len(air) /\ Len(air) \in Nat /\ DOMAIN air' = 1..(Len(air) - 1)
         /\ 1 \in DOMAIN air /\ Head(air) = air[1]
         /\ \A i \in DOMAIN air' : i + 1 \in DOMAIN air /\ air'[i] = air[i + 1]
         /\ \A i \in DOMAIN air : i # 1 => i - 1 \in DOMAIN air' /\ air'[i - 1] = air[i]
<1>1. PICK a : a = air
  OBVIOUS
<1>2. PICK t : t = Tail(a)
  OBVIOUS
<1>3. a \in Seq(FrameType) /\ a # <<>> /\ Len(a) \in Nat /\ Len(a) > 0 /\ DOMAIN a = 1..Len(a) /\ Head(a) = a[1]
  BY <1>1
<1>4. t \in Seq(FrameType) /\ Len(t) = Len(a) - 1 /\ DOMAIN t = 1..(Len(a) - 1) /\ \A i \in 1..(Len(a) - 1) : t[i] = a[i + 1]
  BY <1>2, <1>3
<1>5. \A i \in DOMAIN t : i + 1 \in DOMAIN a /\ t[i] = a[i + 1]
  BY <1>3, <1>4
<1>6. \A i \in DOMAIN a : i # 1 => i - 1 \in DOMAIN t /\ t[i - 1] = a[i]
  BY <1>3, <1>4
<1> QED
  BY <1>1, <1>2, <1>3, <1>4, <1>5, <1>6

LEMMA DeliverIs ==
  ASSUME Base, Deliver
  PROVE  \E f \in FrameType : Hearing(f)
<1>1. PICK f : f = Head(air)
  OBVIOUS
<1>2. air \in Seq(FrameType) /\ air # <<>> /\ air' = Tail(air) /\ (\A i \in DOMAIN air : FrameOK(air[i])) /\ job \in [Jobs -> JobType]
  BY DEF Base, CommandsOK, Deliver
<1>3. /\ air' \in Seq(FrameType) /\ DOMAIN air = 1..Len(air) /\ Len(air) \in Nat /\ DOMAIN air' = 1..(Len(air) - 1)
      /\ 1 \in DOMAIN air /\ Head(air) = air[1]
      /\ \A i \in DOMAIN air' : i + 1 \in DOMAIN air /\ air'[i] = air[i + 1]
      /\ \A i \in DOMAIN air : i # 1 => i - 1 \in DOMAIN air' /\ air'[i - 1] = air[i]
  BY <1>2, TailOfAir
<1>4. f \in FrameType /\ FrameOK(f) /\ f = air[1]
  BY <1>1, <1>2, <1>3
<1>5. job' = [j \in Jobs |->
                  IF ~Listens(j, f) THEN job[j]
                  ELSE [job[j] EXCEPT !.got = f.data ++ @,
                                      !.pc = IF ~Ends(Head(job[j].todo), f) THEN @
                                             ELSE IF f.kind = "err" THEN "refused" ELSE "answered"]]
  BY <1>1 DEF Deliver
<1>6. clean' = (clean /\ \A j \in Jobs : Listens(j, f) => j = f.for)
  BY <1>1 DEF Deliver
<1>7. ASSUME NEW j \in Jobs, ~Listens(j, f) PROVE job'[j] = job[j] /\ job'[j] \in JobType
  BY <1>2, <1>5, <1>7
<1>8. ASSUME NEW j \in Jobs, Listens(j, f)
      PROVE  /\ job'[j].kind = job[j].kind /\ job'[j].patch = job[j].patch /\ job'[j].old = job[j].old
             /\ job'[j].todo = job[j].todo /\ job'[j].live = job[j].live /\ job'[j] \in JobType
             /\ job'[j].pc = IF ~Ends(job[j].todo[1], f) THEN "waits" ELSE IF f.kind = "err" THEN "refused" ELSE "answered"
             /\ \A x : /\ x \in DOMAIN job'[j].got <=> x \in DOMAIN f.data \/ x \in DOMAIN job[j].got
                       /\ x \in DOMAIN f.data => job'[j].got[x] = f.data[x]
                       /\ x \in DOMAIN job[j].got /\ x \notin DOMAIN f.data => job'[j].got[x] = job[j].got[x]
  <2>1. PICK r : r = job[j]
    OBVIOUS
  <2>2. PICK g : g = f.data ++ r.got
    OBVIOUS
  <2>3. r \in JobType /\ r.got \in Partial /\ f.data \in Partial
    BY <1>2, <1>4, <2>1 DEF JobType, FrameType
  <2>4. g \in Partial /\ \A x : /\ x \in DOMAIN g <=> x \in DOMAIN f.data \/ x \in DOMAIN r.got
                                /\ x \in DOMAIN f.data => g[x] = f.data[x]
                                /\ x \in DOMAIN r.got /\ x \notin DOMAIN f.data => g[x] = r.got[x]
    BY <2>2, <2>3, OverOf
  <2>5. r.pc = "waits" /\ Head(r.todo) = r.todo[1]
    BY <1>8, <2>1, BaseJob DEF Listens
  <2>6. PICK p : p = IF ~Ends(r.todo[1], f) THEN "waits" ELSE IF f.kind = "err" THEN "refused" ELSE "answered"
    OBVIOUS
  <2>7. job'[j] = [r EXCEPT !.got = g, !.pc = p]
    <3>1. job'[j] = [r EXCEPT !.got = f.data ++ r.got,
                              !.pc = IF ~Ends(Head(r.todo), f) THEN r.pc ELSE IF f.kind = "err" THEN "refused" ELSE "answered"]
      BY <1>5, <1>8, <2>1
    <3> QED
      BY <2>2, <2>5, <2>6, <3>1
  <2>8. p \in {"idle", "queued", "waits", "answered", "refused"}
    BY <2>6
  <2>9. /\ job'[j].kind = r.kind /\ job'[j].patch = r.patch /\ job'[j].old = r.old
        /\ job'[j].todo = r.todo /\ job'[j].live = r.live /\ job'[j] \in JobType
        /\ job'[j].pc = p /\ job'[j].got = g
    BY <2>3, <2>4, <2>7, <2>8 DEF JobType
  <2> QED
    BY <2>1, <2>4, <2>6, <2>9
<1>9. job' \in [Jobs -> JobType]
  <2>1. job' = [j \in Jobs |-> job'[j]]
    BY <1>5
  <2> QED
    BY <1>7, <1>8, <2>1
<1>10. UNCHANGED <<radio, store, linkState, queue, calls, opens>> /\ \A j \in Jobs : job[j].pc \notin {"answered", "refused"}
  BY DEF Deliver, Due
<1> QED
  BY <1>3, <1>4, <1>6, <1>7, <1>8, <1>9, <1>10 DEF Hearing

\* What is stored at the end, point by point.
Stored(S, r) ==
  /\ S \in [Items -> Vals]
  /\ r.kind \in {"set", "remove"} => \A x \in Items : S[x] = IF x \in DOMAIN r.patch THEN r.patch[x] ELSE store[x]
  /\ r.kind \in {"contacts", "import"} =>
       \A x \in Items : S[x] = IF x \notin Contacts THEN store[x] ELSE IF x \in DOMAIN r.got THEN r.got[x] ELSE None
  /\ r.kind \in {"channels", "self"} => \A x \in Items : S[x] = IF x \in DOMAIN r.got THEN r.got[x] ELSE store[x]
  /\ r.kind = "settings" => \A x \in Items : S[x] = IF x \in SettingKeys THEN Final(r, x) ELSE store[x]
  /\ r.kind = "plain" => S = store

LEMMA CommittedIs ==
  ASSUME store \in [Items -> Vals], NEW r \in JobType, Shape(r)
  PROVE  Stored(Committed(r), r)
<1>1. PICK S : S = Committed(r)
  OBVIOUS
<1>2. r.kind \in Kinds /\ r.patch \in Partial /\ r.old \in Partial /\ r.got \in Partial
  BY DEF JobType
<1>3. CASE r.kind \in {"set", "remove"}
  <2>1. S = r.patch ++ store
    BY <1>1, <1>3 DEF Committed
  <2>2. S \in [Items -> Vals] /\ \A x \in Items : (x \in DOMAIN r.patch => S[x] = r.patch[x]) /\ (x \notin DOMAIN r.patch => S[x] = store[x])
    BY <1>2, <2>1, OverAll
  <2> QED
    BY <1>1, <1>3, <2>2 DEF Stored
<1>4. CASE r.kind \in {"channels", "self"}
  <2>1. S = r.got ++ store
    BY <1>1, <1>4 DEF Committed
  <2>2. S \in [Items -> Vals] /\ \A x \in Items : (x \in DOMAIN r.got => S[x] = r.got[x]) /\ (x \notin DOMAIN r.got => S[x] = store[x])
    BY <1>2, <2>1, OverAll
  <2> QED
    BY <1>1, <1>4, <2>2 DEF Stored
<1>5. CASE r.kind \in {"contacts", "import"}
  <2>1. PICK o : o = Only(r.got, Contacts)
    OBVIOUS
  <2>2. PICK n : n = [c \in Contacts |-> None]
    OBVIOUS
  <2>3. PICK h : h = o ++ n
    OBVIOUS
  <2>4. S = h ++ store
    <3>1. S = SyncContacts(r.got)
      BY <1>1, <1>5 DEF Committed
    <3> QED
      BY <2>1, <2>2, <2>3, <3>1 DEF SyncContacts
  <2>5. o \in Partial /\ \A x : (x \in DOMAIN o <=> x \in DOMAIN r.got /\ x \in Contacts) /\ (x \in DOMAIN o => o[x] = r.got[x])
    BY <1>2, <2>1, OnlyOf
  <2>6. n \in Partial /\ DOMAIN n = Contacts /\ \A x \in Contacts : n[x] = None
    <3>1. DOMAIN n = Contacts /\ \A x \in Contacts : n[x] = None
      BY <2>2
    <3>2. n \in [DOMAIN n -> Vals]
      BY <2>2 DEF Vals
    <3> QED
      BY <3>1, <3>2, ItemsAre, PartialIs
  <2>7. h \in Partial /\ \A x : /\ x \in DOMAIN h <=> x \in DOMAIN o \/ x \in DOMAIN n
                                /\ x \in DOMAIN o => h[x] = o[x]
                                /\ x \in DOMAIN n /\ x \notin DOMAIN o => h[x] = n[x]
    BY <2>3, <2>5, <2>6, OverOf
  <2>8. S \in [Items -> Vals] /\ \A x \in Items : (x \in DOMAIN h => S[x] = h[x]) /\ (x \notin DOMAIN h => S[x] = store[x])
    BY <2>4, <2>7, OverAll
  <2>9. \A x \in Items : S[x] = IF x \notin Contacts THEN store[x] ELSE IF x \in DOMAIN r.got THEN r.got[x] ELSE None
    BY <2>5, <2>6, <2>7, <2>8
  <2> QED
    BY <1>1, <1>5, <2>8, <2>9 DEF Stored
<1>6. CASE r.kind = "settings"
  <2>1. PICK h : h = r.patch ++ r.old
    OBVIOUS
  <2>2. S = h ++ store
    <3>1. S = SaveSelf(r.patch, r.old)
      BY <1>1, <1>6 DEF Committed
    <3> QED
      BY <2>1, <3>1 DEF SaveSelf
  <2>3. h \in Partial /\ \A x : /\ x \in DOMAIN h <=> x \in DOMAIN r.patch \/ x \in DOMAIN r.old
                                /\ x \in DOMAIN r.patch => h[x] = r.patch[x]
                                /\ x \in DOMAIN r.old /\ x \notin DOMAIN r.patch => h[x] = r.old[x]
    BY <1>2, <2>1, OverOf
  <2>4. S \in [Items -> Vals] /\ \A x \in Items : (x \in DOMAIN h => S[x] = h[x]) /\ (x \notin DOMAIN h => S[x] = store[x])
    BY <2>2, <2>3, OverAll
  <2>5. DOMAIN r.old = SettingKeys /\ DOMAIN r.patch \subseteq SettingKeys
    BY <1>6 DEF Shape
  <2>6. \A x \in Items : S[x] = IF x \in SettingKeys THEN Final(r, x) ELSE store[x]
    BY <2>3, <2>4, <2>5 DEF Final
  <2> QED
    BY <1>1, <1>6, <2>4, <2>6 DEF Stored
<1>7. CASE r.kind = "plain"
  <2>1. S = store
    BY <1>1, <1>7 DEF Committed
  <2> QED
    BY <1>1, <1>7, <2>1 DEF Stored
<1> QED
  BY <1>2, <1>3, <1>4, <1>5, <1>6, <1>7 DEF Kinds, Channel

---------------------------------------------------------------------------
(* Types, shapes and the queue.                                            *)

LEMMA BaseIs ==
  ASSUME Base
  PROVE  /\ CommandsOK /\ QueueOK /\ radio \in [Items -> Vals] /\ store \in [Items -> Vals] /\ air \in Seq(FrameType)
         /\ job \in [Jobs -> JobType] /\ \A j \in Jobs : job[j] \in JobType /\ JobOK(j, job[j])
BY DEF Base, CommandsOK

LEMMA NewJob ==
  ASSUME Base, NEW j \in Jobs, NEW kind, NEW patch, Beginning(j, kind, patch),
         IF j = Sync THEN kind \in {"self", "contacts", "channels"} ELSE kind # "self"
  PROVE  JobOK(j, job'[j]) /\ job'[j].pc = "queued" /\ job'[j].live /\ job'[j].kind = kind
<1>1. job'[j] = New(kind, patch) /\ kind \in Kinds /\ PatchOK(kind, patch)
  BY DEF Beginning
<1>2. PICK r : r = New(kind, patch)
  OBVIOUS
<1>3. Shape(r) /\ r.todo # <<>> /\ r.kind = kind /\ r.pc = "queued" /\ r.live
  BY <1>1, <1>2, BaseIs, NewOK
<1> QED
  BY <1>1, <1>2, <1>3 DEF JobOK

LEMMA SeveralIs ==
  ASSUME NEW t \in Seq(Command), Several(t)
  PROVE  \A c : t # <<c>>
<1> SUFFICES ASSUME NEW c, t = <<c>> PROVE FALSE
  OBVIOUS
<1>1. Len(<<c>>) = 1
  OBVIOUS
<1>2. Len(t) > 1
  BY DEF Several
<1>3. Len(<<c>>) > 1
  BY <1>2, Zenon
<1>4. 1 > 1
  BY <1>1, <1>3, Zenon
<1>5. ~(1 > 1)
  OBVIOUS
<1> QED
  BY <1>4, <1>5, Zenon

LEMMA Singles ==
  ASSUME NEW r \in JobType, Shape(r), Several(r.todo)
  PROVE  r.kind \in {"import", "channels", "settings"} /\ (r.kind = "import" => r.todo = <<Write(r.patch), Read(Contacts)>>)
<1>1. r.kind \in Kinds
  BY DEF JobType
<1>3. r.kind \in {"set", "remove"} => r.todo = <<Write(r.patch)>>
  BY DEF Shape
<1>4. r.kind = "plain" => r.todo = <<Write(Nothing)>>
  BY DEF Shape
<1>5. r.kind = "contacts" => r.todo = <<Read(Contacts)>>
  BY DEF Shape
<1>6. r.kind = "self" => r.todo = <<Read(SettingKeys)>>
  BY DEF Shape
<1>7. r.kind = "import" => r.todo = <<Write(r.patch), Read(Contacts)>> \/ r.todo = <<Read(Contacts)>>
  BY DEF Shape
<1>8. r.todo \in Seq(Command)
  BY DEF JobType
<1>9. \A c : r.todo # <<c>>
  BY <1>8, SeveralIs
<1> QED
  BY <1>1, <1>3, <1>4, <1>5, <1>6, <1>7, <1>9 DEF Kinds, Channel

LEMMA TailCommands ==
  ASSUME NEW t \in Seq(Command), Several(t), NEW u, Rest(u, t)
  PROVE  u # <<>> /\ (\A i \in DOMAIN u : i + 1 \in DOMAIN t /\ u[i] = t[i + 1]) /\ DOMAIN t = 1..Len(t) /\ Len(t) \in Nat
         /\ (\A i \in DOMAIN t : i > 1 => i - 1 \in DOMAIN u /\ u[i - 1] = t[i]) /\ DOMAIN u = 1..(Len(t) - 1)
<1>1. Len(t) \in Nat /\ DOMAIN t = 1..Len(t) /\ Len(t) > 1
  BY DEF Several
<1>2. Len(u) = Len(t) - 1 /\ DOMAIN u = 1..(Len(t) - 1) /\ \A i \in 1..(Len(t) - 1) : u[i] = t[i + 1]
  BY <1>1 DEF Rest
<1>3. u # <<>>
  <2>1. Len(u) # 0 /\ Len(<<>>) = 0
    BY <1>1, <1>2
  <2> QED
    BY <2>1
<1>4. \A i \in DOMAIN u : i + 1 \in DOMAIN t /\ u[i] = t[i + 1]
  BY <1>1, <1>2
<1>5. ASSUME NEW i \in DOMAIN t, i > 1 PROVE i - 1 \in DOMAIN u /\ u[i - 1] = t[i]
  <2>1. i - 1 \in 1..(Len(t) - 1) /\ (i - 1) + 1 = i
    BY <1>1, <1>5
  <2> QED
    BY <1>2, <2>1
<1> QED
  BY <1>1, <1>2, <1>3, <1>4, <1>5

LEMMA TailOfTwo == \A a, b : Tail(<<a, b>>) = <<b>>
OBVIOUS

\* The shape of a job stays as its commands are sent.
LEMMA ShapeNext ==
  ASSUME NEW r \in JobType, Shape(r), NEW q, q.kind = r.kind, q.patch = r.patch, q.old = r.old, q.got = r.got, q.pc = "waits",
         q.todo = r.todo \/ (r.pc # "queued" /\ Several(r.todo) /\ q.todo = Tail(r.todo))
  PROVE  Shape(q) /\ (r.todo # <<>> => q.todo # <<>>)
<1>1. CASE q.todo = r.todo
  <2>1. r.kind = "settings" => \A i \in DOMAIN q.todo : \A x \in DOMAIN q.todo[i].writes : q.todo[i].writes[x] = Final(q, x)
    BY <1>1 DEF Shape, Final
  <2>2. r.kind = "import" => (q.todo = <<Write(q.patch), Read(Contacts)>> /\ q.got = Nothing) \/ q.todo = <<Read(Contacts)>>
    BY <1>1 DEF Shape
  <2>3. r.kind = "settings" => /\ DOMAIN q.old = SettingKeys /\ DOMAIN q.patch \subseteq SettingKeys
                               /\ \A i \in DOMAIN q.todo : /\ q.todo[i] = Write(q.todo[i].writes)
                                                           /\ DOMAIN q.todo[i].writes \subseteq SettingKeys
    BY <1>1 DEF Shape
  <2>4. /\ r.kind \in {"set", "remove"} => q.todo = <<Write(q.patch)>>
        /\ r.kind = "plain" => q.todo = <<Write(Nothing)>>
        /\ r.kind = "contacts" => q.todo = <<Read(Contacts)>>
        /\ r.kind = "self" => q.todo = <<Read(SettingKeys)>> /\ DOMAIN q.got \subseteq SettingKeys
        /\ r.kind = "channels" => /\ \A i \in DOMAIN q.todo : \E s \in SlotSet : q.todo[i] = Read({s})
                                  /\ DOMAIN q.got \subseteq SlotSet
    BY <1>1 DEF Shape
  <2>5. /\ r.kind = "set" => DOMAIN q.patch \subseteq SlotSet
        /\ r.kind = "remove" => DOMAIN q.patch \subseteq Contacts /\ \A c \in DOMAIN q.patch : q.patch[c] = None
        /\ r.kind = "import" => DOMAIN q.patch \subseteq Contacts
    BY DEF Shape
  <2> QED
    BY <1>1, <2>1, <2>2, <2>3, <2>4, <2>5 DEF Shape
<1>2. CASE r.pc # "queued" /\ Several(r.todo) /\ q.todo = Tail(r.todo)
  <2>1. r.kind \in {"import", "channels", "settings"} /\ (r.kind = "import" => r.todo = <<Write(r.patch), Read(Contacts)>>)
    BY <1>2, Singles
  <2>2. r.todo \in Seq(Command)
    BY DEF JobType
  <2>3. q.todo # <<>> /\ \A i \in DOMAIN q.todo : i + 1 \in DOMAIN r.todo /\ q.todo[i] = r.todo[i + 1]
    <3>1. PICK t : t = r.todo
      OBVIOUS
    <3>2. PICK u : u = Tail(t)
      OBVIOUS
    <3>5. Rest(u, t)
      BY <3>2 DEF Rest
    <3>3. t \in Seq(Command) /\ Several(t)
      BY <1>2, <2>2, <3>1
    <3>4. u # <<>> /\ (\A i \in DOMAIN u : i + 1 \in DOMAIN t /\ u[i] = t[i + 1]) /\ DOMAIN t = 1..Len(t) /\ Len(t) \in Nat
          /\ (\A i \in DOMAIN t : i > 1 => i - 1 \in DOMAIN u /\ u[i - 1] = t[i]) /\ DOMAIN u = 1..(Len(t) - 1)
      BY <3>3, <3>5, TailCommands
    <3> QED
      BY <1>2, <3>1, <3>2, <3>4
  <2>4. CASE r.kind = "import"
    <3>1. q.todo = <<Read(Contacts)>>
      <4>1. q.todo = Tail(<<Write(r.patch), Read(Contacts)>>)
        BY <1>2, <2>1, <2>4
      <4> QED
        BY <4>1, TailOfTwo
    <3> QED
      BY <2>3, <2>4, <3>1 DEF Shape
  <2>5. CASE r.kind = "channels"
    <3>1. \A i \in DOMAIN q.todo : \E s \in SlotSet : q.todo[i] = Read({s})
      BY <2>3, <2>5 DEF Shape
    <3> QED
      BY <2>3, <2>5, <3>1 DEF Shape
  <2>6. CASE r.kind = "settings"
    <3>1. \A i \in DOMAIN q.todo : /\ q.todo[i] = Write(q.todo[i].writes) /\ DOMAIN q.todo[i].writes \subseteq SettingKeys
                                   /\ \A x \in DOMAIN q.todo[i].writes : q.todo[i].writes[x] = Final(r, x)
      BY <2>3, <2>6 DEF Shape
    <3>2. \A x : Final(q, x) = Final(r, x)
      BY DEF Final
    <3> QED
      BY <2>3, <2>6, <3>1, <3>2 DEF Shape
  <2> QED
    BY <2>1, <2>4, <2>5, <2>6
<1> QED
  BY <1>1, <1>2

LEMMA BaseSending ==
  ASSUME Base, NEW j \in Jobs, Sending(j)
  PROVE  Base'
<1>1. Keeps(j) /\ UNCHANGED <<store, linkState, queue, clean, calls, opens>>
  BY DEF Sending
<1>2. radio' \in [Items -> Vals] /\ air' \in Seq(FrameType) /\ \A i \in DOMAIN air' : FrameOK(air'[i])
  BY DEF Sending, Answers, Base, CommandsOK
<1>3. linkState # "down"
  BY DEF Sending, Base, CommandsOK
<1>4. JobOK(j, job'[j])
  <2>1. job[j].pc # "idle" /\ job'[j].pc = "waits"
    BY DEF Sending
  <2>2. JobOK(j, job[j]) /\ job[j] \in JobType /\ Shape(job[j]) /\ job[j].todo # <<>>
    BY <2>1, BaseIs, BaseJob
  <2>3. Shape(job'[j]) /\ job'[j].todo # <<>>
    <3>1. PICK r : r = job[j]
      OBVIOUS
    <3>2. PICK q : q = job'[j]
      OBVIOUS
    <3>3. /\ q.kind = r.kind /\ q.patch = r.patch /\ q.old = r.old /\ q.got = r.got /\ q.pc = "waits"
          /\ q.todo = r.todo \/ (r.pc # "queued" /\ Several(r.todo) /\ q.todo = Tail(r.todo))
      BY <3>1, <3>2 DEF Sending
    <3>4. r \in JobType /\ Shape(r) /\ r.todo # <<>>
      BY <2>2, <3>1
    <3>5. Shape(q) /\ q.todo # <<>>
      BY <3>3, <3>4, ShapeNext
    <3> QED
      BY <3>2, <3>5
  <2> QED
    BY <2>1, <2>2, <2>3 DEF JobOK, Sending
<1>5. \A k \in Jobs : JobOK(k, job'[k])
  BY <1>1, <1>4, BaseIs DEF Keeps
<1>6. job[j].pc # "idle" /\ job'[j].pc = "waits"
  BY DEF Sending
<1>7. CommandsOK'
  <2>1. linkState' = "syncing" <=> job'[Sync].pc # "idle"
    BY <1>1, <1>6 DEF Base, CommandsOK, Keeps, Jobs
  <2>2. job' \in [Jobs -> JobType]
    BY <1>1 DEF Keeps
  <2>3. store' \in [Items -> Vals] /\ linkState' \in {"down", "syncing", "connected"} /\ clean' \in BOOLEAN /\ calls' \in 0..MaxCalls /\ opens' \in 0..MaxOpens
    BY <1>1 DEF Base, CommandsOK
  <2> QED
    BY <1>1, <1>2, <1>3, <1>5, <2>1, <2>2, <2>3 DEF CommandsOK
<1>8. \A k \in Jobs : job'[k].kind = job[k].kind /\ (job'[k].pc = "idle" <=> job[k].pc = "idle")
  BY <1>1, <1>6 DEF Keeps, Sending
<1>9. \A k \in Jobs : Queued(job[k].kind) /\ job'[k].pc \in {"waits", "answered", "refused"} =>
                        job[k].pc \in {"waits", "answered", "refused"} \/ queue[1] = k
  BY <1>1 DEF Keeps, Sending
<1>10. QueueOK'
  BY <1>1, <1>8, <1>9, BaseIs, QueueSame
<1> QED
  BY <1>7, <1>10 DEF Base

LEMMA BaseLingering ==
  ASSUME Base, NEW j \in Jobs, Lingering(j)
  PROVE  Base'
<1>1. Keeps(j) /\ UNCHANGED <<radio, store, linkState, air, queue, clean, calls, opens>> /\ job[j].pc = "queued" /\ job'[j].pc = "waits" /\ queue[1] = j
  BY DEF Lingering
<1>2. JobOK(j, job'[j])
  <2>1. JobOK(j, job[j]) /\ job[j] \in JobType /\ Shape(job[j]) /\ job[j].todo # <<>>
    BY <1>1, BaseIs, BaseJob
  <2>2. Shape(job'[j]) /\ job'[j].todo # <<>>
    <3>1. PICK r : r = job[j]
      OBVIOUS
    <3>2. PICK q : q = job'[j]
      OBVIOUS
    <3>3. q.kind = r.kind /\ q.patch = r.patch /\ q.old = r.old /\ q.got = r.got /\ q.pc = "waits" /\ q.todo = r.todo
      BY <3>1, <3>2 DEF Lingering
    <3>4. r \in JobType /\ Shape(r) /\ r.todo # <<>>
      BY <2>1, <3>1
    <3>5. Shape(q) /\ q.todo # <<>>
      BY <3>3, <3>4, ShapeNext
    <3> QED
      BY <3>2, <3>5
  <2> QED
    BY <1>1, <2>1, <2>2 DEF JobOK, Lingering
<1>3. \A k \in Jobs : JobOK(k, job'[k])
  BY <1>1, <1>2, BaseIs DEF Keeps
<1>4. CommandsOK'
  <2>1. linkState' = "syncing" <=> job'[Sync].pc # "idle"
    BY <1>1 DEF Base, CommandsOK, Keeps, Jobs
  <2>2. job' \in [Jobs -> JobType]
    BY <1>1 DEF Keeps
  <2>3. \A k \in Jobs : ~job[k].live => ~job'[k].live
    BY <1>1 DEF Keeps, Lingering
  <2> QED
    BY <1>1, <1>3, <2>1, <2>2, <2>3 DEF Base, CommandsOK
<1>5. \A k \in Jobs : job'[k].kind = job[k].kind /\ (job'[k].pc = "idle" <=> job[k].pc = "idle")
  BY <1>1 DEF Keeps, Lingering
<1>6. \A k \in Jobs : Queued(job[k].kind) /\ job'[k].pc \in {"waits", "answered", "refused"} =>
                        job[k].pc \in {"waits", "answered", "refused"} \/ queue[1] = k
  BY <1>1 DEF Keeps
<1>7. QueueOK'
  BY <1>1, <1>5, <1>6, BaseIs, QueueSame
<1> QED
  BY <1>4, <1>7 DEF Base

LEMMA BaseEnding ==
  ASSUME Base, NEW j \in Jobs, Ending(j), store' \in [Items -> Vals], clean' \in BOOLEAN, UNCHANGED <<radio, air, calls, opens>>,
         linkState' = IF j = Sync THEN "connected" ELSE linkState
  PROVE  Base'
<1>1. Keeps(j) /\ job'[j] = Idle /\ job[j].pc # "idle"
  BY DEF Ending
<1>2. QueueOK'
  BY QueueEnding
<1>3. \A k \in Jobs : JobOK(k, job'[k])
  BY <1>1, BaseIs, IdleIs DEF Keeps, JobOK
<1>4. linkState' = "syncing" <=> job'[Sync].pc # "idle"
  BY <1>1, IdleIs DEF Base, CommandsOK, Keeps, Jobs
<1>5. linkState' = "down" => air' = <<>> /\ \A k \in Jobs : ~job'[k].live
  <2>1. j = Sync => linkState' # "down"
    OBVIOUS
  <2> QED
    BY <1>1, <2>1, IdleIs DEF Base, CommandsOK, Keeps
<1>6. job' \in [Jobs -> JobType]
  BY <1>1 DEF Keeps
<1>7. CommandsOK'
  <2>1. linkState' \in {"down", "syncing", "connected"}
    BY DEF Base, CommandsOK
  <2>2. radio' \in [Items -> Vals] /\ air' \in Seq(FrameType) /\ (\A i \in DOMAIN air' : FrameOK(air'[i])) /\ calls' \in 0..MaxCalls /\ opens' \in 0..MaxOpens
    BY DEF Base, CommandsOK
  <2> QED
    BY <1>3, <1>4, <1>5, <1>6, <2>1, <2>2 DEF CommandsOK
<1> QED
  BY <1>2, <1>7 DEF Base

LEMMA BaseBeginning ==
  ASSUME Base, NEW j \in Jobs, NEW kind, NEW patch, Beginning(j, kind, patch), job[j].pc = "idle" \/ ~Queued(job[j].kind),
         IF j = Sync THEN kind \in {"self", "contacts", "channels"} /\ linkState' = "syncing"
                     ELSE kind # "self" /\ linkState' = linkState /\ linkState # "down",
         radio' \in [Items -> Vals], store' \in [Items -> Vals], clean' \in BOOLEAN, calls' \in 0..MaxCalls, opens' \in 0..MaxOpens, air' = air
  PROVE  Base'
<1>1. Keeps(j)
  BY DEF Beginning
<1>2. QueueOK'
  BY QueueBeginning
<1>3. JobOK(j, job'[j]) /\ job'[j].pc = "queued" /\ job'[j].live /\ job'[j].kind = kind
  BY NewJob
<1>4. \A k \in Jobs : JobOK(k, job'[k])
  BY <1>1, <1>3, BaseIs DEF Keeps
<1>5. linkState' = "syncing" <=> job'[Sync].pc # "idle"
  BY <1>1, <1>3 DEF Base, CommandsOK, Keeps, Jobs
<1>6. job' \in [Jobs -> JobType]
  BY <1>1 DEF Keeps
<1>7. CommandsOK'
  <2>1. linkState' \in {"down", "syncing", "connected"} /\ linkState' # "down"
    BY DEF Base, CommandsOK
  <2>2. air' \in Seq(FrameType) /\ \A i \in DOMAIN air' : FrameOK(air'[i])
    BY DEF Base, CommandsOK
  <2> QED
    BY <1>4, <1>5, <1>6, <2>1, <2>2 DEF CommandsOK
<1> QED
  BY <1>2, <1>7 DEF Base

LEMMA BaseClosed ==
  ASSUME Base, Closed
  PROVE  Base'
<1>1. Closing /\ linkState' = "down" /\ air' = <<>> /\ UNCHANGED <<radio, store, clean, calls, opens>>
  BY ClosedIs DEF Closed
<1>2. QueueOK'
  BY QueueClosed
<1>3. ASSUME NEW j \in Jobs PROVE JobOK(j, job'[j]) /\ ~job'[j].live
  <2>1. CASE ~Kept(j)
    BY <1>1, <2>1, IdleIs DEF Closing, JobOK
  <2>2. CASE Kept(j)
    <3>1. job[j].pc # "idle" /\ j # Sync
      BY <2>2, KeptIs
    <3>2. JobOK(j, job[j]) /\ Shape(job[j]) /\ job[j].todo # <<>>
      BY <3>1, BaseIs, BaseJob
    <3>3. job'[j].kind = job[j].kind /\ job'[j].patch = job[j].patch /\ job'[j].old = job[j].old
          /\ job'[j].got = job[j].got /\ job'[j].todo = job[j].todo /\ job'[j].pc = job[j].pc /\ ~job'[j].live
      BY <1>1, <2>2 DEF Closing
    <3>4. job[j].kind = "set" \/ (job[j].kind = "channels" /\ job[j].pc = "queued")
      BY <2>2 DEF Kept
    <3>5. Shape(job'[j])
      BY <3>2, <3>3, <3>4 DEF Shape
    <3> QED
      BY <3>1, <3>2, <3>3, <3>4, <3>5 DEF JobOK
  <2> QED
    BY <2>1, <2>2
<1>4. job'[Sync].pc = "idle"
  BY <1>1, KeptIs, IdleIs DEF Closing, Jobs
<1>5. CommandsOK'
  <2>1. air' \in Seq(FrameType) /\ \A i \in DOMAIN air' : FrameOK(air'[i])
    BY <1>1
  <2>2. job' \in [Jobs -> JobType]
    BY <1>1 DEF Closing
  <2>3. /\ radio' \in [Items -> Vals] /\ store' \in [Items -> Vals]
        /\ clean' \in BOOLEAN /\ calls' \in 0..MaxCalls /\ opens' \in 0..MaxOpens
    BY <1>1 DEF Base, CommandsOK
  <2> QED
    BY <1>1, <1>3, <1>4, <2>1, <2>2, <2>3 DEF CommandsOK
<1> QED
  BY <1>2, <1>5 DEF Base

LEMMA BaseTimeout ==
  ASSUME Base, NEW j \in Jobs, Timeout(j)
  PROVE  Base' /\ ~clean'
<1>1. job[j].pc = "waits" /\ Queued(job[j].kind) /\ job' = [job EXCEPT ![j].pc = "refused"] /\ clean' = FALSE
      /\ UNCHANGED <<radio, store, linkState, air, queue, calls, opens>>
  BY DEF Timeout
<1>2. /\ Keeps(j) /\ job'[j].pc = "refused" /\ job'[j].kind = job[j].kind /\ job'[j].patch = job[j].patch /\ job'[j].old = job[j].old
      /\ job'[j].got = job[j].got /\ job'[j].todo = job[j].todo /\ job'[j].live = job[j].live
  BY <1>1, BaseIs, PcChanged
<1>3. JobOK(j, job[j]) /\ Shape(job[j]) /\ job[j].todo # <<>>
  BY <1>1, BaseIs, BaseJob
<1>4. job[j].kind \in {"set", "channels"}
  BY <1>1, QueuedIs
<1>5. Shape(job'[j])
  BY <1>1, <1>2, <1>3, <1>4 DEF Shape
<1>6. JobOK(j, job'[j])
  BY <1>1, <1>2, <1>3, <1>5 DEF JobOK
<1>7. \A k \in Jobs : JobOK(k, job'[k])
  BY <1>2, <1>6, BaseIs DEF Keeps
<1>8. CommandsOK'
  <2>1. linkState' = "syncing" <=> job'[Sync].pc # "idle"
    BY <1>1, <1>2 DEF Base, CommandsOK, Keeps, Jobs
  <2>2. job' \in [Jobs -> JobType]
    BY <1>2 DEF Keeps
  <2>3. \A k \in Jobs : job'[k].live = job[k].live
    BY <1>2 DEF Keeps
  <2> QED
    BY <1>1, <1>7, <2>1, <2>2, <2>3 DEF Base, CommandsOK
<1>9. \A k \in Jobs : job'[k].kind = job[k].kind /\ (job'[k].pc = "idle" <=> job[k].pc = "idle")
  BY <1>1, <1>2 DEF Keeps
<1>10. \A k \in Jobs : Queued(job[k].kind) /\ job'[k].pc \in {"waits", "answered", "refused"} =>
                        job[k].pc \in {"waits", "answered", "refused"} \/ queue[1] = k
  BY <1>1, <1>2 DEF Keeps
<1>11. QueueOK'
  BY <1>1, <1>9, <1>10, BaseIs, QueueSame
<1> QED
  BY <1>1, <1>8, <1>11 DEF Base

\* What is heard of each command.
LEMMA HeardIs ==
  ASSUME NEW c, CommandOK(c), NEW f \in FrameType, FrameOK(f), Ends(c, f) \/ (f.kind = "contact" /\ c.reads = Contacts)
  PROVE  /\ c.name = "write" => f.kind \in {"ok", "err"} /\ f.data = Nothing
         /\ c.reads = Contacts => f.kind \in {"contact", "end", "info"} /\ DOMAIN f.data \subseteq Contacts
         /\ c.reads = SettingKeys => f.kind = "info" /\ DOMAIN f.data = SettingKeys
         /\ \A s \in SlotSet : c.reads = {s} => (f.kind = "err" /\ f.data = Nothing) \/ (f.kind = "info" /\ DOMAIN f.data = {s})
<1>1. /\ c.name \in {"read", "write"} /\ (c.name = "write" => c.reads = {})
      /\ c.name = "read" => c.reads = Contacts \/ c.reads = SettingKeys \/ \E s \in SlotSet : c.reads = {s}
  BY CommandShape
<1>2. DOMAIN Nothing = {}
  BY NothingIs
<1>3. f.kind \in {"ok", "err", "info", "contact", "end"}
  BY DEF FrameType
<1>4. CASE f.kind \in {"ok", "err"}
  BY <1>1, <1>2, <1>4, Asked DEF Ends, FrameOK
<1>5. CASE f.kind = "info"
  BY <1>1, <1>5, Asked DEF Ends, FrameOK
<1>6. CASE f.kind \in {"contact", "end"}
  BY <1>1, <1>2, <1>6, Asked DEF Ends, FrameOK
<1> QED
  BY <1>3, <1>4, <1>5, <1>6

LEMMA FirstCommand ==
  ASSUME NEW r \in JobType, Shape(r), r.todo # <<>>
  PROVE  /\ r.kind \in {"set", "remove", "settings", "plain"} => r.todo[1].name = "write"
         /\ r.kind = "self" => r.todo[1].reads = SettingKeys
         /\ r.kind = "contacts" => r.todo[1] = Read(Contacts)
         /\ r.kind = "channels" => \E s \in SlotSet : r.todo[1] = Read({s}) /\ r.todo[1].reads = {s}
         /\ r.kind = "import" => r.todo[1] = Write(r.patch) \/ r.todo[1] = Read(Contacts)
<1>1. r.todo \in Seq(Command)
  BY DEF JobType
<1>2. 1 \in DOMAIN r.todo
  BY <1>1
<1>3. r.kind \in {"set", "remove"} => r.todo[1] = Write(r.patch)
  BY DEF Shape
<1>4. r.kind = "plain" => r.todo[1] = Write(Nothing)
  BY DEF Shape
<1>5. r.kind = "settings" => r.todo[1] = Write(r.todo[1].writes)
  BY <1>2 DEF Shape
<1>6. r.kind = "self" => r.todo[1] = Read(SettingKeys)
  BY DEF Shape
<1>7. r.kind = "contacts" => r.todo[1] = Read(Contacts)
  BY DEF Shape
<1>8. r.kind = "channels" => \E s \in SlotSet : r.todo[1] = Read({s})
  BY <1>2 DEF Shape
<1>9. r.kind = "import" => r.todo[1] = Write(r.patch) \/ r.todo[1] = Read(Contacts)
  BY DEF Shape
<1>10. r.kind = "channels" => \E s \in SlotSet : r.todo[1] = Read({s}) /\ r.todo[1].reads = {s}
  BY <1>8, CommandIs, Zenon
<1>11. r.kind \in {"set", "remove", "settings", "plain"} => r.todo[1].name = "write"
  BY <1>3, <1>4, <1>5 DEF Write
<1>12. r.kind = "self" => r.todo[1].reads = SettingKeys
  BY <1>6 DEF Read
<1> QED
  BY <1>7, <1>9, <1>10, <1>11, <1>12

LEMMA NothingHeard ==
  ASSUME NEW g, g \in Partial, \A x : x \in DOMAIN g <=> x \in DOMAIN Nothing \/ x \in DOMAIN Nothing
  PROVE  g = Nothing
<1>1. DOMAIN g = {}
  BY NothingIs
<1> QED
  BY <1>1, NothingIs

LEMMA BaseHearing ==
  ASSUME Base, NEW f \in FrameType, Hearing(f)
  PROVE  Base'
<1>1. /\ FrameOK(f) /\ air' \in Seq(FrameType) /\ UNCHANGED <<radio, store, linkState, queue, calls, opens>>
      /\ job' \in [Jobs -> JobType] /\ (\A i \in DOMAIN air' : i + 1 \in DOMAIN air /\ air'[i] = air[i + 1])
      /\ DOMAIN air = 1..Len(air) /\ Len(air) \in Nat /\ 1 \in DOMAIN air
  BY DEF Hearing
<1>2. ASSUME NEW j \in Jobs, Listens(j, f)
      PROVE  /\ JobOK(j, job'[j]) /\ job[j].pc = "waits" /\ job[j].live /\ job'[j].kind = job[j].kind
             /\ job'[j].pc \in {"waits", "answered", "refused"} /\ job'[j].live
  <2>1. PICK r : r = job[j]
    OBVIOUS
  <2>2. PICK q : q = job'[j]
    OBVIOUS
  <2>3. r.pc = "waits" /\ r.live /\ (Ends(r.todo[1], f) \/ (f.kind = "contact" /\ r.todo[1].reads = Contacts))
    BY <1>2, <2>1, ListensIs DEF Hears
  <2>4. JobOK(j, r) /\ r \in JobType /\ Shape(r) /\ r.todo # <<>> /\ CommandOK(r.todo[1])
    BY <2>1, <2>3, BaseIs, BaseJob
  <2>5. /\ q.kind = r.kind /\ q.patch = r.patch /\ q.old = r.old /\ q.todo = r.todo /\ q.live = r.live
        /\ q.pc = IF ~Ends(r.todo[1], f) THEN "waits" ELSE IF f.kind = "err" THEN "refused" ELSE "answered"
        /\ \A x : x \in DOMAIN q.got <=> x \in DOMAIN f.data \/ x \in DOMAIN r.got
    BY <1>2, <2>1, <2>2 DEF Hearing
  <2>6. q.pc \in {"waits", "answered", "refused"}
    BY <2>5
  <2>7. q.got \in Partial
    BY <1>1, <2>2 DEF JobType
  <2>8. /\ r.todo[1].name = "write" => f.kind \in {"ok", "err"} /\ f.data = Nothing
        /\ r.todo[1].reads = Contacts => f.kind \in {"contact", "end", "info"} /\ DOMAIN f.data \subseteq Contacts
        /\ r.todo[1].reads = SettingKeys => f.kind = "info" /\ DOMAIN f.data = SettingKeys
        /\ \A s \in SlotSet : r.todo[1].reads = {s} => (f.kind = "err" /\ f.data = Nothing) \/ (f.kind = "info" /\ DOMAIN f.data = {s})
    BY <1>1, <2>3, <2>4, HeardIs
  <2>9. /\ r.kind = "self" => r.todo[1].reads = SettingKeys
        /\ r.kind = "channels" => \E s \in SlotSet : r.todo[1] = Read({s}) /\ r.todo[1].reads = {s}
    BY <2>4, FirstCommand
  <2>10. r.kind = "self" => DOMAIN q.got \subseteq SettingKeys
    BY <2>4, <2>5, <2>8, <2>9 DEF Shape
  <2>11. r.kind = "channels" => DOMAIN q.got \subseteq SlotSet
    <3>1. ASSUME r.kind = "channels" PROVE DOMAIN f.data \subseteq SlotSet
      <4>1. PICK s \in SlotSet : r.todo[1].reads = {s}
        BY <2>9, <3>1
      <4>2. f.data = Nothing \/ DOMAIN f.data = {s}
        BY <2>8, <4>1
      <4> QED
        BY <4>2, NothingIs
    <3>2. r.kind = "channels" => DOMAIN r.got \subseteq SlotSet
      BY <2>4 DEF Shape
    <3> QED
      BY <2>5, <3>1, <3>2
  <2>12. r.kind = "import" /\ r.todo = <<Write(r.patch), Read(Contacts)>> /\ r.got = Nothing => q.got = Nothing
    <3>1. ASSUME r.todo = <<Write(r.patch), Read(Contacts)>>, r.got = Nothing PROVE q.got = Nothing
      <4>1. r.todo[1] = Write(r.patch)
        BY <3>1
      <4>2. f.data = Nothing
        BY <2>8, <4>1, CommandIs
      <4> QED
        BY <2>5, <2>7, <3>1, <4>2, NothingHeard
    <3> QED
      BY <3>1
  <2>13. r.kind = "import" => (q.todo = <<Write(q.patch), Read(Contacts)>> /\ q.got = Nothing) \/ (q.todo = <<Read(Contacts)>> /\ q.pc # "queued")
    BY <2>4, <2>5, <2>6, <2>12 DEF Shape
  <2>14. \A x : Final(q, x) = Final(r, x)
    BY <2>5 DEF Final
  <2>15. Shape(q)
    <3>1. r.kind = "settings" => /\ DOMAIN q.old = SettingKeys /\ DOMAIN q.patch \subseteq SettingKeys
                                 /\ \A i \in DOMAIN q.todo : /\ q.todo[i] = Write(q.todo[i].writes)
                                                             /\ DOMAIN q.todo[i].writes \subseteq SettingKeys
                                                             /\ \A x \in DOMAIN q.todo[i].writes : q.todo[i].writes[x] = Final(q, x)
      BY <2>4, <2>5, <2>14 DEF Shape
    <3>2. r.kind = "import" => DOMAIN q.patch \subseteq Contacts
      BY <2>4, <2>5 DEF Shape
    <3>3. r.kind = "set" => q.todo = <<Write(q.patch)>> /\ DOMAIN q.patch \subseteq SlotSet
      BY <2>4, <2>5 DEF Shape
    <3>4. r.kind = "remove" => q.todo = <<Write(q.patch)>> /\ DOMAIN q.patch \subseteq Contacts /\ \A c \in DOMAIN q.patch : q.patch[c] = None
      BY <2>4, <2>5 DEF Shape
    <3>5. /\ r.kind = "plain" => q.todo = <<Write(Nothing)>>
          /\ r.kind = "contacts" => q.todo = <<Read(Contacts)>>
          /\ r.kind = "self" => q.todo = <<Read(SettingKeys)>>
          /\ r.kind = "channels" => \A i \in DOMAIN q.todo : \E s \in SlotSet : q.todo[i] = Read({s})
      BY <2>4, <2>5 DEF Shape
    <3>6. q.kind = r.kind /\ q.pc # "queued"
      BY <2>5, <2>6
    <3> QED
      BY <2>10, <2>11, <2>13, <3>1, <3>2, <3>3, <3>4, <3>5, <3>6 DEF Shape
  <2>16. JobOK(j, q)
    BY <2>3, <2>4, <2>5, <2>6, <2>15 DEF JobOK
  <2> QED
    BY <2>1, <2>2, <2>3, <2>5, <2>6, <2>16
<1>3. ASSUME NEW j \in Jobs, ~Listens(j, f) PROVE job'[j] = job[j]
  BY <1>3 DEF Hearing
<1>4. \A k \in Jobs : JobOK(k, job'[k])
  BY <1>2, <1>3, BaseIs
<1>5. \A k \in Jobs : job'[k].kind = job[k].kind /\ (job'[k].pc = "idle" <=> job[k].pc = "idle")
  BY <1>2, <1>3
<1>6. \A k \in Jobs : Queued(job[k].kind) /\ job'[k].pc \in {"waits", "answered", "refused"} =>
                        job[k].pc \in {"waits", "answered", "refused"} \/ queue[1] = k
  BY <1>2, <1>3
<1>7. QueueOK'
  BY <1>1, <1>5, <1>6, BaseIs, QueueSame
<1>8. CommandsOK'
  <2>1. linkState # "down"
    BY <1>1 DEF Base, CommandsOK
  <2>2. linkState' = "syncing" <=> job'[Sync].pc # "idle"
    BY <1>1, <1>5 DEF Base, CommandsOK, Jobs
  <2>3. \A i \in DOMAIN air' : FrameOK(air'[i])
    BY <1>1 DEF Base, CommandsOK
  <2>4. clean' \in BOOLEAN
    BY DEF Hearing, Base, CommandsOK
  <2>5. /\ radio' \in [Items -> Vals] /\ store' \in [Items -> Vals] /\ linkState' \in {"down", "syncing", "connected"}
        /\ calls' \in 0..MaxCalls /\ opens' \in 0..MaxOpens
    BY <1>1 DEF Base, CommandsOK
  <2> QED
    BY <1>1, <1>4, <2>1, <2>2, <2>3, <2>4, <2>5 DEF CommandsOK
<1> QED
  BY <1>7, <1>8 DEF Base

---------------------------------------------------------------------------
(* Every step is one of these.                                             *)

Asking(j, kind, patch) ==
  /\ j \in Callers /\ job[j].pc = "idle" /\ kind # "self" /\ Beginning(j, kind, patch)
  /\ clean' = (clean /\ ~(kind = "settings" /\ (Under("settings") \/ Under("self"))))
  /\ UNCHANGED <<radio, store, linkState, air>>

Failed(j) ==
  /\ j # Sync /\ Ending(j) /\ UNCHANGED <<radio, store, linkState, air>>
  /\ \/ ~job[j].live /\ clean' = clean
     \/ job[j].pc = "refused" /\ clean' = (clean /\ job[j].kind # "settings")

Finished(j) ==
  /\ job[j].pc = "answered" /\ Len(job[j].todo) = 1 /\ Ending(j) /\ Stored(store', job[j])
  /\ linkState' = (IF j = Sync THEN "connected" ELSE linkState) /\ (j = Sync => job[j].kind = "channels")
  /\ UNCHANGED <<radio, air, clean>>

Turning(kind) ==
  /\ job[Sync].pc = "answered" /\ Len(job[Sync].todo) = 1 /\ Beginning(Sync, kind, Nothing) /\ Stored(store', job[Sync])
  /\ \/ job[Sync].kind = "self" /\ kind = "contacts"
     \/ job[Sync].kind = "contacts" /\ kind = "channels"
  /\ UNCHANGED <<radio, air, clean, linkState>>

Opening ==
  /\ linkState = "down" /\ linkState' = "syncing" /\ Beginning(Sync, "self", Nothing) /\ job[Sync].pc = "idle"
  /\ \A j \in Jobs : job[j].pc \notin {"answered", "refused"}
  /\ UNCHANGED <<store, air>>

Steps ==
  \/ \E j \in Jobs : \E kind, patch : Asking(j, kind, patch)
  \/ \E j \in Jobs : Sending(j) \/ Lingering(j) \/ Failed(j) \/ Finished(j)
  \/ \E kind : Turning(kind)
  \/ \E f \in FrameType : Hearing(f)
  \/ Opening
  \/ ~clean' \/ linkState' = "down"

LEMMA BeginsIs ==
  ASSUME Base, NEW j \in Jobs, NEW kind \in Kinds, NEW patch, PatchOK(kind, patch), Begins(j, kind, patch)
  PROVE  Beginning(j, kind, patch)
<1>1. job' = [job EXCEPT ![j] = New(kind, patch)] /\ queue' = IF Queued(kind) THEN Append(queue, j) ELSE queue
  BY DEF Begins
<1>2. New(kind, patch) \in JobType
  BY BaseIs, NewOK
<1>3. Keeps(j) /\ job'[j] = New(kind, patch)
  BY <1>1, <1>2, BaseIs DEF Keeps
<1> QED
  BY <1>1, <1>3 DEF Beginning

LEMMA CallsIs ==
  ASSUME Base, NEW j, NEW kind \in Kinds \ {"self"}, NEW patch, PatchOK(kind, patch), Calls(j, kind, patch)
  PROVE  Asking(j, kind, patch) /\ Base'
<1>1. /\ j \in Callers /\ job[j].pc = "idle" /\ Begins(j, kind, patch) /\ calls' = calls + 1 /\ calls < MaxCalls /\ linkState # "down"
      /\ clean' = (clean /\ ~(kind = "settings" /\ (Under("settings") \/ Under("self"))))
      /\ UNCHANGED <<radio, store, linkState, air, opens>>
  BY DEF Calls
<1>2. j \in Jobs /\ j # Sync
  BY <1>1, CommandsAssumption DEF Jobs
<1>3. Beginning(j, kind, patch)
  BY <1>1, <1>2, BeginsIs
<1>4. calls' \in 0..MaxCalls /\ opens' \in 0..MaxOpens /\ clean' \in BOOLEAN /\ radio' \in [Items -> Vals] /\ store' \in [Items -> Vals] /\ air' = air
  BY <1>1, CommandsAssumption DEF Base, CommandsOK
<1>5. Base'
  BY <1>1, <1>2, <1>3, <1>4, BaseBeginning
<1> QED
  BY <1>1, <1>3, <1>5 DEF Asking

LEMMA OneItem ==
  ASSUME NEW x \in Items, NEW v \in Vals, NEW p, p = [y \in {x} |-> v]
  PROVE  p \in Partial /\ DOMAIN p = {x} /\ p[x] = v
<1>1. DOMAIN p = {x} /\ p \in [{x} -> Vals] /\ p[x] = v
  OBVIOUS
<1> QED
  BY <1>1, PartialIs

LEMMA AskingOK ==
  ASSUME Base, NEW j \in Callers,
         \/ SetChannel(j) \/ DeleteChannel(j) \/ RefreshChannels(j) \/ RefreshContacts(j)
         \/ RemoveContact(j) \/ ImportContactUri(j) \/ SetDeviceSettings(j) \/ Plain(j)
  PROVE  (\E kind, patch : Asking(j, kind, patch)) /\ Base'
<1>1. {"set", "channels", "contacts", "remove", "import", "settings", "plain"} \subseteq Kinds \ {"self"}
  BY DEF Kinds, Channel
<1>2. None \in Vals /\ \A v \in Values : v \in Vals
  BY DEF Vals
<1>3. ASSUME NEW s \in SlotSet, NEW v \in Vals, Calls(j, "set", [x \in {s} |-> v]) PROVE (\E kind, patch : Asking(j, kind, patch)) /\ Base'
  <2>1. PICK p : p = [x \in {s} |-> v]
    OBVIOUS
  <2>2. p \in Partial /\ DOMAIN p = {s} /\ Calls(j, "set", p)
    BY <1>3, <2>1, OneItem, ItemsAre
  <2>3. PatchOK("set", p)
    BY <2>2 DEF PatchOK
  <2> QED
    BY <1>1, <2>2, <2>3, CallsIs
<1>4. ASSUME NEW c \in Contacts, Calls(j, "remove", [x \in {c} |-> None]) PROVE (\E kind, patch : Asking(j, kind, patch)) /\ Base'
  <2>1. PICK p : p = [x \in {c} |-> None]
    OBVIOUS
  <2>2. p \in Partial /\ DOMAIN p = {c} /\ p[c] = None /\ Calls(j, "remove", p)
    BY <1>2, <1>4, <2>1, OneItem, ItemsAre
  <2>3. PatchOK("remove", p)
    BY <2>2 DEF PatchOK
  <2> QED
    BY <1>1, <2>2, <2>3, CallsIs
<1>5. ASSUME NEW c \in Contacts, NEW v \in Values, Calls(j, "import", [x \in {c} |-> v]) PROVE (\E kind, patch : Asking(j, kind, patch)) /\ Base'
  <2>1. PICK p : p = [x \in {c} |-> v]
    OBVIOUS
  <2>2. p \in Partial /\ DOMAIN p = {c} /\ Calls(j, "import", p)
    BY <1>2, <1>5, <2>1, OneItem, ItemsAre
  <2>3. PatchOK("import", p)
    BY <2>2 DEF PatchOK
  <2> QED
    BY <1>1, <2>2, <2>3, CallsIs
<1>6. ASSUME NEW S \in {{Freq}, {Name, Sf}}, NEW v \in Values, Calls(j, "settings", [x \in S |-> v]) PROVE (\E kind, patch : Asking(j, kind, patch)) /\ Base'
  <2>1. PICK p : p = [x \in S |-> v]
    OBVIOUS
  <2>2. S \subseteq SettingKeys /\ S # {}
    BY DEF SettingKeys, Params
  <2>3. DOMAIN p = S /\ p \in [S -> Vals]
    BY <1>2, <2>1
  <2>4. p \in Partial /\ Calls(j, "settings", p)
    BY <1>6, <2>1, <2>2, <2>3, PartialIs, ItemsAre
  <2>5. PatchOK("settings", p)
    BY <2>2, <2>3, <2>4 DEF PatchOK
  <2> QED
    BY <1>1, <2>4, <2>5, CallsIs
<1>7. PatchOK("channels", Nothing) /\ PatchOK("contacts", Nothing) /\ PatchOK("plain", Nothing)
  BY NothingIs DEF PatchOK
<1>8. CASE SetChannel(j)
  BY <1>2, <1>3, <1>8 DEF SetChannel
<1>9. CASE DeleteChannel(j)
  BY <1>2, <1>3, <1>9 DEF DeleteChannel
<1>10. CASE RefreshChannels(j) \/ RefreshContacts(j) \/ Plain(j)
  BY <1>1, <1>7, <1>10, CallsIs DEF RefreshChannels, RefreshContacts, Plain
<1>11. CASE RemoveContact(j)
  BY <1>4, <1>11 DEF RemoveContact
<1>12. CASE ImportContactUri(j)
  BY <1>5, <1>12 DEF ImportContactUri
<1>13. CASE SetDeviceSettings(j)
  BY <1>6, <1>13 DEF SetDeviceSettings
<1> QED
  BY <1>8, <1>9, <1>10, <1>11, <1>12, <1>13

LEMMA CommitsOK ==
  ASSUME Base, NEW j \in Jobs, job[j].pc = "answered", Commits(j), UNCHANGED <<clean, calls, opens>>
  PROVE  (Finished(j) \/ \E kind : Turning(kind)) /\ Base'
<1>1. Len(job[j].todo) = 1 /\ store' = Committed(job[j]) /\ UNCHANGED <<radio, air>>
  BY DEF Commits
<1>2. job[j] \in JobType /\ Shape(job[j]) /\ JobOK(j, job[j]) /\ store \in [Items -> Vals]
  BY BaseIs, BaseJob
<1>3. Stored(store', job[j])
  BY <1>1, <1>2, CommittedIs
<1>4. store' \in [Items -> Vals] /\ radio' \in [Items -> Vals] /\ clean' \in BOOLEAN /\ calls' \in 0..MaxCalls /\ opens' \in 0..MaxOpens
  BY <1>1, <1>3 DEF Stored, Base, CommandsOK
<1>5. j = Sync => job[j].kind \in {"self", "contacts", "channels"}
  BY <1>2 DEF JobOK
<1>6. Phase["self"] = "contacts" /\ Phase["contacts"] = "channels" /\ Phase["channels"] = "done"
  BY DEF Phase
<1>7. CASE j = Sync /\ Phase[job[j].kind] # "done"
  <2>1. PICK kind : kind = Phase[job[j].kind]
    OBVIOUS
  <2>2. (job[Sync].kind = "self" /\ kind = "contacts") \/ (job[Sync].kind = "contacts" /\ kind = "channels")
    BY <1>5, <1>6, <1>7, <2>1
  <2>3. Begins(Sync, kind, Nothing) /\ linkState' = linkState
    BY <1>7, <2>1 DEF Commits
  <2>4. kind \in Kinds /\ PatchOK(kind, Nothing)
    BY <2>2, NothingIs DEF Kinds, Channel, PatchOK
  <2>5. Beginning(Sync, kind, Nothing)
    BY <1>7, <2>3, <2>4, BeginsIs
  <2>6. linkState = "syncing"
    BY <1>7 DEF Base, CommandsOK
  <2>7. ~Queued(job[Sync].kind) /\ kind \in {"self", "contacts", "channels"}
    BY <2>2, QueuedIs
  <2>8. Base'
    BY <1>1, <1>4, <1>7, <2>3, <2>5, <2>6, <2>7, BaseBeginning
  <2>9. Turning(kind)
    BY <1>1, <1>3, <1>7, <2>2, <2>3, <2>5 DEF Turning
  <2> QED
    BY <2>8, <2>9
<1>8. CASE ~(j = Sync /\ Phase[job[j].kind] # "done")
  <2>1. Over(j) /\ linkState' = IF j = Sync THEN "connected" ELSE linkState
    BY <1>8 DEF Commits
  <2>2. Ending(j)
    BY <2>1, BaseIs, OverIs
  <2>3. j = Sync => job[j].kind = "channels"
    BY <1>5, <1>6, <1>8
  <2>4. Base'
    BY <1>1, <1>4, <2>1, <2>2, BaseEnding
  <2>5. Finished(j)
    BY <1>1, <1>3, <2>1, <2>2, <2>3 DEF Finished
  <2> QED
    BY <2>4, <2>5
<1> QED
  BY <1>7, <1>8

LEMMA ProceedOK ==
  ASSUME Base, NEW j \in Jobs, Proceed(j)
  PROVE  (Sending(j) \/ Finished(j) \/ \E kind : Turning(kind)) /\ Base'
<1>1. job[j].pc = "answered" /\ (NextCommand(j) \/ Commits(j)) /\ UNCHANGED <<clean, calls, opens>>
  BY DEF Proceed
<1>2. CASE NextCommand(j)
  <2>1. Several(job[j].todo)
    BY <1>2 DEF NextCommand, Several
  <2>2. job[j] \in JobType /\ Shape(job[j]) /\ JobOK(j, job[j])
    BY <1>1, BaseIs, BaseJob
  <2>3. job[j].kind \in {"import", "channels", "settings"}
    BY <2>1, <2>2, Singles
  <2>4. job[j].live
    BY <1>1, <2>2, <2>3 DEF JobOK
  <2>5. Sending(j)
    BY <1>1, <1>2, <2>4, NextCommandOK
  <2> QED
    BY <2>5, BaseSending
<1>3. CASE Commits(j)
  BY <1>1, <1>3, CommitsOK
<1> QED
  BY <1>1, <1>2, <1>3

LEMMA EndsFailed ==
  ASSUME Base, NEW j \in Jobs, Ending(j), UNCHANGED <<radio, air, store, linkState, calls, opens>>, clean' \in BOOLEAN,
         \/ ~job[j].live /\ clean' = clean
         \/ j # Sync /\ job[j].pc = "refused" /\ clean' = (clean /\ job[j].kind # "settings")
  PROVE  Failed(j) /\ Base'
<1>1. j # Sync
  BY BaseIs DEF Ending, JobOK
<1>2. Base'
  BY <1>1, BaseIs, BaseEnding
<1> QED
  BY <1>1, <1>2 DEF Failed

LEMMA StepsOK ==
  ASSUME Base, [CommandsNext]_commandsVars
  PROVE  Base' /\ (Steps \/ UNCHANGED commandsVars)
<1>1. ASSUME NEW j \in Callers,
             \/ SetChannel(j) \/ DeleteChannel(j) \/ RefreshChannels(j) \/ RefreshContacts(j)
             \/ RemoveContact(j) \/ ImportContactUri(j) \/ SetDeviceSettings(j) \/ Plain(j)
      PROVE  Base' /\ Steps
  BY <1>1, AskingOK DEF Steps, Jobs
<1>2. ASSUME NEW j \in Jobs, Starts(j) PROVE Base' /\ Steps
  <2>1. \/ Sending(j) \/ Lingering(j)
        \/ Ending(j) /\ ~job[j].live /\ UNCHANGED <<radio, air, store, linkState, clean, calls, opens>>
    BY <1>2, StartsOK
  <2>2. CASE Sending(j)
    BY <2>2, BaseSending DEF Steps
  <2>3. CASE Lingering(j)
    BY <2>3, BaseLingering DEF Steps
  <2>4. CASE Ending(j) /\ ~job[j].live /\ UNCHANGED <<radio, air, store, linkState, clean, calls, opens>>
    <3>1. clean' \in BOOLEAN
      BY <2>4 DEF Base, CommandsOK
    <3> QED
      BY <2>4, <3>1, EndsFailed DEF Steps
  <2> QED
    BY <2>1, <2>2, <2>3, <2>4
<1>3. ASSUME NEW j \in Jobs, Proceed(j) PROVE Base' /\ Steps
  BY <1>3, ProceedOK DEF Steps
<1>4. ASSUME NEW j \in Jobs, Fails(j) PROVE Base' /\ Steps
  <2>1. j # Sync /\ job[j].pc = "refused" /\ Over(j) /\ clean' = (clean /\ job[j].kind # "settings")
        /\ UNCHANGED <<radio, store, linkState, air, calls, opens>>
    BY <1>4 DEF Fails
  <2>2. Ending(j)
    BY <2>1, BaseIs, OverIs
  <2>3. clean' \in BOOLEAN
    BY <2>1 DEF Base, CommandsOK
  <2> QED
    BY <2>1, <2>2, <2>3, EndsFailed DEF Steps
<1>5. ASSUME NEW j \in Jobs, Timeout(j) PROVE Base' /\ Steps
  BY <1>5, BaseTimeout DEF Steps
<1>6. CASE Deliver
  <2>1. PICK f \in FrameType : Hearing(f)
    BY <1>6, DeliverIs
  <2> QED
    BY <2>1, BaseHearing DEF Steps
<1>7. CASE Lost \/ SyncFails
  <2>1. Closed
    BY <1>7 DEF Lost, SyncFails
  <2>2. linkState' = "down"
    BY <2>1 DEF Closed
  <2> QED
    BY <2>1, <2>2, BaseClosed DEF Steps
<1>8. CASE Opens
  <2>1. /\ linkState = "down" /\ opens < MaxOpens /\ (\E x \in Items, v \in Values \cup {None} : radio' = [radio EXCEPT ![x] = v])
        /\ linkState' = "syncing" /\ opens' = opens + 1 /\ clean' = TRUE /\ Begins(Sync, "self", Nothing) /\ UNCHANGED <<store, air, calls>>
    BY <1>8 DEF Opens
  <2>8. \A j \in Jobs : job[j].pc \notin {"answered", "refused"}
    BY <1>8 DEF Opens, Due
  <2>2. radio' \in [Items -> Vals]
    BY <2>1, BaseIs DEF Vals
  <2>3. Sync \in Jobs /\ "self" \in Kinds /\ PatchOK("self", Nothing)
    BY NothingIs DEF Jobs, Kinds, PatchOK
  <2>4. Beginning(Sync, "self", Nothing)
    BY <2>1, <2>3, BeginsIs
  <2>5. job[Sync].pc = "idle"
    BY <2>1 DEF Base, CommandsOK
  <2>6. opens' \in 0..MaxOpens /\ calls' \in 0..MaxCalls /\ store' \in [Items -> Vals] /\ clean' \in BOOLEAN
    BY <2>1, CommandsAssumption DEF Base, CommandsOK
  <2>7. Base'
    BY <2>1, <2>2, <2>3, <2>4, <2>5, <2>6, BaseBeginning
  <2> QED
    BY <2>1, <2>4, <2>5, <2>7, <2>8 DEF Steps, Opening
<1>9. CASE UNCHANGED commandsVars
  <2>1. CommandsOK' /\ QueueOK'
    BY <1>9 DEF Base, CommandsOK, QueueOK, commandsVars
  <2> QED
    BY <1>9, <2>1 DEF Base
<1> QED
  BY <1>1, <1>2, <1>3, <1>4, <1>5, <1>6, <1>7, <1>8, <1>9 DEF CommandsNext

LEMMA InitBase == CommandsInit => Base
<1> SUFFICES ASSUME CommandsInit PROVE Base
  OBVIOUS
<1>1. \A j \in Jobs : job[j] = Idle
  BY DEF CommandsInit
<1>2. job \in [Jobs -> JobType]
  BY IdleIs DEF CommandsInit
<1>3. \A j \in Jobs : JobOK(j, job[j])
  BY <1>1, IdleIs DEF JobOK
<1>4. radio \in [Items -> Vals] /\ store \in [Items -> Vals]
  <2>1. (CHOOSE v \in Values : TRUE) \in Values
    BY CommandsAssumption
  <2> QED
    BY <2>1 DEF CommandsInit, Vals
<1>5. CommandsOK
  <2>1. air \in Seq(FrameType) /\ (\A i \in DOMAIN air : FrameOK(air[i])) /\ Sync \in Jobs
    BY DEF CommandsInit, Jobs
  <2>2. calls \in 0..MaxCalls /\ opens \in 0..MaxOpens /\ clean \in BOOLEAN
    BY CommandsAssumption DEF CommandsInit
  <2>3. linkState = "connected"
    BY DEF CommandsInit
  <2> QED
    BY <1>1, <1>2, <1>3, <1>4, <2>1, <2>2, <2>3, IdleIs DEF CommandsOK
<1>6. QueueOK
  <2>1. queue = <<>>
    BY DEF CommandsInit
  <2>2. queue \in Seq(Jobs) /\ Distinct(queue) /\ \A j : ~Holds(queue, j)
    BY <2>1 DEF Distinct, Holds
  <2> QED
    BY <1>1, <2>2, IdleIs DEF QueueOK
<1> QED
  BY <1>5, <1>6 DEF Base

---------------------------------------------------------------------------
(* Each answer goes to the job that asked.                                 *)

\* A step of a job that neither asks the radio nor hears of it.
Quiet(j) ==
  /\ Keeps(j) /\ air' = air /\ ~Waits(j) /\ ~(job'[j].pc = "waits" /\ job'[j].live)
  /\ job'[j].pc \notin {"answered", "refused"}

LEMMA CallerIs == \A j \in Callers : j \in Jobs /\ j # Sync
BY CommandsAssumption DEF Jobs

LEMMA NewIs ==
  ASSUME NEW kind, NEW patch
  PROVE  New(kind, patch).pc = "queued" /\ New(kind, patch).kind = kind /\ New(kind, patch).live /\ New(kind, patch).got = Nothing /\ New(kind, patch).patch = patch
BY DEF New

LEMMA QuietSteps ==
  /\ \A j \in Jobs : Lingering(j) \/ Failed(j) \/ Finished(j) => Quiet(j)
  /\ \A j, kind, patch : Asking(j, kind, patch) => j \in Jobs /\ Quiet(j)
  /\ \A kind : Turning(kind) => Quiet(Sync)
<1>1. ASSUME NEW j \in Jobs, Lingering(j) PROVE Quiet(j)
  BY <1>1 DEF Lingering, Quiet, Waits
<1>2. ASSUME NEW j \in Jobs, Failed(j) PROVE Quiet(j)
  BY <1>2, IdleIs DEF Failed, Ending, Quiet, Waits
<1>3. ASSUME NEW j \in Jobs, Finished(j) PROVE Quiet(j)
  BY <1>3, IdleIs DEF Finished, Ending, Quiet, Waits
<1>4. ASSUME NEW j, NEW kind, NEW patch, Asking(j, kind, patch) PROVE j \in Jobs /\ Quiet(j)
  BY <1>4, NewIs, CallerIs DEF Asking, Beginning, Quiet, Waits
<1>5. ASSUME NEW kind, Turning(kind) PROVE Quiet(Sync)
  BY <1>5, NewIs DEF Turning, Beginning, Quiet, Waits
<1> QED
  BY <1>1, <1>2, <1>3, <1>4, <1>5

LEMMA ForIs ==
  ASSUME Base, NEW i \in DOMAIN air
  PROVE  air[i].for \in Jobs /\ air[i] \in FrameType /\ FrameOK(air[i])
<1>1. air[i] \in FrameType /\ FrameOK(air[i])
  BY DEF Base, CommandsOK
<1> QED
  BY <1>1 DEF FrameType

LEMMA QuietAir ==
  ASSUME Base, AirOK, OneDue, NEW j \in Jobs, Quiet(j)
  PROVE  AirOK' /\ OneDue'
<1>1. Keeps(j) /\ air' = air /\ ~Waits(j) /\ ~(job'[j].pc = "waits" /\ job'[j].live) /\ job'[j].pc \notin {"answered", "refused"}
      /\ \A k \in Jobs : k # j => job'[k] = job[k]
  BY DEF Quiet, Keeps
<1>2. \A i \in DOMAIN air : air[i].for \in Jobs /\ Hears(job[air[i].for], air[i])
  BY ForIs DEF AirOK
<1>3. \A i \in DOMAIN air : air[i].for # j
  BY <1>1, <1>2 DEF Hears, Waits
<1>4. \A i \in DOMAIN air' : Hears(job'[air'[i].for], air'[i])
  BY <1>1, <1>2, <1>3
<1>5. ASSUME NEW k \in Jobs, job'[k].pc = "waits", job'[k].live PROVE Waits(k) /\ k # j
  BY <1>1, <1>5 DEF Waits
<1>6. AirOK'
  BY <1>1, <1>4, <1>5 DEF AirOK, Waits
<1>7. OneDue'
  BY <1>1 DEF OneDue
<1> QED
  BY <1>6, <1>7

LEMMA SendingAir ==
  ASSUME Base, AirOK, OneDue, NEW j \in Jobs, Sending(j)
  PROVE  AirOK' /\ OneDue' /\ \A i \in DOMAIN air : air[i].for # j
<1>1. /\ \A k \in Jobs : k # j => job'[k] = job[k]
      /\ job[j].pc # "waits" /\ job'[j].pc = "waits" /\ job'[j].live /\ Answers(j, job'[j].todo[1])
  BY DEF Sending, Keeps
<1>2. \A i \in DOMAIN air : air[i].for \in Jobs /\ Hears(job[air[i].for], air[i])
  BY ForIs DEF AirOK
<1>3. \A i \in DOMAIN air : air[i].for # j
  BY <1>1, <1>2 DEF Hears
<1>4. /\ DOMAIN air = 1..Len(air) /\ DOMAIN air' = 1..Len(air') /\ Len(air) \in Nat /\ Len(air') \in Nat /\ Len(air') > Len(air)
      /\ \A i \in DOMAIN air : i \in DOMAIN air' /\ air'[i] = air[i]
      /\ \A i \in DOMAIN air' : i \notin DOMAIN air =>
           /\ air'[i].for = j
           /\ i # Len(air') => air'[i].kind = "contact" /\ job'[j].todo[1].reads = Contacts
           /\ i = Len(air') => air'[i].kind # "contact" /\ Ends(job'[j].todo[1], air'[i])
  BY <1>1 DEF Answers
<1>5. ASSUME NEW i \in DOMAIN air' PROVE Hears(job'[air'[i].for], air'[i])
  <2>1. CASE i \in DOMAIN air
    BY <1>1, <1>2, <1>3, <1>4, <2>1
  <2>2. CASE i \notin DOMAIN air
    BY <1>1, <1>4, <2>2 DEF Hears
  <2> QED
    BY <2>1, <2>2
<1>6. ASSUME NEW i \in DOMAIN air', NEW k \in DOMAIN air', i < k, air'[i].for = air'[k].for PROVE air'[i].kind = "contact"
  <2>1. CASE i \in DOMAIN air /\ k \in DOMAIN air
    BY <1>4, <1>6, <2>1 DEF AirOK
  <2>2. CASE i \in DOMAIN air /\ k \notin DOMAIN air
    BY <1>3, <1>4, <1>6, <2>2
  <2>3. CASE i \notin DOMAIN air
    <3>1. i # Len(air')
      BY <1>4, <1>6
    <3> QED
      BY <1>4, <2>3, <3>1
  <2> QED
    BY <2>1, <2>2, <2>3
<1>7. ASSUME NEW k \in Jobs, job'[k].pc = "waits", job'[k].live PROVE \E i \in DOMAIN air' : air'[i].for = k /\ air'[i].kind # "contact"
  <2>1. CASE k = j
    <3>1. Len(air') \in DOMAIN air' /\ Len(air') \notin DOMAIN air
      BY <1>4
    <3> QED
      BY <1>4, <2>1, <3>1
  <2>2. CASE k # j
    <3>1. Waits(k)
      BY <1>1, <1>7, <2>2 DEF Waits
    <3>2. PICK i \in DOMAIN air : air[i].for = k /\ air[i].kind # "contact"
      BY <3>1 DEF AirOK
    <3> QED
      BY <1>4, <3>2
  <2> QED
    BY <2>1, <2>2
<1>8. AirOK'
  BY <1>5, <1>6, <1>7 DEF AirOK, Waits
<1>9. OneDue'
  BY <1>1 DEF OneDue
<1> QED
  BY <1>3, <1>8, <1>9

\* In a clean step one job hears.
LEMMA HearingOne ==
  ASSUME Base, AirOK, NEW f \in FrameType, Hearing(f), clean'
  PROVE  /\ f.for \in Jobs /\ Hears(job[f.for], f) /\ Listens(f.for, f) /\ \A k \in Jobs : k # f.for => job'[k] = job[k] /\ ~Hears(job[k], f)
         /\ f = air[1] /\ 1 \in DOMAIN air
<1>1. f = air[1] /\ 1 \in DOMAIN air /\ \A j \in Jobs : Listens(j, f) => j = f.for
  BY DEF Hearing
<1>2. f.for \in Jobs /\ Hears(job[f.for], f)
  BY <1>1, ForIs DEF AirOK
<1>3. Listens(f.for, f)
  BY <1>2, ListensIs
<1>4. ASSUME NEW k \in Jobs, k # f.for PROVE job'[k] = job[k] /\ ~Hears(job[k], f)
  <2>1. ~Listens(k, f)
    BY <1>1, <1>4
  <2>2. ~Hears(job[k], f)
    BY <2>1, ListensIs
  <2> QED
    BY <2>1, <2>2 DEF Hearing
<1> QED
  BY <1>1, <1>2, <1>3, <1>4

LEMMA HearingAir ==
  ASSUME Base, AirOK, OneDue, NEW f \in FrameType, Hearing(f), clean'
  PROVE  AirOK' /\ OneDue'
<1>1. /\ f.for \in Jobs /\ Hears(job[f.for], f) /\ Listens(f.for, f) /\ \A k \in Jobs : k # f.for => job'[k] = job[k] /\ ~Hears(job[k], f)
      /\ f = air[1] /\ 1 \in DOMAIN air
  BY HearingOne
<1>2. PICK j \in Jobs : j = f.for
  BY <1>1
<1>3. /\ job'[j].todo = job[j].todo /\ job'[j].live = job[j].live /\ job[j].live /\ job[j].pc = "waits"
      /\ job'[j].pc = IF ~Ends(job[j].todo[1], f) THEN "waits" ELSE IF f.kind = "err" THEN "refused" ELSE "answered"
  BY <1>1, <1>2 DEF Hearing, Hears
<1>4. /\ DOMAIN air = 1..Len(air) /\ Len(air) \in Nat /\ DOMAIN air' = 1..(Len(air) - 1)
      /\ \A i \in DOMAIN air' : i + 1 \in DOMAIN air /\ air'[i] = air[i + 1]
      /\ \A i \in DOMAIN air : i # 1 => i - 1 \in DOMAIN air' /\ air'[i - 1] = air[i]
      /\ \A k \in Jobs : job[k].pc \notin {"answered", "refused"}
  BY DEF Hearing
<1>5. \A i \in DOMAIN air : air[i].for \in Jobs /\ Hears(job[air[i].for], air[i])
  BY ForIs DEF AirOK
\* After the frame that ends its wait there is none for the job.
<1>6. Ends(job[j].todo[1], f) => \A i \in DOMAIN air' : air'[i].for # j
  <2> SUFFICES ASSUME Ends(job[j].todo[1], f), NEW i \in DOMAIN air', air'[i].for = j PROVE FALSE
    OBVIOUS
  <2>1. i + 1 \in DOMAIN air /\ air[i + 1].for = j /\ 1 < i + 1
    BY <1>4
  <2>2. air[1].kind = "contact"
    BY <1>1, <1>2, <2>1 DEF AirOK
  <2> QED
    BY <1>1, <2>2 DEF Ends
<1>7. ~Ends(job[j].todo[1], f) => f.kind = "contact" /\ job'[j].pc = "waits"
  BY <1>1, <1>2, <1>3 DEF Hears
<1>8. ASSUME NEW i \in DOMAIN air' PROVE Hears(job'[air'[i].for], air'[i])
  <2>1. i + 1 \in DOMAIN air /\ air'[i] = air[i + 1] /\ air'[i].for \in Jobs /\ Hears(job[air'[i].for], air'[i])
    BY <1>4, <1>5
  <2>2. CASE air'[i].for # j
    BY <1>1, <1>2, <2>1, <2>2
  <2>3. CASE air'[i].for = j
    <3>1. job'[j].pc = "waits"
      BY <1>6, <1>7, <2>3
    <3> QED
      BY <1>3, <2>1, <2>3, <3>1 DEF Hears
  <2> QED
    BY <2>2, <2>3
<1>9. ASSUME NEW i \in DOMAIN air', NEW k \in DOMAIN air', i < k, air'[i].for = air'[k].for PROVE air'[i].kind = "contact"
  <2>1. i + 1 < k + 1
    BY <1>4, <1>9
  <2> QED
    BY <1>4, <1>9, <2>1 DEF AirOK
<1>10. ASSUME NEW k \in Jobs, job'[k].pc = "waits", job'[k].live PROVE \E i \in DOMAIN air' : air'[i].for = k /\ air'[i].kind # "contact"
  <2>1. Waits(k)
    BY <1>1, <1>2, <1>3, <1>10 DEF Waits
  <2>2. PICK i \in DOMAIN air : air[i].for = k /\ air[i].kind # "contact"
    BY <2>1 DEF AirOK
  <2>3. i # 1
    <3>1. CASE k # j
      BY <1>1, <1>2, <2>2, <3>1
    <3>2. CASE k = j
      <4>1. ~Ends(job[j].todo[1], f)
        BY <1>3, <1>10, <3>2
      <4> QED
        BY <1>1, <1>7, <2>2, <4>1
    <3> QED
      BY <3>1, <3>2
  <2>4. i - 1 \in DOMAIN air' /\ air'[i - 1] = air[i]
    BY <1>4, <2>3
  <2> QED
    BY <2>2, <2>4
<1>11. AirOK'
  BY <1>8, <1>9, <1>10 DEF AirOK, Waits
<1>12. OneDue'
  <2>1. \A k \in Jobs : job'[k].pc \in {"answered", "refused"} => k = j
    BY <1>1, <1>2, <1>4
  <2>2. job'[j].live
    BY <1>3
  <2> QED
    BY <2>1, <2>2 DEF OneDue
<1> QED
  BY <1>11, <1>12

LEMMA LinkedBefore ==
  ASSUME Base, Steps, Linked', ~Opening
  PROVE  Linked
<1>1. clean' /\ linkState' # "down"
  BY DEF Linked
<1>2. ASSUME NEW j, NEW kind, NEW patch, Asking(j, kind, patch) PROVE Linked
  BY <1>1, <1>2 DEF Asking, Linked
<1>3. ASSUME NEW j \in Jobs, Sending(j) \/ Lingering(j) PROVE Linked
  BY <1>1, <1>3 DEF Sending, Lingering, Linked
<1>4. ASSUME NEW j \in Jobs, Failed(j) \/ Finished(j) PROVE Linked
  <2>1. clean /\ Ending(j)
    BY <1>1, <1>4 DEF Failed, Finished
  <2>2. CASE linkState' = linkState
    BY <1>1, <2>1, <2>2 DEF Linked
  <2>3. CASE linkState' # linkState
    <3>1. j = Sync
      BY <1>4, <2>3 DEF Failed, Finished
    <3>2. linkState # "down"
      BY <2>1, <3>1 DEF Ending, Base, CommandsOK
    <3> QED
      BY <2>1, <3>2 DEF Linked
  <2> QED
    BY <2>2, <2>3
<1>5. ASSUME NEW kind, Turning(kind) PROVE Linked
  BY <1>1, <1>5 DEF Turning, Linked
<1>6. ASSUME NEW f \in FrameType, Hearing(f) PROVE Linked
  BY <1>1, <1>6 DEF Hearing, Linked
<1> QED
  BY <1>1, <1>2, <1>3, <1>4, <1>5, <1>6 DEF Steps

LEMMA AloneSteps ==
  ASSUME Base, Alone, Steps, Linked', ~Opening
  PROVE  Alone'
<1>1. clean' /\ linkState' # "down"
  BY DEF Linked
<1>2. ASSUME \A k \in Jobs : job'[k].kind \in {"self", "settings"} => job[k].kind \in {"self", "settings"} PROVE Alone'
  BY <1>2 DEF Alone
<1>3. ASSUME NEW j, NEW kind, NEW patch, Asking(j, kind, patch) PROVE Alone'
  <2>1. /\ j \in Callers /\ kind # "self" /\ Beginning(j, kind, patch) /\ clean /\ linkState' = linkState
        /\ ~(kind = "settings" /\ (Under("settings") \/ Under("self")))
    BY <1>1, <1>3 DEF Asking
  <2>2. job'[j].kind = kind /\ \A k \in Jobs : k # j => job'[k] = job[k]
    BY <2>1, NewIs DEF Beginning, Keeps
  <2>3. CASE kind # "settings"
    BY <1>1, <1>2, <2>1, <2>2, <2>3, CallerIs
  <2>4. CASE kind = "settings"
    <3>1. \A k \in Jobs : job[k].pc # "idle" => job[k].kind \notin {"self", "settings"}
      BY <2>1, <2>4 DEF Under
    <3>2. \A k \in Jobs : job[k].pc = "idle" => job[k].kind \notin {"self", "settings"}
      BY BaseIs, IdleIs DEF JobOK
    <3>3. \A k \in Jobs : job'[k].kind \in {"self", "settings"} => k = j
      BY <2>2, <3>1, <3>2
    <3> QED
      BY <1>1, <2>1, <3>3 DEF Alone
  <2> QED
    BY <2>3, <2>4
<1>4. ASSUME NEW j \in Jobs, Sending(j) \/ Lingering(j) PROVE Alone'
  BY <1>1, <1>2, <1>4 DEF Sending, Lingering, Keeps
<1>5. ASSUME NEW j \in Jobs, Failed(j) \/ Finished(j) PROVE Alone'
  <2>1. clean /\ Ending(j)
    BY <1>1, <1>5 DEF Failed, Finished
  <2>3. \A k \in Jobs : job'[k].kind \in {"self", "settings"} => job[k].kind \in {"self", "settings"}
    BY <2>1, IdleIs DEF Ending, Keeps
  <2> QED
    BY <1>2, <2>3
<1>6. ASSUME NEW kind, Turning(kind) PROVE Alone'
  <2>1. clean /\ linkState # "down" /\ Beginning(Sync, kind, Nothing) /\ kind \notin {"self", "settings"}
    BY <1>1, <1>6 DEF Turning
  <2>2. \A k \in Jobs : job'[k].kind \in {"self", "settings"} => job[k].kind \in {"self", "settings"}
    BY <2>1, NewIs DEF Beginning, Keeps
  <2> QED
    BY <1>2, <2>2
<1>7. ASSUME NEW f \in FrameType, Hearing(f) PROVE Alone'
  <2>1. \A k \in Jobs : job'[k].kind = job[k].kind
    BY <1>7 DEF Hearing
  <2> QED
    BY <1>1, <1>2, <1>7, <2>1 DEF Hearing
<1> QED
  BY <1>1, <1>3, <1>4, <1>5, <1>6, <1>7 DEF Steps

\* When a connection opens no job of an earlier one is heard again.
LEMMA OpenedJobs ==
  ASSUME Base, Opening
  PROVE  /\ air' = <<>> /\ linkState' = "syncing" /\ job'[Sync].kind = "self" /\ job'[Sync].pc = "queued" /\ job'[Sync].live /\ job'[Sync].got = Nothing
         /\ job'[Sync].todo = <<Read(SettingKeys)>>
         /\ \A k \in Jobs : k # Sync => /\ job'[k] = job[k] /\ ~job'[k].live /\ job'[k].kind \in {"set", "channels", "plain"}
                                        /\ job'[k].pc \notin {"answered", "refused"}
                                        /\ (job'[k].kind = "channels" => job'[k].pc = "queued")
<1>1. linkState = "down" /\ linkState' = "syncing" /\ Beginning(Sync, "self", Nothing) /\ air' = air
      /\ \A k \in Jobs : job[k].pc \notin {"answered", "refused"}
  BY DEF Opening
<1>2. air = <<>> /\ \A k \in Jobs : ~job[k].live
  BY <1>1 DEF Base, CommandsOK
<1>3. \A k \in Jobs : k # Sync => job'[k] = job[k]
  BY <1>1 DEF Beginning, Keeps
<1>4. ASSUME NEW k \in Jobs PROVE job[k].kind \in {"set", "channels", "plain"} /\ (job[k].kind = "channels" => job[k].pc = "queued")
  BY <1>2, BaseIs, IdleIs DEF JobOK
<1>5. job'[Sync].kind = "self" /\ job'[Sync].pc = "queued" /\ job'[Sync].live /\ job'[Sync].got = Nothing
  BY <1>1, NewIs DEF Beginning
<1>6. job'[Sync].todo = <<Read(SettingKeys)>>
  BY <1>1 DEF Beginning, New, Commands
<1> QED
  BY <1>1, <1>2, <1>3, <1>4, <1>5, <1>6

LEMMA SettledSteps ==
  ASSUME Base, Linked => Settled, Steps, Linked'
  PROVE  Settled'
<1>1. CASE Opening
  <2>1. /\ air' = <<>> /\ job'[Sync].kind = "self" /\ job'[Sync].pc = "queued"
        /\ \A k \in Jobs : k # Sync => /\ job'[k] = job[k] /\ ~job'[k].live /\ job'[k].kind \in {"set", "channels", "plain"}
                                       /\ job'[k].pc \notin {"answered", "refused"}
    BY <1>1, OpenedJobs
  <2>2. AirOK'
    <3>1. DOMAIN air' = {}
      BY <2>1
    <3>2. \A k \in Jobs : ~(job'[k].pc = "waits" /\ job'[k].live)
      BY <2>1
    <3> QED
      BY <3>1, <3>2 DEF AirOK, Waits
  <2>3. OneDue' /\ Alone'
    BY <2>1 DEF OneDue, Alone
  <2> QED
    BY <2>2, <2>3 DEF Settled
<1>2. CASE ~Opening
  <2>1. Linked /\ clean'
    BY <1>2, LinkedBefore DEF Linked
  <2>2. AirOK /\ OneDue /\ Alone
    BY <2>1 DEF Settled
  <2>3. Alone'
    BY <1>2, <2>2, AloneSteps
  <2>4. AirOK' /\ OneDue'
    <3>1. ASSUME NEW j \in Jobs, Quiet(j) PROVE AirOK' /\ OneDue'
      BY <2>2, <3>1, QuietAir
    <3>2. ASSUME NEW j \in Jobs, Sending(j) PROVE AirOK' /\ OneDue'
      BY <2>2, <3>2, SendingAir
    <3>3. ASSUME NEW f \in FrameType, Hearing(f) PROVE AirOK' /\ OneDue'
      BY <2>1, <2>2, <3>3, HearingAir
    <3>4. Sync \in Jobs /\ clean' /\ linkState' # "down"
      BY DEF Jobs, Linked
    <3> QED
      BY <1>2, <3>1, <3>2, <3>3, <3>4, QuietSteps DEF Steps
  <2> QED
    BY <2>3, <2>4 DEF Settled
<1> QED
  BY <1>1, <1>2

---------------------------------------------------------------------------
(* What the radio keeps.                                                   *)

LEMMA WritesOf ==
  ASSUME NEW r \in JobType, Shape(r), NEW i \in DOMAIN r.todo, NEW x \in DOMAIN r.todo[i].writes
  PROVE  \/ r.kind = "set" /\ x \in SlotSet /\ x \in DOMAIN r.patch /\ r.todo[i].writes[x] = r.patch[x]
         \/ r.kind \in {"remove", "import"} /\ x \in Contacts /\ x \in DOMAIN r.patch /\ r.todo[i].writes[x] = r.patch[x]
         \/ r.kind = "settings" /\ x \in SettingKeys /\ r.todo[i].writes[x] = Final(r, x)
<1>1. r.kind \in Kinds
  BY DEF JobType
<1>2. \A w : Write(w).writes = w
  BY CommandIs
<1>3. \A s : DOMAIN Read(s).writes = {}
  BY CommandIs, NothingIs
<1>4. CASE r.kind \in {"set", "remove"}
  <2>1. r.todo = <<Write(r.patch)>>
    BY <1>4 DEF Shape
  <2>2. r.todo[i] = Write(r.patch)
    BY <2>1
  <2> QED
    BY <1>2, <1>4, <2>2 DEF Shape
<1>5. CASE r.kind = "plain"
  <2>1. r.todo = <<Write(Nothing)>>
    BY <1>5 DEF Shape
  <2>2. r.todo[i] = Write(Nothing)
    BY <2>1
  <2> QED
    BY <1>2, <2>2, NothingIs
<1>6. CASE r.kind \in {"contacts", "self"}
  <2>1. r.todo = <<Read(Contacts)>> \/ r.todo = <<Read(SettingKeys)>>
    BY <1>6 DEF Shape
  <2>2. r.todo[i] = Read(Contacts) \/ r.todo[i] = Read(SettingKeys)
    BY <2>1
  <2> QED
    BY <1>3, <2>2
<1>7. CASE r.kind = "import"
  <2>1. r.todo = <<Write(r.patch), Read(Contacts)>> \/ r.todo = <<Read(Contacts)>>
    BY <1>7 DEF Shape
  <2>2. r.todo[i] = Read(Contacts) \/ r.todo[i] = Write(r.patch)
    BY <2>1
  <2> QED
    BY <1>2, <1>3, <1>7, <2>2 DEF Shape
<1>8. CASE r.kind = "channels"
  <2>1. \E s \in SlotSet : r.todo[i] = Read({s})
    BY <1>8 DEF Shape
  <2> QED
    BY <1>3, <2>1
<1>9. CASE r.kind = "settings"
  BY <1>9 DEF Shape
<1> QED
  BY <1>1, <1>4, <1>5, <1>6, <1>7, <1>8, <1>9 DEF Kinds, Channel

LEMMA SendingJob ==
  ASSUME Base, NEW j \in Jobs, Sending(j)
  PROVE  /\ Base' /\ job'[j] \in JobType /\ Shape(job'[j]) /\ job'[j].todo # <<>> /\ 1 \in DOMAIN job'[j].todo
         /\ job[j].pc # "idle" /\ job'[j].pc = "waits" /\ job[j].live /\ job'[j].live
         /\ job'[j].kind = job[j].kind /\ job'[j].patch = job[j].patch /\ job'[j].old = job[j].old /\ job'[j].got = job[j].got
         /\ CommandOK(job'[j].todo[1]) /\ Answers(j, job'[j].todo[1]) /\ (Queued(job[j].kind) => queue[1] = j)
         /\ UNCHANGED <<store, linkState, queue, clean>> /\ \A k \in Jobs : k # j => job'[k] = job[k]
<1>1. Base'
  BY BaseSending
<1>2. job'[j] \in JobType /\ JobOK(j, job'[j]) /\ job'[j].pc = "waits"
  BY <1>1 DEF Base, CommandsOK, Sending
<1>3. Shape(job'[j]) /\ job'[j].todo # <<>>
  BY <1>2 DEF JobOK
<1>4. PICK t : t = job'[j].todo
  OBVIOUS
<1>5. t \in Seq(Command) /\ t # <<>>
  BY <1>2, <1>3, <1>4 DEF JobType
<1>6. 1 \in DOMAIN t
  BY <1>5
<1> QED
  BY <1>1, <1>2, <1>3, <1>4, <1>6 DEF Sending, Keeps

\* What a command may change, and what it then is.
LEMMA RadioChanged ==
  ASSUME Base, NEW j \in Jobs, Sending(j), NEW x \in Items, radio'[x] # radio[x]
  PROVE  /\ \/ job[j].kind = "set" /\ x \in SlotSet /\ x \in DOMAIN job[j].patch /\ radio'[x] = job[j].patch[x]
            \/ job[j].kind \in {"remove", "import"} /\ x \in Contacts /\ x \in DOMAIN job[j].patch /\ radio'[x] = job[j].patch[x]
            \/ job[j].kind = "settings" /\ x \in SettingKeys /\ radio'[x] = Final(job[j], x)
         /\ x \in DOMAIN job'[j].todo[1].writes
<1>1. PICK c : c = job'[j].todo[1]
  OBVIOUS
<1>2. Answers(j, c) /\ job'[j] \in JobType /\ Shape(job'[j]) /\ 1 \in DOMAIN job'[j].todo
  BY <1>1, SendingJob
<1>3. x \in DOMAIN c.writes /\ radio'[x] = c.writes[x]
  BY <1>2 DEF Answers
<1>4. /\ \/ job'[j].kind = "set" /\ x \in SlotSet /\ x \in DOMAIN job'[j].patch /\ c.writes[x] = job'[j].patch[x]
         \/ job'[j].kind \in {"remove", "import"} /\ x \in Contacts /\ x \in DOMAIN job'[j].patch /\ c.writes[x] = job'[j].patch[x]
         \/ job'[j].kind = "settings" /\ x \in SettingKeys /\ c.writes[x] = Final(job'[j], x)
  BY <1>1, <1>2, <1>3, WritesOf
<1>5. Final(job'[j], x) = Final(job[j], x) /\ job'[j].kind = job[j].kind /\ job'[j].patch = job[j].patch
  BY DEF Sending, Final
<1> QED
  BY <1>1, <1>3, <1>4, <1>5

\* Who reads what.
LEMMA ReadsOf ==
  ASSUME Base, NEW k \in Jobs, job[k].pc # "idle"
  PROVE  /\ job[k].todo[1].reads = SettingKeys => job[k].kind = "self"
         /\ \A s \in SlotSet : job[k].todo[1].reads = {s} => job[k].kind = "channels"
         /\ job[k].todo[1].reads = Contacts => job[k].kind \in {"contacts", "import"} /\ job[k].todo[1] = Read(Contacts)
<1>1. job[k] \in JobType /\ Shape(job[k]) /\ job[k].todo # <<>> /\ CommandOK(job[k].todo[1])
  BY BaseJob
<1>2. job[k].kind \in Kinds
  BY <1>1 DEF JobType
<1>3. /\ job[k].kind \in {"set", "remove", "settings", "plain"} => job[k].todo[1].name = "write"
      /\ job[k].kind = "self" => job[k].todo[1].reads = SettingKeys
      /\ job[k].kind = "contacts" => job[k].todo[1] = Read(Contacts)
      /\ job[k].kind = "channels" => \E s \in SlotSet : job[k].todo[1] = Read({s}) /\ job[k].todo[1].reads = {s}
      /\ job[k].kind = "import" => job[k].todo[1] = Write(job[k].patch) \/ job[k].todo[1] = Read(Contacts)
  BY <1>1, FirstCommand
<1>4. job[k].todo[1].name = "write" => job[k].todo[1].reads = {}
  BY <1>1, CommandShape
<1>5. job[k].kind \in {"contacts", "import"} => job[k].todo[1].reads = {} \/ job[k].todo[1].reads = Contacts
  BY <1>3, CommandIs
<1>6. job[k].kind \in {"contacts", "import"} /\ job[k].todo[1].reads = Contacts => job[k].todo[1] = Read(Contacts)
  BY <1>3, CommandIs, Asked
<1> QED
  BY <1>2, <1>3, <1>4, <1>5, <1>6, Asked DEF Kinds, Channel

LEMMA InfoSending ==
  ASSUME Base, Settled, InfoOK, NEW j \in Jobs, Sending(j)
  PROVE  InfoOK'
<1>1. Answers(j, job'[j].todo[1]) /\ radio \in [Items -> Vals] /\ (Queued(job[j].kind) => queue[1] = j)
  BY SendingJob, BaseIs
<1>2. /\ \A i \in DOMAIN air : i \in DOMAIN air' /\ air'[i] = air[i]
      /\ \A i \in DOMAIN air' : i \notin DOMAIN air => \A x \in DOMAIN air'[i].data : air'[i].data[x] = radio'[x]
  BY <1>1 DEF Answers
<1>3. \A i \in DOMAIN air : air[i].for # j
  BY SendingAir DEF Settled
<1>4. ASSUME NEW i \in DOMAIN air, air[i].kind = "info", NEW x \in DOMAIN air[i].data PROVE radio'[x] = radio[x]
  <2>1. PICK k \in Jobs : k = air[i].for
    BY ForIs
  <2>2. Hears(job[k], air[i]) /\ k # j
    BY <1>3, <2>1 DEF Settled, AirOK
  <2>3. job[k].pc = "waits" /\ job[k].todo[1].reads = DOMAIN air[i].data
    BY <1>4, <2>2 DEF Hears, Ends
  <2>4. DOMAIN air[i].data = SettingKeys \/ \E s \in SlotSet : DOMAIN air[i].data = {s}
    BY <1>4, ForIs DEF FrameOK
  <2>5. (x \in SettingKeys /\ job[k].kind = "self") \/ (x \in SlotSet /\ job[k].kind = "channels")
    BY <2>3, <2>4, ReadsOf
  <2>6. x \in Items
    BY <2>5, ItemsAre
  <2>7. SUFFICES ASSUME radio'[x] # radio[x] PROVE FALSE
    OBVIOUS
  <2>8. \/ job[j].kind = "set" /\ x \in SlotSet
        \/ job[j].kind \in {"remove", "import"} /\ x \in Contacts
        \/ job[j].kind = "settings" /\ x \in SettingKeys
    BY <2>6, <2>7, RadioChanged
  <2>9. (job[j].kind = "settings" /\ job[k].kind = "self") \/ (job[j].kind = "set" /\ job[k].kind = "channels")
    BY <2>5, <2>8, ItemsAre
  <2>10. ~(job[j].kind = "settings" /\ job[k].kind = "self")
    BY <2>2 DEF Settled, Alone
  <2>11. job[j].kind = "set" /\ job[k].kind = "channels" => queue[1] = j /\ queue[1] = k
    BY <1>1, <2>3, QueuedIs DEF Base, QueueOK
  <2> QED
    BY <2>2, <2>9, <2>10, <2>11
<1> QED
  BY <1>2, <1>4 DEF InfoOK

LEMMA UnchangedAir ==
  ASSUME Steps, clean', linkState' # "down", ~Opening
  PROVE  \/ \E j \in Jobs : Sending(j)
         \/ \E f \in FrameType : Hearing(f)
         \/ UNCHANGED <<radio, air>> /\ \E j \in Jobs : Quiet(j)
<1>1. \A j \in Jobs : Lingering(j) \/ Failed(j) \/ Finished(j) => UNCHANGED <<radio, air>>
  BY DEF Lingering, Failed, Finished
<1>2. \A j, kind, patch : Asking(j, kind, patch) => UNCHANGED <<radio, air>>
  BY DEF Asking
<1>3. \A kind : Turning(kind) => UNCHANGED <<radio, air>>
  BY DEF Turning
<1>4. Sync \in Jobs
  BY DEF Jobs
<1> QED
  BY <1>1, <1>2, <1>3, <1>4, QuietSteps DEF Steps

LEMMA InfoSteps ==
  ASSUME Base, Linked => Settled /\ InfoOK, Steps, Linked'
  PROVE  InfoOK'
<1>1. CASE Opening
  <2>1. air' = <<>>
    BY <1>1, OpenedJobs
  <2> QED
    BY <2>1 DEF InfoOK
<1>2. CASE ~Opening
  <2>1. Settled /\ InfoOK /\ clean' /\ linkState' # "down"
    BY <1>2, LinkedBefore DEF Linked
  <2>2. ASSUME NEW j \in Jobs, Sending(j) PROVE InfoOK'
    BY <2>1, <2>2, InfoSending
  <2>3. ASSUME NEW f \in FrameType, Hearing(f) PROVE InfoOK'
    BY <2>1, <2>3 DEF Hearing, InfoOK
  <2>4. CASE UNCHANGED <<radio, air>>
    BY <2>1, <2>4 DEF InfoOK
  <2> QED
    BY <1>2, <2>1, <2>2, <2>3, <2>4, UnchangedAir
<1> QED
  BY <1>1, <1>2

\* A step is one job's: of the others nothing changes, and they fail or have sent what they had.
Acts(j) == \A k \in Jobs : k # j => job'[k] = job[k] /\ (Failing(k)' <=> Failing(k)) /\ (Sent(k)' <=> Sent(k))

LEMMA ActsIs ==
  ASSUME NEW j \in Jobs, \A k \in Jobs : k # j => job'[k] = job[k],
         \A k \in Jobs : k # j => ((\E i \in DOMAIN air' : air'[i].for = k /\ air'[i].kind = "err") <=> \E i \in DOMAIN air : air[i].for = k /\ air[i].kind = "err")
  PROVE  Acts(j)
<1> SUFFICES ASSUME NEW k \in Jobs, k # j PROVE job'[k] = job[k] /\ (Failing(k)' <=> Failing(k)) /\ (Sent(k)' <=> Sent(k))
  BY DEF Acts
<1>1. job'[k] = job[k]
  OBVIOUS
<1>2. Failing(k)' <=> Failing(k)
  BY <1>1 DEF Failing
<1> QED
  BY <1>1, <1>2 DEF Sent

LEMMA ActsSending ==
  ASSUME Base, NEW j \in Jobs, Sending(j)
  PROVE  Acts(j)
<1>1. Answers(j, job'[j].todo[1]) /\ \A k \in Jobs : k # j => job'[k] = job[k]
  BY SendingJob
<1>2. /\ \A i \in DOMAIN air : i \in DOMAIN air' /\ air'[i] = air[i]
      /\ \A i \in DOMAIN air' : i \notin DOMAIN air => air'[i].for = j
  BY <1>1 DEF Answers
<1>3. \A k \in Jobs : k # j => ((\E i \in DOMAIN air' : air'[i].for = k /\ air'[i].kind = "err") <=> \E i \in DOMAIN air : air[i].for = k /\ air[i].kind = "err")
  BY <1>2
<1> QED
  BY <1>1, <1>3, ActsIs

LEMMA ActsQuiet ==
  ASSUME NEW j \in Jobs, Quiet(j)
  PROVE  Acts(j)
<1>1. air' = air /\ \A k \in Jobs : k # j => job'[k] = job[k]
  BY DEF Quiet, Keeps
<1>2. \A k \in Jobs : k # j => ((\E i \in DOMAIN air' : air'[i].for = k /\ air'[i].kind = "err") <=> \E i \in DOMAIN air : air[i].for = k /\ air[i].kind = "err")
  BY <1>1
<1> QED
  BY <1>1, <1>2, ActsIs

LEMMA ActsHearing ==
  ASSUME Base, AirOK, NEW f \in FrameType, Hearing(f), clean'
  PROVE  f.for \in Jobs /\ Acts(f.for)
<1>1. /\ f.for \in Jobs /\ f = air[1] /\ 1 \in DOMAIN air
      /\ \A k \in Jobs : k # f.for => job'[k] = job[k]
  BY HearingOne
<1>2. /\ \A i \in DOMAIN air' : i + 1 \in DOMAIN air /\ air'[i] = air[i + 1]
      /\ \A i \in DOMAIN air : i # 1 => i - 1 \in DOMAIN air' /\ air'[i - 1] = air[i]
  BY DEF Hearing
<1>3. \A k \in Jobs : k # f.for => ((\E i \in DOMAIN air' : air'[i].for = k /\ air'[i].kind = "err") <=> \E i \in DOMAIN air : air[i].for = k /\ air[i].kind = "err")
  <2> SUFFICES ASSUME NEW k \in Jobs, k # f.for
               PROVE  (\E i \in DOMAIN air' : air'[i].for = k /\ air'[i].kind = "err") <=> \E i \in DOMAIN air : air[i].for = k /\ air[i].kind = "err"
    OBVIOUS
  <2>1. ASSUME NEW i \in DOMAIN air', air'[i].for = k, air'[i].kind = "err" PROVE \E m \in DOMAIN air : air[m].for = k /\ air[m].kind = "err"
    BY <1>2, <2>1
  <2>2. ASSUME NEW i \in DOMAIN air, air[i].for = k, air[i].kind = "err" PROVE \E m \in DOMAIN air' : air'[m].for = k /\ air'[m].kind = "err"
    <3>1. i # 1
      BY <1>1, <2>2
    <3> QED
      BY <1>2, <2>2, <3>1
  <2> QED
    BY <2>1, <2>2
<1> QED
  BY <1>1, <1>3, ActsIs

\* A job that does not wait has no frame on its way.
LEMMA NotWaiting ==
  ASSUME Base, AirOK, NEW j \in Jobs, job[j].pc # "waits"
  PROVE  \A i \in DOMAIN air : air[i].for # j
BY ForIs DEF AirOK, Hears

\* What becomes of a job that hears.
LEMMA HearingJob ==
  ASSUME Base, AirOK, NEW f \in FrameType, Hearing(f), clean', NEW j, j = f.for
  PROVE  /\ j \in Jobs /\ job[j].pc = "waits" /\ job[j].live /\ job'[j].live /\ FrameOK(f) /\ f = air[1] /\ 1 \in DOMAIN air
         /\ Ends(job[j].todo[1], f) \/ (f.kind = "contact" /\ job[j].todo[1].reads = Contacts)
         /\ job'[j].kind = job[j].kind /\ job'[j].patch = job[j].patch /\ job'[j].old = job[j].old /\ job'[j].todo = job[j].todo
         /\ job'[j].pc = IF ~Ends(job[j].todo[1], f) THEN "waits" ELSE IF f.kind = "err" THEN "refused" ELSE "answered"
         /\ \A x : /\ x \in DOMAIN job'[j].got <=> x \in DOMAIN f.data \/ x \in DOMAIN job[j].got
                   /\ x \in DOMAIN f.data => job'[j].got[x] = f.data[x]
                   /\ x \in DOMAIN job[j].got /\ x \notin DOMAIN f.data => job'[j].got[x] = job[j].got[x]
         /\ f.kind # "contact" => \A i \in DOMAIN air : i # 1 => air[i].for # j
         /\ f.kind # "err" /\ ~Failing(j)' => Sent(j)
<1>1. f.for \in Jobs /\ Hears(job[f.for], f) /\ Listens(f.for, f) /\ f = air[1] /\ 1 \in DOMAIN air
  BY HearingOne
<1>2. /\ j \in Jobs /\ job[j].pc = "waits" /\ job[j].live
      /\ Ends(job[j].todo[1], f) \/ (f.kind = "contact" /\ job[j].todo[1].reads = Contacts)
  BY <1>1 DEF Hears
<1>3. /\ FrameOK(f) /\ job'[j].live = job[j].live
      /\ job'[j].kind = job[j].kind /\ job'[j].patch = job[j].patch /\ job'[j].old = job[j].old /\ job'[j].todo = job[j].todo
      /\ job'[j].pc = IF ~Ends(job[j].todo[1], f) THEN "waits" ELSE IF f.kind = "err" THEN "refused" ELSE "answered"
      /\ \A x : /\ x \in DOMAIN job'[j].got <=> x \in DOMAIN f.data \/ x \in DOMAIN job[j].got
                /\ x \in DOMAIN f.data => job'[j].got[x] = f.data[x]
                /\ x \in DOMAIN job[j].got /\ x \notin DOMAIN f.data => job'[j].got[x] = job[j].got[x]
  BY <1>1, <1>2 DEF Hearing
<1>4. /\ DOMAIN air = 1..Len(air) /\ Len(air) \in Nat
      /\ \A i \in DOMAIN air : i # 1 => i - 1 \in DOMAIN air' /\ air'[i - 1] = air[i]
  BY DEF Hearing
<1>5. f.kind # "contact" => \A i \in DOMAIN air : i # 1 => air[i].for # j
  BY <1>1, <1>4 DEF AirOK
<1>6. ASSUME f.kind # "err", ~Failing(j)' PROVE Sent(j)
  <2>1. \A i \in DOMAIN air : ~(air[i].for = j /\ air[i].kind = "err")
    <3> SUFFICES ASSUME NEW i \in DOMAIN air, air[i].for = j, air[i].kind = "err" PROVE FALSE
      OBVIOUS
    <3>1. i # 1
      BY <1>1, <1>6
    <3> QED
      BY <1>4, <1>6, <3>1 DEF Failing
  <2>2. ~Failing(j)
    BY <1>2, <2>1 DEF Failing
  <2> QED
    BY <1>2, <2>2 DEF Sent
<1> QED
  BY <1>1, <1>2, <1>3, <1>5, <1>6

---------------------------------------------------------------------------
(* Settings.                                                               *)

SameSettings == \A x \in SettingKeys : radio'[x] = radio[x]

LEMMA SettingsOthers ==
  ASSUME Base, SettingsOK, NEW j \in Jobs, Acts(j), SameSettings, NEW k \in Jobs, k # j
  PROVE  SettingsWritten(k)' /\ SelfRead(k)'
<1>1. job'[k] = job[k] /\ (Failing(k)' <=> Failing(k)) /\ (Sent(k)' <=> Sent(k))
  BY DEF Acts
<1>2. job'[k].todo = job[k].todo /\ job'[k].kind = job[k].kind /\ job'[k].got = job[k].got /\ job'[k].pc = job[k].pc
      /\ \A x : Final(job'[k], x) = Final(job[k], x)
  BY <1>1
<1>3. SettingsWritten(k)'
  <2> SUFFICES ASSUME job'[k].kind = "settings", ~Failing(k)', NEW x \in SettingKeys
               PROVE  \/ radio'[x] = Final(job'[k], x)
                      \/ \E i \in DOMAIN job'[k].todo : (Sent(k)' => i > 1) /\ x \in DOMAIN job'[k].todo[i].writes
    BY DEF SettingsWritten
  <2>1. radio[x] = Final(job[k], x) \/ \E i \in DOMAIN job[k].todo : (Sent(k) => i > 1) /\ x \in DOMAIN job[k].todo[i].writes
    BY <1>1, <1>2 DEF SettingsOK, SettingsWritten
  <2>2. radio'[x] = radio[x]
    BY DEF SameSettings
  <2> QED
    BY <1>1, <1>2, <2>1, <2>2
<1>4. SelfRead(k)'
  <2> SUFFICES ASSUME job'[k].kind = "self"
               PROVE  /\ \A x \in DOMAIN job'[k].got : job'[k].got[x] = radio'[x]
                      /\ job'[k].pc = "answered" => SettingKeys \subseteq DOMAIN job'[k].got
    BY DEF SelfRead
  <2>1. job[k].kind = "self" /\ job[k].pc # "idle"
    BY <1>2, BaseIs, IdleIs DEF JobOK
  <2>2. DOMAIN job[k].got \subseteq SettingKeys
    BY <2>1, BaseJob DEF Shape
  <2>3. SelfRead(k)
    BY DEF SettingsOK
  <2> QED
    BY <1>2, <2>1, <2>2, <2>3 DEF SelfRead, SameSettings
<1> QED
  BY <1>3, <1>4

\* While a job of another kind acts.
LEMMA SettingsRest ==
  ASSUME Base, SettingsOK, NEW j \in Jobs, Acts(j), SameSettings, job'[j].kind \notin {"settings", "self"}
  PROVE  \A k \in Jobs : SettingsWritten(k)' /\ SelfRead(k)'
<1>1. SettingsWritten(j)' /\ SelfRead(j)'
  BY DEF SettingsWritten, SelfRead
<1> QED
  BY <1>1, SettingsOthers

LEMMA SettingsAsking ==
  ASSUME Base, SettingsOK, NEW j, NEW kind, NEW patch, Asking(j, kind, patch), clean'
  PROVE  SettingsOK'
<1>1. /\ j \in Callers /\ kind # "self" /\ Beginning(j, kind, patch) /\ job[j].pc = "idle"
      /\ ~(kind = "settings" /\ (Under("settings") \/ Under("self"))) /\ UNCHANGED <<radio, store, linkState, air>>
  BY DEF Asking
<1>2. j \in Jobs /\ j # Sync /\ Quiet(j)
  BY <1>1, CallerIs, QuietSteps
<1>3. Acts(j) /\ SameSettings
  BY <1>1, <1>2, ActsQuiet DEF SameSettings
<1>4. job'[j] = New(kind, patch) /\ (\A k \in Jobs : k # j => job'[k] = job[k]) /\ PatchOK(kind, patch) /\ kind \in Kinds
  BY <1>1 DEF Beginning, Keeps
<1>5. job'[j].kind = kind /\ job'[j].pc = "queued"
  BY <1>4, NewIs
<1>6. job[j].kind = "plain"
  BY <1>1, <1>2, BaseIs, IdleIs DEF JobOK
<1>7. CASE kind # "settings"
  <2>1. \A k \in Jobs : SettingsWritten(k)' /\ SelfRead(k)'
    BY <1>1, <1>2, <1>3, <1>5, <1>7, SettingsRest
  <2>2. (\A k \in Jobs : job'[k].kind # "settings") => \A k \in Jobs : job[k].kind # "settings"
    BY <1>4, <1>6
  <2>3. job'[Sync].kind = job[Sync].kind
    BY <1>2, <1>4 DEF Jobs
  <2>4. SettingsSaved'
    BY <1>1, <2>2, <2>3 DEF SettingsOK, SettingsSaved
  <2> QED
    BY <2>1, <2>4 DEF SettingsOK
<1>8. CASE kind = "settings"
  <2>1. \A k \in Jobs : job[k].kind \notin {"self", "settings"}
    <3>1. \A k \in Jobs : job[k].pc # "idle" => job[k].kind \notin {"self", "settings"}
      BY <1>1, <1>8 DEF Under
    <3>2. \A k \in Jobs : job[k].pc = "idle" => job[k].kind \notin {"self", "settings"}
      BY BaseIs, IdleIs DEF JobOK
    <3> QED
      BY <3>1, <3>2
  <2>2. \A x \in SettingKeys : store[x] = radio[x]
    BY <2>1 DEF SettingsOK, SettingsSaved, Jobs
  <2>3. PICK r : r = New(kind, patch)
    OBVIOUS
  <2>4. /\ r.patch = patch /\ (\A x \in DOMAIN patch : \E i \in DOMAIN r.todo : x \in DOMAIN r.todo[i].writes)
        /\ \A x \in SettingKeys : r.old[x] = store[x]
    BY <1>4, <1>8, <2>3, BaseIs, NewOK
  <2>5. SettingsWritten(j)'
    <3>1. ~Sent(j)'
      BY <1>5 DEF Sent
    <3>2. ASSUME NEW x \in SettingKeys
          PROVE  radio'[x] = Final(r, x) \/ \E i \in DOMAIN r.todo : x \in DOMAIN r.todo[i].writes
      BY <1>1, <2>2, <2>4 DEF Final
    <3> QED
      BY <1>4, <2>3, <3>1, <3>2 DEF SettingsWritten
  <2>6. SelfRead(j)'
    BY <1>5, <1>8 DEF SelfRead
  <2>7. SettingsSaved'
    BY <1>2, <1>5, <1>8 DEF SettingsSaved
  <2> QED
    BY <1>2, <1>3, <2>5, <2>6, <2>7, SettingsOthers DEF SettingsOK
<1> QED
  BY <1>7, <1>8

LEMMA SettingsSending ==
  ASSUME Base, Settled, SettingsOK, NEW j \in Jobs, Sending(j)
  PROVE  SettingsOK'
<1>1. Acts(j)
  BY ActsSending
<1>2. /\ job'[j] \in JobType /\ Shape(job'[j]) /\ 1 \in DOMAIN job'[j].todo
      /\ job[j].pc # "idle" /\ job'[j].pc = "waits" /\ job[j].live /\ job'[j].live
      /\ job'[j].kind = job[j].kind /\ job'[j].patch = job[j].patch /\ job'[j].old = job[j].old /\ job'[j].got = job[j].got
      /\ Answers(j, job'[j].todo[1]) /\ UNCHANGED <<store, linkState>> /\ \A k \in Jobs : k # j => job'[k] = job[k]
  BY SendingJob
<1>3. \A k \in Jobs : job'[k].kind = job[k].kind
  BY <1>2
<1>4. \A x \in SettingKeys : radio'[x] # radio[x] => job[j].kind = "settings" /\ radio'[x] = Final(job[j], x) /\ x \in DOMAIN job'[j].todo[1].writes
  BY ItemsAre, RadioChanged
<1>5. \A x : Final(job'[j], x) = Final(job[j], x)
  BY <1>2 DEF Final
<1>6. CASE job[j].kind # "settings"
  <2>1. SameSettings
    BY <1>4, <1>6 DEF SameSettings
  <2>2. SettingsSaved'
    BY <1>2, <1>3, <2>1 DEF SettingsOK, SettingsSaved, SameSettings, Jobs
  <2>3. SelfRead(j)'
    <3> SUFFICES ASSUME job'[j].kind = "self" PROVE \A x \in DOMAIN job'[j].got : job'[j].got[x] = radio'[x]
      BY <1>2 DEF SelfRead
    <3>1. DOMAIN job'[j].got \subseteq SettingKeys
      BY <1>2 DEF Shape
    <3>2. SelfRead(j)
      BY DEF SettingsOK
    <3> QED
      BY <1>2, <2>1, <3>1, <3>2 DEF SelfRead, SameSettings
  <2>4. SettingsWritten(j)'
    BY <1>3, <1>6 DEF SettingsWritten
  <2> QED
    BY <1>1, <2>1, <2>2, <2>3, <2>4, SettingsOthers DEF SettingsOK
<1>7. CASE job[j].kind = "settings"
  <2>1. SettingsSaved'
    BY <1>3, <1>7 DEF SettingsSaved
  <2>2. \A k \in Jobs : k # j => job'[k].kind \notin {"settings", "self"}
    BY <1>3, <1>7 DEF Settled, Alone
  <2>3. \A k \in Jobs : k # j => SettingsWritten(k)' /\ SelfRead(k)'
    BY <2>2 DEF SettingsWritten, SelfRead
  <2>4. SelfRead(j)'
    BY <1>3, <1>7 DEF SelfRead
  <2>5. SettingsWritten(j)'
    <3> SUFFICES ASSUME ~Failing(j)', NEW x \in SettingKeys
                 PROVE  \/ radio'[x] = Final(job'[j], x)
                        \/ \E i \in DOMAIN job'[j].todo : i > 1 /\ x \in DOMAIN job'[j].todo[i].writes
      BY DEF SettingsWritten
    <3>1. ~Failing(j)
      <4>1. \A i \in DOMAIN air : i \in DOMAIN air' /\ air'[i] = air[i]
        BY <1>2 DEF Answers
      <4>2. job[j].pc # "refused"
        BY DEF Sending
      <4> QED
        BY <4>1, <4>2 DEF Failing
    <3>2. ASSUME x \in DOMAIN job'[j].todo[1].writes PROVE radio'[x] = Final(job'[j], x)
      <4>1. Len(air') \in DOMAIN air' /\ Len(air') \notin DOMAIN air
        BY <1>2 DEF Answers
      <4>2. air'[Len(air')].kind # "err"
        BY <1>2, <4>1 DEF Failing, Answers
      <4>3. radio'[x] = job'[j].todo[1].writes[x]
        BY <1>2, <3>2, <4>2, ItemsAre DEF Answers
      <4>4. x \notin SlotSet /\ x \notin Contacts
        BY ItemsAre
      <4> QED
        BY <1>2, <3>2, <4>3, <4>4, WritesOf
    <3>3. radio[x] = Final(job[j], x) \/ \E i \in DOMAIN job[j].todo : (Sent(j) => i > 1) /\ x \in DOMAIN job[j].todo[i].writes
      BY <1>7, <3>1 DEF SettingsOK, SettingsWritten
    <3>4. CASE radio[x] = Final(job[j], x)
      BY <1>4, <1>5, <3>4
    <3>5. ASSUME NEW i \in DOMAIN job[j].todo, Sent(j) => i > 1, x \in DOMAIN job[j].todo[i].writes
          PROVE  \E m \in DOMAIN job'[j].todo : x \in DOMAIN job'[j].todo[m].writes
      <4>1. CASE job'[j].todo = job[j].todo
        BY <3>5, <4>1
      <4>2. CASE job[j].pc = "answered" /\ Several(job[j].todo) /\ job'[j].todo = Tail(job[j].todo)
        <5>1. i > 1
          BY <1>2, <3>1, <3>5, <4>2 DEF Sent
        <5>2. job[j].todo \in Seq(Command)
          BY <1>2, BaseJob
        <5>3. PICK t : t = job[j].todo
          OBVIOUS
        <5>4. PICK u : u = job'[j].todo
          OBVIOUS
        <5>5. t \in Seq(Command) /\ Several(t) /\ Rest(u, t) /\ i \in DOMAIN t
          BY <3>5, <4>2, <5>2, <5>3, <5>4 DEF Rest
        <5>6. u # <<>> /\ (\A m \in DOMAIN u : m + 1 \in DOMAIN t /\ u[m] = t[m + 1]) /\ DOMAIN t = 1..Len(t) /\ Len(t) \in Nat
              /\ (\A m \in DOMAIN t : m > 1 => m - 1 \in DOMAIN u /\ u[m - 1] = t[m]) /\ DOMAIN u = 1..(Len(t) - 1)
          BY <5>5, TailCommands
        <5>7. i - 1 \in DOMAIN u /\ u[i - 1] = t[i]
          BY <5>1, <5>5, <5>6
        <5> QED
          BY <3>5, <5>3, <5>4, <5>7
      <4> QED
        BY <4>1, <4>2 DEF Sending
    <3>6. \A m \in DOMAIN job'[j].todo : m = 1 \/ m > 1
      <4>1. job'[j].todo \in Seq(Command)
        BY <1>2 DEF JobType
      <4> QED
        BY <4>1
    <3> QED
      BY <3>2, <3>3, <3>4, <3>5, <3>6
  <2> QED
    BY <2>1, <2>3, <2>4, <2>5 DEF SettingsOK
<1> QED
  BY <1>6, <1>7

\* What is heard by the first command of a job.
LEMMA HeardBy ==
  ASSUME Base, AirOK, NEW f \in FrameType, Hearing(f), clean', NEW j, j = f.for
  PROVE  /\ job[j].todo[1].name = "write" => f.kind \in {"ok", "err"} /\ f.data = Nothing /\ job'[j].got = job[j].got
         /\ job[j].todo[1].reads = Contacts => f.kind \in {"contact", "end"} /\ DOMAIN f.data \subseteq Contacts
         /\ job[j].todo[1].reads = SettingKeys => f.kind = "info" /\ DOMAIN f.data = SettingKeys
         /\ \A s \in SlotSet : job[j].todo[1].reads = {s} => (f.kind = "err" /\ f.data = Nothing) \/ (f.kind = "info" /\ DOMAIN f.data = {s})
<1>1. /\ j \in Jobs /\ job[j].pc = "waits" /\ FrameOK(f)
      /\ Ends(job[j].todo[1], f) \/ (f.kind = "contact" /\ job[j].todo[1].reads = Contacts)
      /\ \A x : /\ x \in DOMAIN job'[j].got <=> x \in DOMAIN f.data \/ x \in DOMAIN job[j].got
                /\ x \in DOMAIN job[j].got /\ x \notin DOMAIN f.data => job'[j].got[x] = job[j].got[x]
  BY HearingJob
<1>2. CommandOK(job[j].todo[1])
  BY <1>1, BaseJob
<1>3. /\ job[j].todo[1].name = "write" => f.kind \in {"ok", "err"} /\ f.data = Nothing
      /\ job[j].todo[1].reads = Contacts => f.kind \in {"contact", "end", "info"} /\ DOMAIN f.data \subseteq Contacts
      /\ job[j].todo[1].reads = SettingKeys => f.kind = "info" /\ DOMAIN f.data = SettingKeys
      /\ \A s \in SlotSet : job[j].todo[1].reads = {s} => (f.kind = "err" /\ f.data = Nothing) \/ (f.kind = "info" /\ DOMAIN f.data = {s})
  BY <1>1, <1>2, HeardIs
<1>4. ASSUME f.kind = "info", job[j].todo[1].reads = Contacts PROVE FALSE
  <2>1. DOMAIN f.data = Contacts
    BY <1>1, <1>4 DEF Ends
  <2> QED
    BY <1>1, <1>4, <2>1, Asked DEF FrameOK
<1>5. ASSUME f.data = Nothing PROVE job'[j].got = job[j].got
  <2>1. PICK g : g = job[j].got
    OBVIOUS
  <2>2. PICK h : h = job'[j].got
    OBVIOUS
  <2>3. g \in Partial /\ h \in Partial
    <3>1. job[j] \in JobType /\ job'[j] \in JobType
      BY <1>1, BaseIs DEF Hearing
    <3> QED
      BY <2>1, <2>2, <3>1 DEF JobType
  <2>4. DOMAIN f.data = {}
    BY <1>5, NothingIs
  <2>5. DOMAIN h = DOMAIN g /\ \A x \in DOMAIN g : h[x] = g[x]
    BY <1>1, <2>1, <2>2, <2>4
  <2>6. h = [x \in DOMAIN h |-> h[x]] /\ g = [x \in DOMAIN g |-> g[x]]
    BY <2>3, PartialIs
  <2>7. h = g
    BY <2>5, <2>6
  <2> QED
    BY <2>1, <2>2, <2>7
<1> QED
  BY <1>3, <1>4, <1>5

LEMMA SettingsHearing ==
  ASSUME Base, AirOK, InfoOK, SettingsOK, NEW f \in FrameType, Hearing(f), clean'
  PROVE  SettingsOK'
<1>1. PICK j \in Jobs : j = f.for /\ Acts(j)
  BY ActsHearing
<1>2. /\ job[j].pc = "waits" /\ FrameOK(f) /\ f = air[1] /\ 1 \in DOMAIN air
      /\ Ends(job[j].todo[1], f) \/ (f.kind = "contact" /\ job[j].todo[1].reads = Contacts)
      /\ job'[j].kind = job[j].kind /\ job'[j].patch = job[j].patch /\ job'[j].old = job[j].old /\ job'[j].todo = job[j].todo
      /\ job'[j].pc = IF ~Ends(job[j].todo[1], f) THEN "waits" ELSE IF f.kind = "err" THEN "refused" ELSE "answered"
      /\ \A x : /\ x \in DOMAIN job'[j].got <=> x \in DOMAIN f.data \/ x \in DOMAIN job[j].got
                /\ x \in DOMAIN f.data => job'[j].got[x] = f.data[x]
                /\ x \in DOMAIN job[j].got /\ x \notin DOMAIN f.data => job'[j].got[x] = job[j].got[x]
      /\ f.kind # "err" /\ ~Failing(j)' => Sent(j)
  BY <1>1, HearingJob
<1>3. UNCHANGED <<radio, store, linkState>> /\ \A k \in Jobs : job'[k].kind = job[k].kind
  BY DEF Hearing
<1>4. SameSettings
  BY <1>3 DEF SameSettings
<1>5. job[j] \in JobType /\ Shape(job[j]) /\ job[j].todo # <<>>
  BY <1>2, BaseJob
<1>6. /\ job[j].kind = "settings" => job[j].todo[1].name = "write"
      /\ job[j].kind = "self" => job[j].todo[1].reads = SettingKeys
  BY <1>5, FirstCommand
<1>7. SettingsWritten(j)'
  <2> SUFFICES ASSUME job'[j].kind = "settings", ~Failing(j)', NEW x \in SettingKeys
               PROVE  \/ radio'[x] = Final(job'[j], x)
                      \/ \E i \in DOMAIN job'[j].todo : (Sent(j)' => i > 1) /\ x \in DOMAIN job'[j].todo[i].writes
    BY DEF SettingsWritten
  <2>1. job[j].kind = "settings" /\ f.kind \in {"ok", "err"}
    BY <1>1, <1>2, <1>6, HeardBy
  <2>2. f.kind # "err"
    <3>1. f.kind = "err" => job'[j].pc = "refused"
      BY <1>2, <2>1
    <3> QED
      BY <3>1 DEF Failing
  <2>3. Sent(j)
    BY <1>2, <2>2
  <2>4. ~Failing(j)
    BY <2>3 DEF Sent
  <2>5. radio[x] = Final(job[j], x) \/ \E i \in DOMAIN job[j].todo : i > 1 /\ x \in DOMAIN job[j].todo[i].writes
    BY <2>1, <2>3, <2>4 DEF SettingsOK, SettingsWritten
  <2>6. Final(job'[j], x) = Final(job[j], x)
    BY <1>2 DEF Final
  <2> QED
    BY <1>2, <1>3, <2>5, <2>6
<1>8. SelfRead(j)'
  <2> SUFFICES ASSUME job'[j].kind = "self"
               PROVE  /\ \A x \in DOMAIN job'[j].got : job'[j].got[x] = radio'[x]
                      /\ job'[j].pc = "answered" => SettingKeys \subseteq DOMAIN job'[j].got
    BY DEF SelfRead
  <2>1. job[j].kind = "self" /\ f.kind = "info" /\ DOMAIN f.data = SettingKeys
    BY <1>1, <1>2, <1>6, HeardBy
  <2>2. \A x \in DOMAIN f.data : f.data[x] = radio[x]
    BY <1>2, <2>1 DEF InfoOK
  <2>3. \A x \in DOMAIN job[j].got : job[j].got[x] = radio[x]
    BY <2>1 DEF SettingsOK, SelfRead
  <2> QED
    BY <1>2, <1>3, <2>1, <2>2, <2>3
<1>9. SettingsSaved'
  BY <1>3 DEF SettingsOK, SettingsSaved, Jobs
<1> QED
  BY <1>1, <1>4, <1>7, <1>8, <1>9, SettingsOthers DEF SettingsOK

\* A write that lingers, or a call that fails.
LEMMA SettingsLost ==
  ASSUME Base, SettingsOK, NEW j \in Jobs, Lingering(j) \/ Failed(j), Linked, Linked'
  PROVE  SettingsOK'
<1>1. Quiet(j) /\ UNCHANGED <<radio, store, linkState>> /\ \A k \in Jobs : k # j => job'[k] = job[k]
  BY QuietSteps DEF Lingering, Failed, Ending, Keeps
<1>2. Acts(j) /\ SameSettings
  BY <1>1, ActsQuiet DEF SameSettings
<1>3. job[j].kind # "settings"
  <2>1. CASE Lingering(j)
    BY <2>1 DEF Lingering
  <2>2. CASE Failed(j)
    <3>1. ~job[j].live => job[j].kind # "settings"
      BY BaseIs, IdleIs DEF JobOK
    <3> QED
      BY <2>2, <3>1 DEF Failed, Linked
  <2> QED
    BY <2>1, <2>2
<1>4. job'[j].kind \notin {"settings", "self"}
  BY IdleIs DEF Lingering, Failed, Ending
<1>5. \A k \in Jobs : SettingsWritten(k)' /\ SelfRead(k)'
  BY <1>2, <1>4, SettingsRest
<1>6. (\A k \in Jobs : job'[k].kind # "settings") => \A k \in Jobs : job[k].kind # "settings"
  BY <1>1, <1>3
<1>7. job'[Sync].kind # "self" => job[Sync].kind # "self"
  <2>1. j # Sync
    <3>1. ASSUME j = Sync PROVE job[j].kind # "set"
      BY <3>1, BaseIs, IdleIs DEF JobOK
    <3> QED
      BY <3>1 DEF Lingering, Failed
  <2> QED
    BY <1>1, <2>1 DEF Jobs
<1>8. SettingsSaved'
  BY <1>1, <1>6, <1>7 DEF SettingsOK, SettingsSaved
<1> QED
  BY <1>5, <1>8 DEF SettingsOK

\* The last answer is there.
LEMMA LastIs ==
  ASSUME Base, AirOK, NEW j \in Jobs, job[j].pc = "answered", Len(job[j].todo) = 1
  PROVE  /\ ~Failing(j) /\ job[j] \in JobType /\ Shape(job[j]) /\ DOMAIN job[j].todo = {1}
         /\ \A i \in DOMAIN air : air[i].for # j
<1>1. \A i \in DOMAIN air : air[i].for # j
  BY NotWaiting
<1>2. ~Failing(j)
  BY <1>1 DEF Failing
<1>3. job[j] \in JobType /\ Shape(job[j]) /\ DOMAIN job[j].todo = 1..Len(job[j].todo)
  BY BaseJob
<1>4. 1..1 = {1}
  OBVIOUS
<1> QED
  BY <1>1, <1>2, <1>3, <1>4

LEMMA SettingsFinished ==
  ASSUME Base, Settled, SettingsOK, NEW j \in Jobs, Finished(j), Linked, Linked'
  PROVE  SettingsOK'
<1>1. Quiet(j) /\ UNCHANGED <<radio, air>> /\ (\A k \in Jobs : k # j => job'[k] = job[k]) /\ job'[j] = Idle
      /\ job[j].pc = "answered" /\ Len(job[j].todo) = 1 /\ Stored(store', job[j])
      /\ linkState' = (IF j = Sync THEN "connected" ELSE linkState) /\ (j = Sync => job[j].kind = "channels")
  BY QuietSteps DEF Finished, Ending, Keeps
<1>2. Acts(j) /\ SameSettings
  BY <1>1, ActsQuiet DEF SameSettings
<1>3. ~Failing(j) /\ job[j] \in JobType /\ Shape(job[j]) /\ DOMAIN job[j].todo = {1} /\ job[j].live
  BY <1>1, LastIs DEF Settled, OneDue
<1>4. \A k \in Jobs : SettingsWritten(k)' /\ SelfRead(k)'
  BY <1>1, <1>2, IdleIs, SettingsRest
<1>5. CASE job[j].kind = "settings"
  <2>1. Sent(j)
    BY <1>1, <1>3 DEF Sent
  <2>2. \A x \in SettingKeys : radio[x] = Final(job[j], x)
    BY <1>3, <1>5, <2>1 DEF SettingsOK, SettingsWritten
  <2>3. \A x \in SettingKeys : store'[x] = radio'[x]
    BY <1>1, <1>5, <2>2, ItemsAre DEF Stored
  <2> QED
    BY <1>4, <2>3 DEF SettingsOK, SettingsSaved
<1>6. CASE job[j].kind # "settings"
  <2>1. job[j].kind # "self"
    <3>1. j # Sync => job[j].kind # "self"
      BY <1>1, BaseIs DEF JobOK
    <3> QED
      BY <1>1, <3>1
  <2>2. (\A k \in Jobs : job'[k].kind # "settings") => \A k \in Jobs : job[k].kind # "settings"
    BY <1>1, <1>6
  <2>3. linkState' = "connected" \/ job'[Sync].kind # "self" => linkState = "connected" \/ job[Sync].kind # "self"
    BY <1>1, <2>1 DEF Jobs
  <2>4. \A x \in SettingKeys : store'[x] = store[x]
    <3> SUFFICES ASSUME NEW x \in SettingKeys PROVE store'[x] = store[x]
      OBVIOUS
    <3>1. x \in Items /\ x \notin SlotSet /\ x \notin Contacts
      BY ItemsAre
    <3>2. job[j].kind \in {"set", "remove", "contacts", "import", "channels", "plain"}
      BY <1>3, <1>6, <2>1 DEF JobType, Kinds, Channel
    <3>3. job[j].kind \in {"set", "remove"} => x \notin DOMAIN job[j].patch
      BY <1>3, <3>1 DEF Shape
    <3>4. job[j].kind = "channels" => x \notin DOMAIN job[j].got
      BY <1>3, <3>1 DEF Shape
    <3> QED
      BY <1>1, <3>1, <3>2, <3>3, <3>4 DEF Stored
  <2>5. SettingsSaved'
    BY <1>1, <2>2, <2>3, <2>4 DEF SettingsOK, SettingsSaved
  <2> QED
    BY <1>4, <2>5 DEF SettingsOK
<1> QED
  BY <1>5, <1>6

LEMMA SettingsTurning ==
  ASSUME Base, Settled, SettingsOK, NEW kind, Turning(kind), Linked, Linked'
  PROVE  SettingsOK'
<1>1. Quiet(Sync) /\ UNCHANGED <<radio, air>> /\ (\A k \in Jobs : k # Sync => job'[k] = job[k]) /\ job'[Sync].kind = kind
      /\ job[Sync].pc = "answered" /\ Len(job[Sync].todo) = 1 /\ Stored(store', job[Sync]) /\ kind \in {"contacts", "channels"}
      /\ (job[Sync].kind = "self" \/ job[Sync].kind = "contacts") /\ Sync \in Jobs
  BY QuietSteps, NewIs DEF Turning, Beginning, Keeps, Jobs
<1>2. Acts(Sync) /\ SameSettings
  BY <1>1, ActsQuiet DEF SameSettings
<1>3. \A k \in Jobs : SettingsWritten(k)' /\ SelfRead(k)'
  BY <1>1, <1>2, SettingsRest
<1>4. CASE job[Sync].kind = "self"
  <2>1. (\A x \in DOMAIN job[Sync].got : job[Sync].got[x] = radio[x]) /\ SettingKeys \subseteq DOMAIN job[Sync].got
    BY <1>1, <1>4 DEF SettingsOK, SelfRead
  <2>2. \A x \in SettingKeys : store'[x] = radio'[x]
    BY <1>1, <1>4, <2>1, ItemsAre DEF Stored
  <2> QED
    BY <1>3, <2>2 DEF SettingsOK, SettingsSaved
<1>5. CASE job[Sync].kind = "contacts"
  <2>1. \A x \in SettingKeys : store'[x] = store[x]
    BY <1>1, <1>5, ItemsAre DEF Stored
  <2>2. (\A k \in Jobs : job'[k].kind # "settings") => \A k \in Jobs : job[k].kind # "settings"
    BY <1>1, <1>5
  <2>3. SettingsSaved'
    BY <1>1, <1>5, <2>1, <2>2 DEF SettingsOK, SettingsSaved
  <2> QED
    BY <1>3, <2>3 DEF SettingsOK
<1> QED
  BY <1>1, <1>4, <1>5

LEMMA SettingsOpening ==
  ASSUME Base, Opening
  PROVE  SettingsOK'
<1>1. /\ linkState' = "syncing" /\ job'[Sync].kind = "self" /\ job'[Sync].pc = "queued" /\ job'[Sync].got = Nothing
      /\ \A k \in Jobs : k # Sync => job'[k].kind \in {"set", "channels", "plain"}
  BY OpenedJobs
<1>2. \A k \in Jobs : job'[k].kind # "settings" /\ (job'[k].kind = "self" => k = Sync)
  BY <1>1
<1>3. DOMAIN job'[Sync].got = {}
  BY <1>1, NothingIs
<1> QED
  BY <1>1, <1>2, <1>3 DEF SettingsOK, SettingsSaved, SettingsWritten, SelfRead

LEMMA SettingsSteps ==
  ASSUME Base, Linked => Settled /\ InfoOK /\ SettingsOK, Steps, Linked'
  PROVE  SettingsOK'
<1>1. CASE Opening
  BY <1>1, SettingsOpening
<1>2. CASE ~Opening
  <2>1. Linked /\ Settled /\ AirOK /\ InfoOK /\ SettingsOK /\ clean' /\ linkState' # "down"
    BY <1>2, LinkedBefore DEF Linked, Settled
  <2>2. ASSUME NEW j, NEW kind, NEW patch, Asking(j, kind, patch) PROVE SettingsOK'
    BY <2>1, <2>2, SettingsAsking
  <2>3. ASSUME NEW j \in Jobs, Sending(j) PROVE SettingsOK'
    BY <2>1, <2>3, SettingsSending
  <2>4. ASSUME NEW j \in Jobs, Lingering(j) \/ Failed(j) PROVE SettingsOK'
    BY <2>1, <2>4, SettingsLost
  <2>5. ASSUME NEW j \in Jobs, Finished(j) PROVE SettingsOK'
    BY <2>1, <2>5, SettingsFinished
  <2>6. ASSUME NEW kind, Turning(kind) PROVE SettingsOK'
    BY <2>1, <2>6, SettingsTurning
  <2>7. ASSUME NEW f \in FrameType, Hearing(f) PROVE SettingsOK'
    BY <2>1, <2>7, SettingsHearing
  <2> QED
    BY <1>2, <2>1, <2>2, <2>3, <2>4, <2>5, <2>6, <2>7 DEF Steps
<1> QED
  BY <1>1, <1>2

---------------------------------------------------------------------------
(* Channels.                                                               *)

SameSlots == \A s \in SlotSet : radio'[s] = radio[s]

\* The first of the queue is the only channel command that is under way.
LEMMA FirstOfQueue ==
  ASSUME Base, NEW j \in Jobs, NEW k \in Jobs, Queued(job[j].kind), Queued(job[k].kind), queue[1] = j,
         job[k].pc \in {"waits", "answered", "refused"}
  PROVE  k = j
BY DEF Base, QueueOK

LEMMA ChannelJob ==
  ASSUME Base, NEW j \in Jobs
  PROVE  /\ job[j].kind = "set" => job[j].pc # "idle" /\ DOMAIN job[j].patch \subseteq SlotSet /\ job[j].todo = <<Write(job[j].patch)>>
         /\ job[j].kind = "channels" => /\ job[j].pc # "idle" /\ DOMAIN job[j].got \subseteq SlotSet
                                        /\ (job[j].pc = "queued" => job[j].got = Nothing)
<1>1. job[j].kind \in {"set", "channels"} => job[j].pc # "idle"
  BY BaseIs, IdleIs DEF JobOK
<1> QED
  BY <1>1, BaseJob DEF Shape

LEMMA SlotsOthers ==
  ASSUME Base, ChannelsOK, NEW j \in Jobs, Acts(j), SameSlots, NEW k \in Jobs, k # j
  PROVE  SlotsSet(k)' /\ SlotsRead(k)'
<1>1. job'[k] = job[k] /\ (Sent(k)' <=> Sent(k))
  BY DEF Acts
<1>2. job'[k].todo = job[k].todo /\ job'[k].kind = job[k].kind /\ job'[k].got = job[k].got /\ job'[k].pc = job[k].pc
      /\ job'[k].patch = job[k].patch /\ job'[k].live = job[k].live
  BY <1>1
<1>3. SlotsSet(k) /\ SlotsRead(k)
  BY DEF ChannelsOK
<1>4. SlotsSet(k)'
  <2> SUFFICES ASSUME job'[k].kind = "set", Sent(k)', NEW s \in DOMAIN job'[k].patch PROVE job'[k].patch[s] = radio'[s]
    BY DEF SlotsSet, Sets
  <2>1. Sets(k) /\ s \in DOMAIN job[k].patch
    BY <1>1, <1>2 DEF Sets
  <2>2. job[k].patch[s] = radio[s]
    BY <1>3, <2>1 DEF SlotsSet
  <2>3. s \in SlotSet
    BY <2>1, ChannelJob DEF Sets
  <2> QED
    BY <1>2, <2>2, <2>3 DEF SameSlots
<1>5. SlotsRead(k)'
  <2> SUFFICES ASSUME job'[k].kind = "channels", job'[k].live, job'[k].pc # "refused"
               PROVE  /\ \A s \in DOMAIN job'[k].got : job'[k].got[s] = radio'[s]
                      /\ \A s \in SlotSet : \/ s \in DOMAIN job'[k].got
                                            \/ \E i \in DOMAIN job'[k].todo : (job'[k].pc = "answered" => i > 1) /\ job'[k].todo[i] = Read({s})
    BY DEF SlotsRead
  <2>1. /\ \A s \in DOMAIN job[k].got : job[k].got[s] = radio[s]
        /\ \A s \in SlotSet : \/ s \in DOMAIN job[k].got
                              \/ \E i \in DOMAIN job[k].todo : (job[k].pc = "answered" => i > 1) /\ job[k].todo[i] = Read({s})
    BY <1>2, <1>3 DEF SlotsRead
  <2>2. DOMAIN job[k].got \subseteq SlotSet
    BY <1>2, ChannelJob
  <2> QED
    BY <1>2, <2>1, <2>2 DEF SameSlots
<1> QED
  BY <1>4, <1>5

\* What is saved stays so while the radio and the database do and no write of a channel ends.
LEMMA SlotsKept ==
  ASSUME SlotsSaved, NEW j \in Jobs, Acts(j), SameSlots, \A s \in SlotSet : store'[s] = store[s],
         linkState' = "connected" => linkState = "connected",
         Sets(j) => Sets(j)' /\ job'[j].patch = job[j].patch
  PROVE  SlotsSaved'
<1> SUFFICES ASSUME linkState' = "connected", NEW s \in SlotSet
             PROVE  store'[s] = radio'[s] \/ \E k \in Jobs : Sets(k)' /\ s \in DOMAIN job'[k].patch
  BY DEF SlotsSaved
<1>1. store[s] = radio[s] \/ \E k \in Jobs : Sets(k) /\ s \in DOMAIN job[k].patch
  BY DEF SlotsSaved
<1>2. ASSUME NEW k \in Jobs, Sets(k), s \in DOMAIN job[k].patch PROVE Sets(k)' /\ s \in DOMAIN job'[k].patch
  <2>1. CASE k = j
    BY <1>2, <2>1
  <2>2. CASE k # j
    BY <1>2, <2>2 DEF Acts, Sets
  <2> QED
    BY <2>1, <2>2
<1> QED
  BY <1>1, <1>2 DEF SameSlots

\* A job that has just begun has read nothing, and asks for every slot.
LEMMA SlotsBegun ==
  ASSUME Base, NEW j \in Jobs, NEW kind, NEW patch, Beginning(j, kind, patch)
  PROVE  SlotsSet(j)' /\ SlotsRead(j)'
<1>1. kind \in Kinds /\ PatchOK(kind, patch) /\ store \in [Items -> Vals]
  BY BaseIs DEF Beginning
<1>2. PICK r : r = New(kind, patch)
  OBVIOUS
<1>3. r.kind = kind /\ r.pc = "queued" /\ r.got = Nothing
  BY <1>2, NewIs
<1>4. kind = "channels" => \A s \in SlotSet : \E i \in DOMAIN r.todo : r.todo[i] = Read({s})
  BY <1>1, <1>2, NewOK
<1>5. DOMAIN r.got = {} /\ job'[j] = r
  BY <1>2, <1>3, NothingIs DEF Beginning
<1>6. SlotsSet(j)'
  BY <1>3, <1>5 DEF SlotsSet, Sets, Sent
<1>7. SlotsRead(j)'
  BY <1>3, <1>4, <1>5 DEF SlotsRead
<1> QED
  BY <1>6, <1>7

LEMMA ChannelsAsking ==
  ASSUME Base, ChannelsOK, NEW j, NEW kind, NEW patch, Asking(j, kind, patch)
  PROVE  ChannelsOK'
<1>1. /\ j \in Jobs /\ Quiet(j) /\ Beginning(j, kind, patch) /\ job[j].pc = "idle" /\ UNCHANGED <<radio, store, linkState, air>>
  BY QuietSteps DEF Asking
<1>2. Acts(j) /\ SameSlots
  BY <1>1, ActsQuiet DEF SameSlots
<1>3. ~Sets(j)
  BY <1>1 DEF Sets, Sent
<1>4. SlotsSaved'
  BY <1>1, <1>2, <1>3, SlotsKept DEF ChannelsOK
<1>5. SlotsSet(j)' /\ SlotsRead(j)'
  BY <1>1, SlotsBegun
<1> QED
  BY <1>1, <1>2, <1>4, <1>5, SlotsOthers DEF ChannelsOK

LEMMA SettingChannel ==
  ASSUME Base, Settled, ChannelsOK, NEW j \in Jobs, Sending(j), job[j].kind = "set"
  PROVE  ChannelsOK'
<1>1. Acts(j) /\ \A i \in DOMAIN air : air[i].for # j
  BY ActsSending, SendingAir DEF Settled
<1>2. /\ job'[j].pc = "waits" /\ job[j].live /\ job'[j].live
      /\ job'[j].kind = "set" /\ job'[j].patch = job[j].patch /\ job'[j] \in JobType /\ Shape(job'[j])
      /\ Answers(j, job'[j].todo[1]) /\ queue[1] = j /\ UNCHANGED <<store, linkState>> /\ \A k \in Jobs : k # j => job'[k] = job[k]
  BY SendingJob, QueuedIs
<1>3. DOMAIN job[j].patch \subseteq SlotSet /\ job'[j].todo = <<Write(job'[j].patch)>>
  BY <1>2 DEF Shape
<1>4. PICK c : c = job'[j].todo[1]
  OBVIOUS
<1>5. c.writes = job[j].patch
  <2>1. c = Write(job'[j].patch)
    BY <1>3, <1>4
  <2> QED
    BY <1>2, <2>1, CommandIs
<1>6. PICK n \in DOMAIN air' : /\ n \notin DOMAIN air /\ (air'[n].kind = "err" => radio' = radio)
                               /\ air'[n].kind # "err" => \A x \in Items : radio'[x] = IF x \in DOMAIN c.writes THEN c.writes[x] ELSE radio[x]
                               /\ \A i \in DOMAIN air' : i \notin DOMAIN air /\ i # n => air'[i].kind = "contact"
  <2>1. Len(air') \in DOMAIN air' /\ Len(air') \notin DOMAIN air
    BY <1>2 DEF Answers
  <2> QED
    BY <1>2, <1>4, <2>1 DEF Answers
<1>7. air'[n].kind = "err" => Failing(j)'
  BY <1>2, <1>6 DEF Failing, Answers
<1>8. air'[n].kind # "err" => Sets(j)'
  <2>1. ASSUME NEW i \in DOMAIN air', air'[i].for = j, air'[i].kind = "err", air'[n].kind # "err" PROVE FALSE
    <3>1. i \notin DOMAIN air
      BY <1>1, <1>2, <2>1 DEF Answers
    <3> QED
      BY <1>6, <2>1, <3>1
  <2> QED
    BY <1>2, <2>1 DEF Sets, Sent, Failing
<1>9. \A k \in Jobs : k # j => ~Sets(k) /\ (job[k].kind = "channels" => job[k].pc = "queued")
  <2> SUFFICES ASSUME NEW k \in Jobs, k # j PROVE ~Sets(k) /\ (job[k].kind = "channels" => job[k].pc = "queued")
    OBVIOUS
  <2>1. Queued(job[k].kind) => job[k].pc \notin {"waits", "answered", "refused"}
    BY <1>2, QueuedIs, FirstOfQueue
  <2>2. job[k].pc \in {"idle", "queued", "waits", "answered", "refused"}
    BY BaseIs DEF JobType
  <2> QED
    BY <2>1, <2>2, QueuedIs, ChannelJob DEF Sets, Sent
<1>10. ~Sets(j)
  BY <1>2, SeveralIs, BaseJob, ChannelJob DEF Sending, Sets, Sent
<1>11. SlotsSet(j)' /\ SlotsRead(j)'
  <2>1. SlotsSet(j)'
    <3> SUFFICES ASSUME Sets(j)', NEW s \in DOMAIN job[j].patch PROVE job[j].patch[s] = radio'[s]
      BY <1>2 DEF SlotsSet
    <3>1. air'[n].kind # "err"
      BY <1>7 DEF Sets, Sent
    <3> QED
      BY <1>3, <1>5, <1>6, <3>1, ItemsAre
  <2> QED
    BY <1>2, <2>1 DEF SlotsRead
<1>12. \A k \in Jobs : k # j => SlotsSet(k)' /\ SlotsRead(k)'
  <2> SUFFICES ASSUME NEW k \in Jobs, k # j PROVE SlotsSet(k)' /\ SlotsRead(k)'
    OBVIOUS
  <2>1. ~Sets(k)' /\ job'[k] = job[k]
    BY <1>1, <1>9 DEF Acts, Sets
  <2>2. job[k].kind = "channels" => job[k].pc = "queued" /\ DOMAIN job[k].got = {}
    BY <1>9, ChannelJob, NothingIs
  <2>3. SlotsRead(k)
    BY DEF ChannelsOK
  <2>4. SlotsSet(k)'
    BY <2>1 DEF SlotsSet
  <2>5. SlotsRead(k)'
    BY <2>1, <2>2, <2>3 DEF SlotsRead
  <2> QED
    BY <2>4, <2>5
<1>13. SlotsSaved'
  <2> SUFFICES ASSUME linkState = "connected", NEW s \in SlotSet
               PROVE  store[s] = radio'[s] \/ \E k \in Jobs : Sets(k)' /\ s \in DOMAIN job'[k].patch
    BY <1>2 DEF SlotsSaved
  <2>1. store[s] = radio[s]
    BY <1>9, <1>10 DEF ChannelsOK, SlotsSaved
  <2>2. CASE radio'[s] = radio[s]
    BY <2>1, <2>2
  <2>3. CASE radio'[s] # radio[s]
    <3>1. s \in DOMAIN job[j].patch /\ air'[n].kind # "err"
      BY <1>5, <1>6, <2>3, ItemsAre
    <3> QED
      BY <1>2, <1>8, <3>1
  <2> QED
    BY <2>2, <2>3
<1> QED
  BY <1>11, <1>12, <1>13 DEF ChannelsOK

LEMMA ReadingChannel ==
  ASSUME Base, ChannelsOK, NEW j \in Jobs, Sending(j), job[j].kind # "set"
  PROVE  ChannelsOK'
<1>1. Acts(j)
  BY ActsSending
<1>2. /\ job'[j].pc = "waits" /\ job[j].live /\ job'[j].live /\ job[j].pc # "idle" /\ job'[j].kind = job[j].kind /\ job'[j].got = job[j].got
      /\ UNCHANGED <<store, linkState>>
  BY SendingJob
<1>3. SameSlots
  <2>1. \A s \in SlotSet : s \in Items /\ s \notin Contacts /\ s \notin SettingKeys
    BY ItemsAre
  <2> QED
    BY <2>1, RadioChanged DEF SameSlots
<1>4. SlotsSaved'
  BY <1>1, <1>2, <1>3, SlotsKept DEF ChannelsOK, Sets
<1>5. SlotsSet(j)'
  BY <1>2 DEF SlotsSet, Sets
<1>6. SlotsRead(j)'
  <2> SUFFICES ASSUME job[j].kind = "channels"
               PROVE  /\ \A s \in DOMAIN job[j].got : job[j].got[s] = radio'[s]
                      /\ \A s \in SlotSet : s \in DOMAIN job[j].got \/ \E i \in DOMAIN job'[j].todo : job'[j].todo[i] = Read({s})
    BY <1>2 DEF SlotsRead
  <2>1. job[j].pc # "refused"
    BY DEF Sending
  <2>2. SlotsRead(j)
    BY DEF ChannelsOK
  <2>3. /\ \A s \in DOMAIN job[j].got : job[j].got[s] = radio[s]
        /\ \A s \in SlotSet : \/ s \in DOMAIN job[j].got
                              \/ \E i \in DOMAIN job[j].todo : (job[j].pc = "answered" => i > 1) /\ job[j].todo[i] = Read({s})
    BY <1>2, <2>1, <2>2 DEF SlotsRead
  <2>4. DOMAIN job[j].got \subseteq SlotSet
    BY ChannelJob
  <2>5. ASSUME NEW i \in DOMAIN job[j].todo, job[j].pc = "answered" => i > 1
        PROVE  \E m \in DOMAIN job'[j].todo : job'[j].todo[m] = job[j].todo[i]
    <3>1. CASE job'[j].todo = job[j].todo
      BY <3>1
    <3>2. CASE job[j].pc = "answered" /\ Several(job[j].todo) /\ job'[j].todo = Tail(job[j].todo)
      <4>1. job[j].todo \in Seq(Command)
        BY <1>2, BaseJob
      <4>2. PICK t : t = job[j].todo
        OBVIOUS
      <4>3. PICK u : u = job'[j].todo
        OBVIOUS
      <4>4. t \in Seq(Command) /\ Several(t) /\ Rest(u, t) /\ i \in DOMAIN t /\ i > 1
        BY <2>5, <3>2, <4>1, <4>2, <4>3 DEF Rest
      <4>5. u # <<>> /\ (\A m \in DOMAIN u : m + 1 \in DOMAIN t /\ u[m] = t[m + 1]) /\ DOMAIN t = 1..Len(t) /\ Len(t) \in Nat
            /\ (\A m \in DOMAIN t : m > 1 => m - 1 \in DOMAIN u /\ u[m - 1] = t[m]) /\ DOMAIN u = 1..(Len(t) - 1)
        BY <4>4, TailCommands
      <4>6. i - 1 \in DOMAIN u /\ u[i - 1] = t[i]
        BY <4>4, <4>5
      <4> QED
        BY <4>2, <4>3, <4>6
    <3> QED
      BY <3>1, <3>2 DEF Sending
  <2>6. ASSUME NEW s \in SlotSet, s \notin DOMAIN job[j].got PROVE \E i \in DOMAIN job'[j].todo : job'[j].todo[i] = Read({s})
    <3>1. PICK i \in DOMAIN job[j].todo : (job[j].pc = "answered" => i > 1) /\ job[j].todo[i] = Read({s})
      BY <2>3, <2>6
    <3>2. \E m \in DOMAIN job'[j].todo : job'[j].todo[m] = job[j].todo[i]
      BY <2>5, <3>1
    <3> QED
      BY <3>1, <3>2
  <2> QED
    BY <1>3, <2>3, <2>4, <2>6 DEF SameSlots
<1> QED
  BY <1>1, <1>3, <1>4, <1>5, <1>6, SlotsOthers DEF ChannelsOK

LEMMA ChannelsHearing ==
  ASSUME Base, AirOK, InfoOK, ChannelsOK, NEW f \in FrameType, Hearing(f), clean'
  PROVE  ChannelsOK'
<1>1. PICK j \in Jobs : j = f.for /\ Acts(j)
  BY ActsHearing
<1>2. /\ job[j].pc = "waits" /\ job[j].live /\ job'[j].live /\ f = air[1] /\ 1 \in DOMAIN air
      /\ Ends(job[j].todo[1], f) \/ (f.kind = "contact" /\ job[j].todo[1].reads = Contacts)
      /\ job'[j].kind = job[j].kind /\ job'[j].patch = job[j].patch /\ job'[j].old = job[j].old /\ job'[j].todo = job[j].todo
      /\ job'[j].pc = IF ~Ends(job[j].todo[1], f) THEN "waits" ELSE IF f.kind = "err" THEN "refused" ELSE "answered"
      /\ \A x : /\ x \in DOMAIN job'[j].got <=> x \in DOMAIN f.data \/ x \in DOMAIN job[j].got
                /\ x \in DOMAIN f.data => job'[j].got[x] = f.data[x]
                /\ x \in DOMAIN job[j].got /\ x \notin DOMAIN f.data => job'[j].got[x] = job[j].got[x]
      /\ f.kind # "err" /\ ~Failing(j)' => Sent(j)
  BY <1>1, HearingJob
<1>3. UNCHANGED <<radio, store, linkState>> /\ \A i \in DOMAIN air' : i + 1 \in DOMAIN air /\ air'[i] = air[i + 1]
  BY DEF Hearing
<1>4. SameSlots
  BY <1>3 DEF SameSlots
<1>5. job[j] \in JobType /\ Shape(job[j]) /\ job[j].todo # <<>>
  BY <1>2, BaseJob
<1>6. /\ job[j].kind = "set" => job[j].todo[1].name = "write"
      /\ job[j].kind = "channels" => \E s \in SlotSet : job[j].todo[1] = Read({s}) /\ job[j].todo[1].reads = {s}
  BY <1>5, FirstCommand
<1>7. Sets(j) => Sets(j)'
  <2> SUFFICES ASSUME Sets(j) PROVE Sets(j)'
    OBVIOUS
  <2>1. job[j].kind = "set" /\ f.kind \in {"ok", "err"} /\ ~Failing(j)
    BY <1>1, <1>6, HeardBy DEF Sets, Sent
  <2>2. f.kind = "ok"
    BY <1>1, <1>2, <2>1 DEF Failing
  <2>3. job'[j].pc = "answered"
    BY <1>2, <2>2
  <2>4. ~Failing(j)'
    BY <1>3, <2>1, <2>3 DEF Failing
  <2> QED
    BY <1>2, <2>1, <2>3, <2>4 DEF Sets, Sent
<1>8. Sets(j)' => Sets(j)
  <2> SUFFICES ASSUME Sets(j)' PROVE Sets(j)
    OBVIOUS
  <2>1. job[j].kind = "set" /\ f.kind \in {"ok", "err"} /\ ~Failing(j)'
    BY <1>1, <1>2, <1>6, HeardBy DEF Sets, Sent
  <2>2. f.kind # "err"
    BY <1>2, <2>1 DEF Failing
  <2> QED
    BY <1>2, <2>1, <2>2 DEF Sets
<1>9. SlotsSaved'
  BY <1>1, <1>2, <1>3, <1>4, <1>7, SlotsKept DEF ChannelsOK
<1>10. SlotsSet(j)'
  BY <1>2, <1>3, <1>8 DEF ChannelsOK, SlotsSet
<1>11. SlotsRead(j)'
  <2> SUFFICES ASSUME job[j].kind = "channels", job'[j].pc # "refused"
               PROVE  /\ \A s \in DOMAIN job'[j].got : job'[j].got[s] = radio'[s]
                      /\ \A s \in SlotSet : \/ s \in DOMAIN job'[j].got
                                            \/ \E i \in DOMAIN job'[j].todo : (job'[j].pc = "answered" => i > 1) /\ job'[j].todo[i] = Read({s})
    BY <1>2 DEF SlotsRead
  <2>1. PICK t \in SlotSet : job[j].todo[1] = Read({t}) /\ job[j].todo[1].reads = {t}
    BY <1>6
  <2>2. f.kind = "info" /\ DOMAIN f.data = {t}
    <3>0. \A s \in SlotSet : job[j].todo[1].reads = {s} => (f.kind = "err" /\ f.data = Nothing) \/ (f.kind = "info" /\ DOMAIN f.data = {s})
      BY <1>1, HeardBy
    <3>1. (f.kind = "err" /\ f.data = Nothing) \/ (f.kind = "info" /\ DOMAIN f.data = {t})
      BY <2>1, <3>0
    <3>2. t \notin Contacts
      BY ItemsAre
    <3>3. f.kind # "err"
      BY <1>2, <2>1, <3>2
    <3> QED
      BY <3>1, <3>3
  <2>3. \A x \in DOMAIN f.data : f.data[x] = radio[x]
    BY <1>2, <2>2 DEF InfoOK
  <2>4. /\ \A s \in DOMAIN job[j].got : job[j].got[s] = radio[s]
        /\ \A s \in SlotSet : s \in DOMAIN job[j].got \/ \E i \in DOMAIN job[j].todo : job[j].todo[i] = Read({s})
    BY <1>2 DEF ChannelsOK, SlotsRead
  <2>5. ASSUME NEW s \in SlotSet, s \notin DOMAIN job'[j].got PROVE \E i \in DOMAIN job'[j].todo : i > 1 /\ job'[j].todo[i] = Read({s})
    <3>1. s # t /\ s \notin DOMAIN job[j].got
      BY <1>2, <2>2, <2>5
    <3>2. PICK i \in DOMAIN job[j].todo : job[j].todo[i] = Read({s})
      BY <2>4, <3>1
    <3>3. i # 1
      <4>1. Read({s}) # Read({t})
        <5>1. Read({s}).reads = {s} /\ Read({t}).reads = {t}
          BY CommandIs
        <5> QED
          BY <3>1, <5>1
      <4> QED
        BY <2>1, <3>2, <4>1
    <3>4. i > 1
      <4>1. DOMAIN job[j].todo = 1..Len(job[j].todo) /\ Len(job[j].todo) \in Nat
        BY <1>2, BaseJob
      <4>2. i \in 1..Len(job[j].todo)
        BY <4>1
      <4> QED
        BY <3>3, <4>1, <4>2
    <3> QED
      BY <1>2, <3>2, <3>4
  <2> QED
    BY <1>2, <1>3, <2>2, <2>3, <2>4, <2>5
<1> QED
  BY <1>1, <1>4, <1>9, <1>10, <1>11, SlotsOthers DEF ChannelsOK

LEMMA ChannelsLost ==
  ASSUME Base, ChannelsOK, NEW j \in Jobs, Lingering(j) \/ Failed(j)
  PROVE  ChannelsOK'
<1>1. Quiet(j) /\ UNCHANGED <<radio, store, linkState>> /\ ~job'[j].live
  BY QuietSteps, IdleIs DEF Lingering, Failed, Ending
<1>2. Acts(j) /\ SameSlots
  BY <1>1, ActsQuiet DEF SameSlots
<1>3. ~Sets(j)
  BY DEF Lingering, Failed, Sets, Sent
<1>4. SlotsSaved'
  BY <1>1, <1>2, <1>3, SlotsKept DEF ChannelsOK
<1>5. SlotsSet(j)' /\ SlotsRead(j)'
  BY <1>1 DEF SlotsSet, SlotsRead, Sets, Sent
<1> QED
  BY <1>2, <1>4, <1>5, SlotsOthers DEF ChannelsOK

LEMMA ChannelsFinished ==
  ASSUME Base, Settled, ChannelsOK, NEW j \in Jobs, Finished(j)
  PROVE  ChannelsOK'
<1>1. Quiet(j) /\ UNCHANGED <<radio, air>> /\ (\A k \in Jobs : k # j => job'[k] = job[k]) /\ job'[j] = Idle
      /\ job[j].pc = "answered" /\ Len(job[j].todo) = 1 /\ Stored(store', job[j])
      /\ linkState' = (IF j = Sync THEN "connected" ELSE linkState) /\ (j = Sync => job[j].kind = "channels")
  BY QuietSteps DEF Finished, Ending, Keeps
<1>2. Acts(j) /\ SameSlots
  BY <1>1, ActsQuiet DEF SameSlots
<1>3. ~Failing(j) /\ job[j] \in JobType /\ Shape(job[j]) /\ DOMAIN job[j].todo = {1} /\ job[j].live
  BY <1>1, LastIs DEF Settled, OneDue
<1>4. SlotsSet(j)' /\ SlotsRead(j)'
  BY <1>1, IdleIs DEF SlotsSet, SlotsRead, Sets, Sent
<1>5. SlotsSaved'
  <2>1. CASE job[j].kind = "channels"
    <3>1. \A s \in SlotSet : s \in DOMAIN job[j].got /\ job[j].got[s] = radio[s]
      <4>1. /\ \A s \in DOMAIN job[j].got : job[j].got[s] = radio[s]
            /\ \A s \in SlotSet : s \in DOMAIN job[j].got \/ \E i \in DOMAIN job[j].todo : i > 1
        BY <1>1, <1>3, <2>1 DEF ChannelsOK, SlotsRead
      <4>2. ~ \E i \in {1} : i > 1
        OBVIOUS
      <4> QED
        BY <1>3, <4>1, <4>2
    <3>2. \A s \in SlotSet : store'[s] = radio'[s]
      BY <1>1, <2>1, <3>1, ItemsAre DEF Stored
    <3> QED
      BY <3>2 DEF SlotsSaved
  <2>2. CASE job[j].kind = "set"
    <3>1. Sets(j) /\ j # Sync
      BY <1>1, <1>3, <2>2 DEF Sets, Sent
    <3> SUFFICES ASSUME linkState = "connected", NEW s \in SlotSet
                 PROVE  store'[s] = radio'[s] \/ \E k \in Jobs : Sets(k)' /\ s \in DOMAIN job'[k].patch
      BY <1>1, <3>1 DEF SlotsSaved
    <3>2. CASE s \in DOMAIN job[j].patch
      <4>1. job[j].patch[s] = radio[s]
        BY <3>1, <3>2 DEF ChannelsOK, SlotsSet
      <4> QED
        BY <1>1, <2>2, <3>2, <4>1, ItemsAre DEF Stored
    <3>3. CASE s \notin DOMAIN job[j].patch
      <4>1. store'[s] = store[s]
        BY <1>1, <2>2, <3>3, ItemsAre DEF Stored
      <4>2. store[s] = radio[s] \/ \E k \in Jobs : Sets(k) /\ s \in DOMAIN job[k].patch
        BY DEF ChannelsOK, SlotsSaved
      <4>3. ASSUME NEW k \in Jobs, Sets(k), s \in DOMAIN job[k].patch PROVE Sets(k)' /\ s \in DOMAIN job'[k].patch
        <5>1. k # j
          BY <3>3, <4>3
        <5> QED
          BY <1>2, <4>3, <5>1 DEF Acts, Sets
      <4> QED
        BY <1>1, <4>1, <4>2, <4>3
    <3> QED
      BY <3>2, <3>3
  <2>3. CASE job[j].kind \notin {"set", "channels"}
    <3>1. job[j].kind \in {"contacts", "remove", "import", "settings", "plain"} /\ j # Sync
      <4>1. j # Sync => job[j].kind # "self"
        BY <1>1, BaseIs DEF JobOK
      <4> QED
        BY <1>1, <1>3, <2>3, <4>1 DEF JobType, Kinds, Channel
    <3>2. \A s \in SlotSet : store'[s] = store[s]
      <4> SUFFICES ASSUME NEW s \in SlotSet PROVE store'[s] = store[s]
        OBVIOUS
      <4>1. s \in Items /\ s \notin Contacts /\ s \notin SettingKeys
        BY ItemsAre
      <4>2. job[j].kind = "remove" => s \notin DOMAIN job[j].patch
        BY <1>3, <4>1 DEF Shape
      <4> QED
        BY <1>1, <3>1, <4>1, <4>2 DEF Stored
    <3>3. ~Sets(j)
      BY <2>3 DEF Sets
    <3> QED
      BY <1>1, <1>2, <3>1, <3>2, <3>3, SlotsKept DEF ChannelsOK
  <2> QED
    BY <2>1, <2>2, <2>3
<1> QED
  BY <1>2, <1>4, <1>5, SlotsOthers DEF ChannelsOK

LEMMA ChannelsSteps ==
  ASSUME Base, Linked => Settled /\ InfoOK /\ ChannelsOK, Steps, Linked'
  PROVE  ChannelsOK'
<1>1. CASE Opening
  <2>1. /\ linkState' = "syncing" /\ job'[Sync].kind = "self" /\ \A k \in Jobs : k # Sync => ~job'[k].live
    BY <1>1, OpenedJobs
  <2>2. \A k \in Jobs : SlotsSet(k)' /\ SlotsRead(k)'
    BY <2>1 DEF SlotsSet, SlotsRead, Sets, Sent
  <2> QED
    BY <2>1, <2>2 DEF ChannelsOK, SlotsSaved
<1>2. CASE ~Opening
  <2>1. Linked /\ Settled /\ AirOK /\ InfoOK /\ ChannelsOK /\ clean' /\ linkState' # "down"
    BY <1>2, LinkedBefore DEF Linked, Settled
  <2>2. ASSUME NEW j, NEW kind, NEW patch, Asking(j, kind, patch) PROVE ChannelsOK'
    BY <2>1, <2>2, ChannelsAsking
  <2>3. ASSUME NEW j \in Jobs, Sending(j) PROVE ChannelsOK'
    BY <2>1, <2>3, SettingChannel, ReadingChannel
  <2>4. ASSUME NEW j \in Jobs, Lingering(j) \/ Failed(j) PROVE ChannelsOK'
    BY <2>1, <2>4, ChannelsLost
  <2>5. ASSUME NEW j \in Jobs, Finished(j) PROVE ChannelsOK'
    BY <2>1, <2>5, ChannelsFinished
  <2>6. ASSUME NEW kind, Turning(kind) PROVE ChannelsOK'
    <3>1. Sync \in Jobs /\ Quiet(Sync) /\ Beginning(Sync, kind, Nothing) /\ UNCHANGED <<radio, air, linkState>> /\ job[Sync].pc # "idle"
      BY <2>6, QuietSteps DEF Turning, Jobs
    <3>2. linkState' = "syncing"
      BY <3>1 DEF Base, CommandsOK
    <3>3. Acts(Sync) /\ SameSlots
      BY <3>1, ActsQuiet DEF SameSlots
    <3>4. SlotsSaved'
      BY <3>2 DEF SlotsSaved
    <3>5. SlotsSet(Sync)' /\ SlotsRead(Sync)'
      BY <3>1, SlotsBegun
    <3> QED
      BY <2>1, <3>1, <3>3, <3>4, <3>5, SlotsOthers DEF ChannelsOK
  <2>7. ASSUME NEW f \in FrameType, Hearing(f) PROVE ChannelsOK'
    BY <2>1, <2>7, ChannelsHearing
  <2> QED
    BY <1>2, <2>1, <2>2, <2>3, <2>4, <2>5, <2>6, <2>7 DEF Steps
<1> QED
  BY <1>1, <1>2

---------------------------------------------------------------------------
(* Contacts.                                                               *)

\* Two jobs that wait for the same kind of answer both hear it: they go on waiting
\* for as long as every answer goes to one job.
LEMMA DoomedStays ==
  ASSUME Base, AirOK, Doomed, Steps, Linked', ~Opening
  PROVE  Doomed'
<1>1. PICK j \in Jobs, k \in Jobs : /\ j # k /\ Waits(j) /\ Waits(k)
                                   /\ \/ job[j].todo[1].name = "write" /\ job[k].todo[1].name = "write"
                                      \/ job[j].todo[1] = Read(Contacts) /\ job[k].todo[1] = Read(Contacts)
  BY DEF Doomed
<1>2. clean' /\ linkState' # "down"
  BY DEF Linked
<1>3. ASSUME job'[j] = job[j], job'[k] = job[k] PROVE Doomed'
  BY <1>1, <1>3 DEF Doomed, Waits
<1>4. ASSUME NEW m \in Jobs, Sending(m) PROVE Doomed'
  <2>1. m # j /\ m # k
    BY <1>1, <1>4 DEF Sending, Waits
  <2> QED
    BY <1>3, <1>4, <2>1 DEF Sending, Keeps
<1>5. ASSUME NEW m \in Jobs, Quiet(m) PROVE Doomed'
  <2>1. m # j /\ m # k
    BY <1>1, <1>5 DEF Quiet
  <2> QED
    BY <1>3, <1>5, <2>1 DEF Quiet, Keeps
<1>6. ASSUME NEW f \in FrameType, Hearing(f) PROVE Doomed'
  <2>1. PICK m \in Jobs : m = f.for
    BY <1>2, <1>6, HearingOne
  <2>2. \A x \in Jobs : x # m => job'[x] = job[x] /\ ~Hears(job[x], f)
    BY <1>2, <1>6, <2>1, HearingOne
  <2>3. Hears(job[m], f)
    BY <1>2, <1>6, <2>1, HearingOne
  <2>4. ASSUME NEW x \in Jobs, NEW y \in Jobs, x # y, Waits(x), Waits(y), x = m,
               \/ job[x].todo[1].name = "write" /\ job[y].todo[1].name = "write"
               \/ job[x].todo[1] = Read(Contacts) /\ job[y].todo[1] = Read(Contacts)
        PROVE  FALSE
    <3>1. ~Hears(job[y], f)
      BY <2>2, <2>4
    <3>2. CASE job[x].todo[1] = Read(Contacts) /\ job[y].todo[1] = Read(Contacts)
      <4>1. Hears(job[y], f)
        BY <2>3, <2>4, <3>2 DEF Hears, Waits
      <4> QED
        BY <3>1, <4>1
    <3>3. CASE job[x].todo[1].name = "write" /\ job[y].todo[1].name = "write"
      <4>1. f.kind \in {"ok", "err"}
        BY <1>2, <1>6, <2>1, <2>4, <3>3, HeardBy
      <4>2. Ends(job[y].todo[1], f)
        BY <3>3, <4>1 DEF Ends
      <4>3. Hears(job[y], f)
        BY <2>4, <4>2 DEF Hears, Waits
      <4> QED
        BY <3>1, <4>3
    <3> QED
      BY <2>4, <3>2, <3>3
  <2>5. j # m /\ k # m
    BY <1>1, <2>4
  <2> QED
    BY <1>3, <2>2, <2>5
<1> QED
  BY <1>2, <1>4, <1>5, <1>6, UnchangedAir

SameContacts == \A c \in Contacts : radio'[c] = radio[c]

\* What the frames of other jobs say does not change.
Undisturbed(j) ==
  /\ \A k \in Jobs : k # j => /\ job'[k] = job[k]
                              /\ Imports(k)' <=> Imports(k)
                              /\ Removes(k)' <=> Removes(k)
                              /\ Scans(k)' <=> Scans(k)
  /\ \A s, w \in Jobs : s # j /\ w # j => (Behind(s, w)' <=> Behind(s, w))
  /\ \A s \in Jobs : \A c \in Contacts : s # j /\ radio'[c] = radio[c] /\ Lists(s, c) => Lists(s, c)'

LEMMA UndisturbedIs ==
  ASSUME NEW j \in Jobs, Acts(j),
         \A s, w \in Jobs : s # j /\ w # j =>
           ((\E i, k \in DOMAIN air' : i < k /\ air'[i].for = s /\ air'[i].kind = "end" /\ air'[k].for = w)
             <=> \E i, k \in DOMAIN air : i < k /\ air[i].for = s /\ air[i].kind = "end" /\ air[k].for = w),
         \A i \in DOMAIN air' : air'[i].for # j => \E k \in DOMAIN air : air[k] = air'[i],
         \A i \in DOMAIN air : air[i].for # j => \E k \in DOMAIN air' : air'[k] = air[i]
  PROVE  Undisturbed(j)
<1>1. ASSUME NEW k \in Jobs, k # j
      PROVE  job'[k] = job[k] /\ (Imports(k)' <=> Imports(k)) /\ (Removes(k)' <=> Removes(k)) /\ (Scans(k)' <=> Scans(k))
  <2>1. job'[k] = job[k] /\ (Sent(k)' <=> Sent(k))
    BY <1>1 DEF Acts
  <2> QED
    BY <2>1 DEF Imports, Removes, Scans
<1>2. ASSUME NEW s \in Jobs, NEW w \in Jobs, s # j, w # j PROVE Behind(s, w)' <=> Behind(s, w)
  <2>1. job'[s].pc = job[s].pc
    BY <1>1, <1>2
  <2> QED
    BY <1>2, <2>1 DEF Behind
<1>3. ASSUME NEW s \in Jobs, NEW c \in Contacts, s # j, radio'[c] = radio[c], Lists(s, c) PROVE Lists(s, c)'
  <2>1. job'[s].got = job[s].got
    BY <1>1, <1>3
  <2>2. c \in DOMAIN job'[s].got => job'[s].got[c] = radio'[c]
    BY <1>3, <2>1 DEF Lists
  <2>3. ASSUME NEW i \in DOMAIN air', air'[i].for = s, c \in DOMAIN air'[i].data PROVE air'[i].data[c] = radio'[c]
    <3>1. PICK k \in DOMAIN air : air[k] = air'[i]
      BY <1>3, <2>3
    <3> QED
      BY <1>3, <2>3, <3>1 DEF Lists
  <2>4. \/ c \in DOMAIN job'[s].got \/ radio'[c] = None
        \/ \E i \in DOMAIN air' : air'[i].for = s /\ c \in DOMAIN air'[i].data
    <3>1. ASSUME NEW i \in DOMAIN air, air[i].for = s, c \in DOMAIN air[i].data
          PROVE  \E k \in DOMAIN air' : air'[k].for = s /\ c \in DOMAIN air'[k].data
      <4>1. PICK k \in DOMAIN air' : air'[k] = air[i]
        BY <1>3, <3>1
      <4> QED
        BY <3>1, <4>1
    <3> QED
      BY <1>3, <2>1, <3>1 DEF Lists
  <2> QED
    BY <2>2, <2>3, <2>4 DEF Lists
<1> QED
  BY <1>1, <1>2, <1>3 DEF Undisturbed

LEMMA UndisturbedQuiet ==
  ASSUME NEW j \in Jobs, Quiet(j)
  PROVE  Undisturbed(j)
<1>1. Acts(j) /\ air' = air
  BY ActsQuiet DEF Quiet
<1> QED
  BY <1>1, UndisturbedIs

LEMMA UndisturbedSending ==
  ASSUME Base, NEW j \in Jobs, Sending(j)
  PROVE  Undisturbed(j)
<1>1. Acts(j) /\ Answers(j, job'[j].todo[1])
  BY ActsSending, SendingJob
<1>2. /\ \A i \in DOMAIN air : i \in DOMAIN air' /\ air'[i] = air[i]
      /\ \A i \in DOMAIN air' : i \notin DOMAIN air => air'[i].for = j
  BY <1>1 DEF Answers
<1>3. ASSUME NEW s \in Jobs, NEW w \in Jobs, s # j, w # j
      PROVE  (\E i, k \in DOMAIN air' : i < k /\ air'[i].for = s /\ air'[i].kind = "end" /\ air'[k].for = w)
              <=> \E i, k \in DOMAIN air : i < k /\ air[i].for = s /\ air[i].kind = "end" /\ air[k].for = w
  BY <1>2, <1>3
<1> QED
  BY <1>1, <1>2, <1>3, UndisturbedIs

LEMMA UndisturbedHearing ==
  ASSUME Base, AirOK, NEW f \in FrameType, Hearing(f), clean', NEW j, j = f.for
  PROVE  j \in Jobs /\ Undisturbed(j)
<1>1. j \in Jobs /\ Acts(j) /\ f = air[1] /\ 1 \in DOMAIN air
  BY ActsHearing, HearingOne
<1>2. /\ DOMAIN air = 1..Len(air) /\ Len(air) \in Nat /\ DOMAIN air' = 1..(Len(air) - 1)
      /\ \A i \in DOMAIN air' : i + 1 \in DOMAIN air /\ air'[i] = air[i + 1]
      /\ \A i \in DOMAIN air : i # 1 => i - 1 \in DOMAIN air' /\ air'[i - 1] = air[i]
  BY DEF Hearing
<1>3. ASSUME NEW s \in Jobs, NEW w \in Jobs, s # j, w # j
      PROVE  (\E i, k \in DOMAIN air' : i < k /\ air'[i].for = s /\ air'[i].kind = "end" /\ air'[k].for = w)
              <=> \E i, k \in DOMAIN air : i < k /\ air[i].for = s /\ air[i].kind = "end" /\ air[k].for = w
  <2>1. ASSUME NEW i \in DOMAIN air', NEW k \in DOMAIN air', i < k, air'[i].for = s, air'[i].kind = "end", air'[k].for = w
        PROVE  \E m, n \in DOMAIN air : m < n /\ air[m].for = s /\ air[m].kind = "end" /\ air[n].for = w
    <3>1. i + 1 \in DOMAIN air /\ k + 1 \in DOMAIN air /\ i + 1 < k + 1
      BY <1>2, <2>1
    <3> QED
      BY <1>2, <2>1, <3>1
  <2>2. ASSUME NEW i \in DOMAIN air, NEW k \in DOMAIN air, i < k, air[i].for = s, air[i].kind = "end", air[k].for = w
        PROVE  \E m, n \in DOMAIN air' : m < n /\ air'[m].for = s /\ air'[m].kind = "end" /\ air'[n].for = w
    <3>1. i # 1 /\ k # 1
      BY <1>1, <1>3, <2>2
    <3>2. i - 1 \in DOMAIN air' /\ k - 1 \in DOMAIN air' /\ i - 1 < k - 1
      BY <1>2, <2>2, <3>1
    <3> QED
      BY <1>2, <2>2, <3>1, <3>2
  <2> QED
    BY <2>1, <2>2
<1>4. \A i \in DOMAIN air : air[i].for # j => \E k \in DOMAIN air' : air'[k] = air[i]
  BY <1>1, <1>2
<1>5. \A i \in DOMAIN air' : air'[i].for # j => \E k \in DOMAIN air : air[k] = air'[i]
  BY <1>2
<1> QED
  BY <1>1, <1>3, <1>4, <1>5, UndisturbedIs

LEMMA ContactJob ==
  ASSUME Base, NEW j \in Jobs
  PROVE  /\ Removes(j) => /\ job[j].kind = "remove" /\ DOMAIN job[j].patch \subseteq Contacts
                          /\ \A c \in DOMAIN job[j].patch : job[j].patch[c] = None
         /\ Scans(j) => job[j].kind \in {"contacts", "import"} /\ job[j].pc # "idle"
         /\ Imports(j) => job[j].kind = "import" /\ ~Scans(j)
<1>1. ASSUME Removes(j) PROVE job[j].kind = "remove" /\ DOMAIN job[j].patch \subseteq Contacts /\ \A c \in DOMAIN job[j].patch : job[j].patch[c] = None
  <2>1. job[j].kind = "remove" /\ job[j].pc # "idle"
    BY <1>1 DEF Removes, Sent
  <2> QED
    BY <2>1, BaseJob DEF Shape
<1>2. ASSUME Scans(j) PROVE job[j].kind \in {"contacts", "import"} /\ job[j].pc # "idle"
  <2>1. job[j].pc # "idle" /\ job[j].todo[1] = Read(Contacts)
    BY <1>2 DEF Scans
  <2>2. job[j].todo[1].reads = Contacts
    BY <2>1, CommandIs
  <2> QED
    BY <2>1, <2>2, ReadsOf
<1>3. Imports(j) => ~Scans(j)
  BY CommandIs DEF Imports, Scans
<1> QED
  BY <1>1, <1>2, <1>3 DEF Imports

\* What is saved of contacts follows from what is heard and done of them, and nothing else.
LEMMA ContactsSame ==
  ASSUME Base, ContactsOK, SameContacts, \A c \in Contacts : store'[c] = store[c],
         \A k \in Jobs : /\ (Imports(k)' <=> Imports(k)) /\ (Removes(k)' <=> Removes(k)) /\ (Scans(k)' <=> Scans(k))
                         /\ Removes(k) => job'[k].patch = job[k].patch,
         \A s, w \in Jobs : Scans(s) /\ Removes(w) => (Behind(s, w)' <=> Behind(s, w)),
         \A s \in Jobs : \A c \in Contacts : Scans(s) /\ Lists(s, c) => Lists(s, c)',
         linkState' = "connected" \/ job'[Sync].kind = "channels" => linkState = "connected" \/ job[Sync].kind = "channels"
  PROVE  ContactsOK'
<1>1. \A k \in Jobs : Removes(k) => DOMAIN job[k].patch \subseteq Contacts
  BY ContactJob
<1> SUFFICES ASSUME \A k \in Jobs : ~Imports(k)
             PROVE  /\ \A s \in Jobs : Scans(s) => Listing(s)'
                    /\ (\A s \in Jobs : ~Scans(s)) => ContactsSaved' /\ Gone'
  BY DEF ContactsOK
<1>2. ASSUME NEW s \in Jobs, Scans(s) PROVE Listing(s)'
  <2>1. Listing(s)
    BY <1>2 DEF ContactsOK
  <2>2. ASSUME NEW c \in Contacts PROVE Lists(s, c)' \/ \E w \in Jobs : Removes(w)' /\ Behind(s, w)' /\ c \in DOMAIN job'[w].patch
    <3>1. Lists(s, c) \/ \E w \in Jobs : Removes(w) /\ Behind(s, w) /\ c \in DOMAIN job[w].patch
      BY <2>1 DEF Listing
    <3> QED
      BY <1>2, <3>1
  <2>3. ASSUME NEW w \in Jobs, Removes(w)', Behind(s, w)', NEW c \in DOMAIN job'[w].patch PROVE radio'[c] = None
    <3>1. Removes(w) /\ Behind(s, w) /\ c \in DOMAIN job[w].patch
      BY <1>2, <2>3
    <3> QED
      BY <1>1, <2>1, <3>1 DEF Listing, SameContacts
  <2> QED
    BY <2>2, <2>3 DEF Listing
<1>3. ASSUME \A s \in Jobs : ~Scans(s) PROVE ContactsSaved' /\ Gone'
  <2>1. ContactsSaved /\ Gone
    BY <1>3 DEF ContactsOK
  <2>2. ContactsSaved'
    <3> SUFFICES ASSUME linkState' = "connected" \/ job'[Sync].kind = "channels", NEW c \in Contacts
                 PROVE  store'[c] = radio'[c] \/ \E w \in Jobs : Removes(w)' /\ c \in DOMAIN job'[w].patch
      BY DEF ContactsSaved
    <3>1. store[c] = radio[c] \/ \E w \in Jobs : Removes(w) /\ c \in DOMAIN job[w].patch
      BY <2>1 DEF ContactsSaved
    <3> QED
      BY <3>1 DEF SameContacts
  <2>3. Gone'
    BY <1>1, <2>1 DEF Gone, SameContacts
  <2> QED
    BY <2>2, <2>3
<1> QED
  BY <1>2, <1>3

\* A job that has nothing to do with what is saved of contacts.
Elsewhere(j) == ~Imports(j) /\ ~Removes(j) /\ ~Scans(j)

LEMMA ContactsElsewhere ==
  ASSUME Base, ContactsOK, NEW j \in Jobs, Undisturbed(j), Elsewhere(j), Elsewhere(j)', SameContacts,
         \A c \in Contacts : store'[c] = store[c],
         linkState' = "connected" \/ job'[Sync].kind = "channels" => linkState = "connected" \/ job[Sync].kind = "channels"
  PROVE  ContactsOK'
<1>1. ASSUME NEW k \in Jobs
      PROVE  (Imports(k)' <=> Imports(k)) /\ (Removes(k)' <=> Removes(k)) /\ (Scans(k)' <=> Scans(k))
             /\ (Removes(k) => k # j /\ job'[k].patch = job[k].patch) /\ (Scans(k) => k # j)
  <2>1. k # j => (Imports(k)' <=> Imports(k)) /\ (Removes(k)' <=> Removes(k)) /\ (Scans(k)' <=> Scans(k)) /\ job'[k] = job[k]
    BY DEF Undisturbed
  <2>2. k = j => ~Imports(k) /\ ~Removes(k) /\ ~Scans(k) /\ ~Imports(k)' /\ ~Removes(k)' /\ ~Scans(k)'
    BY DEF Elsewhere
  <2> QED
    BY <2>1, <2>2
<1>2. \A s, w \in Jobs : Scans(s) /\ Removes(w) => (Behind(s, w)' <=> Behind(s, w))
  BY <1>1 DEF Undisturbed
<1>3. \A s \in Jobs : \A c \in Contacts : Scans(s) /\ Lists(s, c) => Lists(s, c)'
  BY <1>1 DEF Undisturbed, SameContacts
<1> QED
  BY <1>1, <1>2, <1>3, ContactsSame

\* A removal is saved.
LEMMA ContactRemoved ==
  ASSUME Base, Settled, ContactsOK, NEW j \in Jobs, Finished(j), job[j].kind = "remove"
  PROVE  ContactsOK'
<1>1. Quiet(j) /\ UNCHANGED <<radio, air>> /\ job'[j] = Idle
      /\ job[j].pc = "answered" /\ Len(job[j].todo) = 1 /\ Stored(store', job[j])
      /\ linkState' = linkState /\ j # Sync
  BY QuietSteps DEF Finished, Ending, Keeps
<1>2. Undisturbed(j)
  BY <1>1, UndisturbedQuiet
<1>3. ~Failing(j) /\ job[j] \in JobType /\ Shape(job[j]) /\ job[j].live /\ \A i \in DOMAIN air : air[i].for # j
  BY <1>1, LastIs DEF Settled, OneDue
<1>4. Removes(j) /\ ~Scans(j) /\ ~Imports(j) /\ DOMAIN job[j].patch \subseteq Contacts /\ \A c \in DOMAIN job[j].patch : job[j].patch[c] = None
  <2>1. Removes(j)
    BY <1>1, <1>3 DEF Removes, Sent
  <2> QED
    BY <2>1, ContactJob DEF Imports
<1>5. ~Removes(j)' /\ ~Scans(j)' /\ ~Imports(j)'
  BY <1>1, IdleIs DEF Removes, Scans, Imports, Sent
<1>6. \A k \in Jobs : k # j => (Imports(k)' <=> Imports(k)) /\ (Removes(k)' <=> Removes(k)) /\ (Scans(k)' <=> Scans(k)) /\ job'[k] = job[k]
  BY <1>2 DEF Undisturbed
<1>7. ASSUME NEW s \in Jobs, Scans(s) PROVE ~Behind(s, j) /\ s # j
  <2>1. s # j
    BY <1>4, <1>7
  <2>2. job[s].pc # "answered"
    BY <1>1, <2>1 DEF Settled, OneDue
  <2> QED
    BY <1>3, <2>1, <2>2 DEF Behind
<1> SUFFICES ASSUME \A k \in Jobs : ~Imports(k)
             PROVE  /\ \A s \in Jobs : Scans(s) => Listing(s)'
                    /\ (\A s \in Jobs : ~Scans(s)) => ContactsSaved' /\ Gone'
  BY <1>4, <1>5, <1>6 DEF ContactsOK
<1>8. ASSUME NEW s \in Jobs, Scans(s) PROVE Listing(s)'
  <2>1. Listing(s) /\ s # j /\ ~Behind(s, j)
    BY <1>7, <1>8 DEF ContactsOK
  <2>2. \A w \in Jobs : w # j => (Behind(s, w)' <=> Behind(s, w))
    BY <1>2, <2>1 DEF Undisturbed
  <2>3. ASSUME NEW c \in Contacts PROVE Lists(s, c)' \/ \E w \in Jobs : Removes(w)' /\ Behind(s, w)' /\ c \in DOMAIN job'[w].patch
    <3>1. Lists(s, c) => Lists(s, c)'
      BY <1>1, <1>2, <2>1 DEF Undisturbed
    <3>2. Lists(s, c) \/ \E w \in Jobs : Removes(w) /\ Behind(s, w) /\ c \in DOMAIN job[w].patch
      BY <2>1 DEF Listing
    <3> QED
      BY <1>6, <2>1, <2>2, <3>1, <3>2
  <2>4. ASSUME NEW w \in Jobs, Removes(w)', Behind(s, w)', NEW c \in DOMAIN job'[w].patch PROVE radio'[c] = None
    <3>1. w # j
      BY <1>5, <2>4
    <3> QED
      BY <1>1, <1>6, <2>1, <2>2, <2>4, <3>1 DEF Listing
  <2> QED
    BY <2>3, <2>4 DEF Listing
<1>9. ASSUME \A s \in Jobs : ~Scans(s) PROVE ContactsSaved' /\ Gone'
  <2>1. ContactsSaved /\ Gone
    BY <1>9 DEF ContactsOK
  <2>2. ContactsSaved'
    <3> SUFFICES ASSUME linkState' = "connected" \/ job'[Sync].kind = "channels", NEW c \in Contacts
                 PROVE  store'[c] = radio'[c] \/ \E w \in Jobs : Removes(w)' /\ c \in DOMAIN job'[w].patch
      BY DEF ContactsSaved
    <3>1. CASE c \in DOMAIN job[j].patch
      <4>1. radio[c] = None
        BY <1>4, <2>1, <3>1 DEF Gone
      <4>2. store'[c] = job[j].patch[c]
        BY <1>1, <3>1, ItemsAre DEF Stored
      <4> QED
        BY <1>1, <1>4, <3>1, <4>1, <4>2
    <3>2. CASE c \notin DOMAIN job[j].patch
      <4>1. store'[c] = store[c]
        BY <1>1, <3>2, ItemsAre DEF Stored
      <4>2. job'[Sync] = job[Sync]
        BY <1>1, <1>6 DEF Jobs
      <4>3. store[c] = radio[c] \/ \E w \in Jobs : Removes(w) /\ c \in DOMAIN job[w].patch
        BY <1>1, <2>1, <4>2 DEF ContactsSaved
      <4> QED
        BY <1>1, <1>6, <3>2, <4>1, <4>3
    <3> QED
      BY <3>1, <3>2
  <2>3. Gone'
    BY <1>1, <1>5, <1>6, <2>1 DEF Gone
  <2> QED
    BY <2>2, <2>3
<1> QED
  BY <1>8, <1>9

\* A scan is saved.
LEMMA ScanSaved ==
  ASSUME Base, Settled, ContactsOK, NEW j \in Jobs, Quiet(j), UNCHANGED <<radio, air>>, job[j].pc = "answered", Len(job[j].todo) = 1,
         job[j].kind \in {"contacts", "import"}, Stored(store', job[j]), Elsewhere(j)'
  PROVE  ContactsOK'
<1>1. Undisturbed(j)
  BY UndisturbedQuiet
<1>2. job[j] \in JobType /\ Shape(job[j]) /\ job[j].live /\ \A i \in DOMAIN air : air[i].for # j
  BY LastIs DEF Settled, OneDue
<1>3. Scans(j) /\ ~Imports(j) /\ ~Removes(j)
  <2>1. job[j].todo \in Seq(Command)
    BY <1>2 DEF JobType
  <2>2. ~Several(job[j].todo)
    BY DEF Several
  <2>3. Len(<<Write(job[j].patch), Read(Contacts)>>) = 2
    OBVIOUS
  <2>4. job[j].todo # <<Write(job[j].patch), Read(Contacts)>>
    BY <2>3
  <2>5. job[j].todo = <<Read(Contacts)>>
    BY <1>2, <2>4 DEF Shape
  <2>6. job[j].todo[1] = Read(Contacts)
    BY <2>5
  <2>7. Scans(j)
    BY <1>2, <2>6 DEF Scans
  <2> QED
    BY <2>7, ContactJob
<1>4. ~Removes(j)' /\ ~Scans(j)' /\ ~Imports(j)'
  BY DEF Elsewhere
<1>5. \A k \in Jobs : k # j => (Imports(k)' <=> Imports(k)) /\ (Removes(k)' <=> Removes(k)) /\ (Scans(k)' <=> Scans(k)) /\ job'[k] = job[k]
  BY <1>1 DEF Undisturbed
<1>6. \A w \in Jobs : Behind(j, w)
  BY DEF Behind
<1> SUFFICES ASSUME \A k \in Jobs : ~Imports(k)
             PROVE  /\ \A s \in Jobs : s # j /\ Scans(s) => Listing(s)'
                    /\ ContactsSaved' /\ Gone'
  BY <1>3, <1>4, <1>5 DEF ContactsOK
<1>7. Listing(j)
  BY <1>3 DEF ContactsOK
<1>8. ASSUME NEW s \in Jobs, s # j, Scans(s) PROVE Listing(s)'
  <2>1. Listing(s)
    BY <1>8 DEF ContactsOK
  <2>2. \A w \in Jobs : w # j => (Behind(s, w)' <=> Behind(s, w))
    BY <1>1, <1>8 DEF Undisturbed
  <2>3. ASSUME NEW c \in Contacts PROVE Lists(s, c)' \/ \E w \in Jobs : Removes(w)' /\ Behind(s, w)' /\ c \in DOMAIN job'[w].patch
    <3>1. Lists(s, c) => Lists(s, c)'
      BY <1>1, <1>8 DEF Undisturbed
    <3>2. Lists(s, c) \/ \E w \in Jobs : Removes(w) /\ Behind(s, w) /\ c \in DOMAIN job[w].patch
      BY <2>1 DEF Listing
    <3> QED
      BY <1>3, <1>5, <2>2, <3>1, <3>2
  <2>4. ASSUME NEW w \in Jobs, Removes(w)', Behind(s, w)', NEW c \in DOMAIN job'[w].patch PROVE radio'[c] = None
    <3>1. w # j
      BY <1>4, <2>4
    <3> QED
      BY <1>5, <2>1, <2>2, <2>4, <3>1 DEF Listing
  <2> QED
    BY <2>3, <2>4 DEF Listing
<1>9. ContactsSaved'
  <2> SUFFICES ASSUME NEW c \in Contacts
               PROVE  store'[c] = radio[c] \/ \E w \in Jobs : Removes(w)' /\ c \in DOMAIN job'[w].patch
    BY DEF ContactsSaved
  <2>1. store'[c] = IF c \in DOMAIN job[j].got THEN job[j].got[c] ELSE None
    BY ItemsAre DEF Stored
  <2>2. CASE Lists(j, c)
    BY <1>2, <2>1, <2>2 DEF Lists
  <2>3. CASE \E w \in Jobs : Removes(w) /\ Behind(j, w) /\ c \in DOMAIN job[w].patch
    BY <1>3, <1>5, <2>3
  <2> QED
    BY <1>7, <2>2, <2>3 DEF Listing
<1>10. Gone'
  <2> SUFFICES ASSUME NEW w \in Jobs, Removes(w)', NEW c \in DOMAIN job'[w].patch PROVE radio[c] = None
    BY DEF Gone
  <2>1. w # j
    BY <1>4
  <2>2. Removes(w) /\ c \in DOMAIN job[w].patch
    BY <1>5, <2>1
  <2> QED
    BY <1>6, <1>7, <2>2 DEF Listing
<1> QED
  BY <1>8, <1>9, <1>10

LEMMA ContactsAsking ==
  ASSUME Base, ContactsOK, NEW j, NEW kind, NEW patch, Asking(j, kind, patch)
  PROVE  ContactsOK'
<1>1. /\ j \in Jobs /\ j # Sync /\ Quiet(j) /\ Beginning(j, kind, patch) /\ job[j].pc = "idle" /\ UNCHANGED <<radio, store, linkState, air>>
  BY QuietSteps, CallerIs DEF Asking
<1>2. Undisturbed(j)
  BY <1>1, UndisturbedQuiet
<1>3. job'[j].pc = "queued" /\ job'[Sync] = job[Sync]
  BY <1>1, NewIs DEF Beginning, Keeps, Jobs
<1>4. Elsewhere(j) /\ Elsewhere(j)'
  BY <1>1, <1>3 DEF Elsewhere, Imports, Removes, Scans, Sent
<1> QED
  BY <1>1, <1>2, <1>3, <1>4, ContactsElsewhere DEF SameContacts

LEMMA ContactsLost ==
  ASSUME Base, ContactsOK, NEW j \in Jobs, Lingering(j) \/ Failed(j)
  PROVE  ContactsOK'
<1>1. /\ Quiet(j) /\ UNCHANGED <<radio, store, linkState, air>> /\ ~job'[j].live
  BY QuietSteps, IdleIs DEF Lingering, Failed, Ending
<1>2. Undisturbed(j)
  BY <1>1, UndisturbedQuiet
<1>3. j # Sync
  <2>1. ASSUME j = Sync PROVE job[j].kind # "set"
    BY <2>1, BaseIs, IdleIs DEF JobOK
  <2> QED
    BY <2>1 DEF Lingering, Failed
<1>4. job'[Sync] = job[Sync]
  BY <1>2, <1>3 DEF Undisturbed, Jobs
<1>5. ~job[j].live \/ job[j].pc = "refused"
  BY DEF Lingering, Failed
<1>6. Elsewhere(j) /\ Elsewhere(j)'
  BY <1>1, <1>5 DEF Elsewhere, Imports, Removes, Scans, Sent
<1> QED
  BY <1>1, <1>2, <1>4, <1>6, ContactsElsewhere DEF SameContacts

LEMMA ContactsFinished ==
  ASSUME Base, Settled, ContactsOK, NEW j \in Jobs, Finished(j)
  PROVE  ContactsOK'
<1>1. Quiet(j) /\ UNCHANGED <<radio, air>> /\ job'[j] = Idle
      /\ job[j].pc = "answered" /\ Len(job[j].todo) = 1 /\ Stored(store', job[j])
      /\ linkState' = (IF j = Sync THEN "connected" ELSE linkState) /\ (j = Sync => job[j].kind = "channels")
  BY QuietSteps DEF Finished, Ending, Keeps
<1>2. Undisturbed(j) /\ Elsewhere(j)'
  BY <1>1, UndisturbedQuiet, IdleIs DEF Elsewhere, Imports, Removes, Scans, Sent
<1>3. job[j] \in JobType /\ Shape(job[j])
  BY <1>1, LastIs DEF Settled
<1>4. CASE job[j].kind = "remove"
  BY <1>4, ContactRemoved
<1>5. CASE job[j].kind \in {"contacts", "import"}
  BY <1>1, <1>2, <1>5, ScanSaved
<1>6. CASE job[j].kind \notin {"remove", "contacts", "import"}
  <2>1. Elsewhere(j)
    BY <1>6, ContactJob DEF Elsewhere
  <2>2. \A c \in Contacts : store'[c] = store[c]
    <3> SUFFICES ASSUME NEW c \in Contacts PROVE store'[c] = store[c]
      OBVIOUS
    <3>1. c \in Items /\ c \notin SlotSet /\ c \notin SettingKeys
      BY ItemsAre
    <3>2. job[j].kind \in {"set", "channels", "settings", "plain"}
      <4>1. j # Sync => job[j].kind # "self"
        BY <1>1, BaseIs DEF JobOK
      <4> QED
        BY <1>1, <1>3, <1>6, <4>1 DEF JobType, Kinds, Channel
    <3>3. job[j].kind = "set" => c \notin DOMAIN job[j].patch
      BY <1>3, <3>1 DEF Shape
    <3>4. job[j].kind = "channels" => c \notin DOMAIN job[j].got
      BY <1>3, <3>1 DEF Shape
    <3> QED
      BY <1>1, <3>1, <3>2, <3>3, <3>4 DEF Stored
  <2>3. linkState' = "connected" \/ job'[Sync].kind = "channels" => linkState = "connected" \/ job[Sync].kind = "channels"
    <3>1. j # Sync => job'[Sync] = job[Sync]
      BY <1>2 DEF Undisturbed, Jobs
    <3> QED
      BY <1>1, <3>1
  <2> QED
    BY <1>1, <1>2, <2>1, <2>2, <2>3, ContactsElsewhere DEF SameContacts
<1> QED
  BY <1>4, <1>5, <1>6

LEMMA ContactsTurning ==
  ASSUME Base, Settled, ContactsOK, NEW kind, Turning(kind)
  PROVE  ContactsOK'
<1>1. Sync \in Jobs /\ Quiet(Sync) /\ UNCHANGED <<radio, air, linkState>> /\ job'[Sync].kind = kind /\ job'[Sync].pc = "queued"
      /\ job[Sync].pc = "answered" /\ Len(job[Sync].todo) = 1 /\ Stored(store', job[Sync])
      /\ ((job[Sync].kind = "self" /\ kind = "contacts") \/ (job[Sync].kind = "contacts" /\ kind = "channels"))
  BY QuietSteps, NewIs DEF Turning, Beginning, Jobs
<1>2. Undisturbed(Sync) /\ Elsewhere(Sync)'
  BY <1>1, UndisturbedQuiet DEF Elsewhere, Imports, Removes, Scans, Sent
<1>3. CASE job[Sync].kind = "contacts"
  BY <1>1, <1>2, <1>3, ScanSaved
<1>4. CASE job[Sync].kind = "self" /\ kind = "contacts"
  <2>1. Elsewhere(Sync)
    BY <1>1, <1>4, ContactJob DEF Elsewhere
  <2>2. \A c \in Contacts : store'[c] = store[c]
    <3>1. job[Sync].got \in Partial /\ DOMAIN job[Sync].got \subseteq SettingKeys
      BY <1>1, <1>4, BaseJob DEF Shape, JobType
    <3> QED
      BY <1>1, <1>4, <3>1, ItemsAre DEF Stored
  <2>3. linkState' # "connected"
    BY <1>1 DEF Base, CommandsOK
  <2> QED
    BY <1>1, <1>2, <1>4, <2>1, <2>2, <2>3, ContactsElsewhere DEF SameContacts
<1> QED
  BY <1>1, <1>3, <1>4

\* The end of a scan that waits is on its way.
LEMMA EndComes ==
  ASSUME Base, AirOK, NEW s \in Jobs, Scans(s), job[s].pc # "answered"
  PROVE  \E i \in DOMAIN air : air[i].for = s /\ air[i].kind = "end"
<1>1. job[s].pc = "waits" /\ job[s].live /\ job[s].todo[1] = Read(Contacts)
  BY DEF Scans
<1>2. PICK i \in DOMAIN air : air[i].for = s /\ air[i].kind # "contact"
  BY <1>1 DEF AirOK, Waits
<1>3. air[i] \in FrameType /\ FrameOK(air[i]) /\ Hears(job[s], air[i])
  BY <1>2, ForIs DEF AirOK
<1>4. Read(Contacts).name = "read" /\ Read(Contacts).reads = Contacts
  BY CommandIs
<1>5. Ends(Read(Contacts), air[i])
  BY <1>1, <1>2, <1>3 DEF Hears
<1>6. air[i].kind \in {"ok", "err", "info", "contact", "end"}
  BY <1>3 DEF FrameType
<1>7. air[i].kind \notin {"ok", "err"}
  BY <1>4, <1>5, Asked DEF Ends
<1>8. air[i].kind # "info"
  <2> SUFFICES ASSUME air[i].kind = "info" PROVE FALSE
    OBVIOUS
  <2>1. DOMAIN air[i].data = Contacts
    BY <1>4, <1>5 DEF Ends
  <2> QED
    BY <1>3, <2>1, Asked DEF FrameOK
<1> QED
  BY <1>2, <1>6, <1>7, <1>8

\* What has been sent to a job that did not wait fails if it is refused, and only then.
LEMMA Refusal ==
  ASSUME Base, Settled, NEW j \in Jobs, Sending(j)
  PROVE  \E n \in DOMAIN air' : /\ n \notin DOMAIN air /\ air'[n].for = j /\ n = Len(air') /\ Len(air') \in Nat /\ DOMAIN air' = 1..Len(air')
                                /\ (air'[n].kind = "err" <=> Failing(j)') /\ (Failing(j)' => radio' = radio)
                                /\ (Sent(j)' <=> ~Failing(j)')
                                /\ ~Failing(j)' => \A x \in Items : radio'[x] = IF x \in DOMAIN job'[j].todo[1].writes THEN job'[j].todo[1].writes[x] ELSE radio[x]
                                /\ \A i \in DOMAIN air' : i \notin DOMAIN air /\ i # n => air'[i].kind = "contact"
<1>1. \A i \in DOMAIN air : air[i].for # j
  BY SendingAir DEF Settled
<1>2. job'[j].pc = "waits" /\ job'[j].live /\ Answers(j, job'[j].todo[1])
  BY SendingJob
<1>3. PICK n : n = Len(air')
  OBVIOUS
<1>4. /\ n \in DOMAIN air' /\ n \notin DOMAIN air /\ air'[n].for = j /\ Len(air') \in Nat /\ DOMAIN air' = 1..Len(air')
      /\ (air'[n].kind = "err" => radio' = radio)
      /\ air'[n].kind # "err" => \A x \in Items : radio'[x] = IF x \in DOMAIN job'[j].todo[1].writes THEN job'[j].todo[1].writes[x] ELSE radio[x]
      /\ \A i \in DOMAIN air' : i \notin DOMAIN air /\ i # n => air'[i].kind = "contact"
      /\ \A i \in DOMAIN air : air'[i] = air[i]
  BY <1>2, <1>3 DEF Answers
<1>5. air'[n].kind = "err" <=> Failing(j)'
  <2>1. ASSUME NEW i \in DOMAIN air', air'[i].for = j, air'[i].kind = "err" PROVE air'[n].kind = "err"
    <3>1. i \notin DOMAIN air
      BY <1>1, <1>4, <2>1
    <3> QED
      BY <1>4, <2>1, <3>1
  <2> QED
    BY <1>2, <1>4, <2>1 DEF Failing
<1>6. Sent(j)' <=> ~Failing(j)'
  BY <1>2 DEF Sent
<1> QED
  BY <1>3, <1>4, <1>5, <1>6

LEMMA SendingElsewhere ==
  ASSUME Base, ContactsOK, NEW j \in Jobs, Sending(j), Elsewhere(j), Elsewhere(j)', SameContacts
  PROVE  ContactsOK'
<1>1. /\ UNCHANGED <<store, linkState>> /\ job'[j].kind = job[j].kind /\ \A k \in Jobs : k # j => job'[k] = job[k]
  BY SendingJob
<1>2. job'[Sync].kind = job[Sync].kind
  BY <1>1 DEF Jobs
<1>3. Undisturbed(j)
  BY UndisturbedSending
<1> QED
  BY <1>1, <1>2, <1>3, ContactsElsewhere

LEMMA SendingOther ==
  ASSUME Base, ContactsOK, NEW j \in Jobs, Sending(j), job[j].kind \notin {"remove", "contacts", "import"}
  PROVE  ContactsOK'
<1>1. Elsewhere(j)
  BY ContactJob DEF Elsewhere
<1>2. job'[j] \in JobType /\ Shape(job'[j]) /\ job'[j].todo # <<>> /\ job'[j].kind = job[j].kind
  BY SendingJob
<1>3. /\ job'[j].kind \in {"set", "remove", "settings", "plain"} => job'[j].todo[1].name = "write"
      /\ job'[j].kind = "self" => job'[j].todo[1].reads = SettingKeys
      /\ job'[j].kind = "contacts" => job'[j].todo[1] = Read(Contacts)
      /\ job'[j].kind = "channels" => \E s \in SlotSet : job'[j].todo[1] = Read({s}) /\ job'[j].todo[1].reads = {s}
      /\ job'[j].kind = "import" => job'[j].todo[1] = Write(job'[j].patch) \/ job'[j].todo[1] = Read(Contacts)
  BY <1>2, FirstCommand
<1>4. Read(Contacts).name = "read" /\ Read(Contacts).reads = Contacts
  BY CommandIs
<1>5. job'[j].kind \in {"set", "settings", "plain", "self", "channels"}
  BY <1>2 DEF JobType, Kinds, Channel
<1>6. job'[j].todo[1] # Read(Contacts)
  BY <1>3, <1>4, <1>5, Asked
<1>7. Elsewhere(j)'
  BY <1>5, <1>6 DEF Elsewhere, Imports, Removes, Scans
<1>8. SameContacts
  <2>1. \A c \in Contacts : c \in Items /\ c \notin SlotSet /\ c \notin SettingKeys
    BY ItemsAre
  <2> QED
    BY <2>1, RadioChanged DEF SameContacts
<1> QED
  BY <1>1, <1>7, <1>8, SendingElsewhere

LEMMA SendingRemoval ==
  ASSUME Base, Settled, ContactsOK, NEW j \in Jobs, Sending(j), job[j].kind = "remove"
  PROVE  ContactsOK'
<1>1. /\ job'[j] \in JobType /\ Shape(job'[j]) /\ job'[j].kind = "remove" /\ job'[j].patch = job[j].patch /\ job'[j].pc = "waits"
      /\ UNCHANGED <<store, linkState>> /\ job[j].pc # "idle" /\ \A k \in Jobs : k # j => job'[k] = job[k]
  BY SendingJob
<1>2. Undisturbed(j)
  BY UndisturbedSending
<1>3. DOMAIN job[j].patch \subseteq Contacts /\ (\A c \in DOMAIN job[j].patch : job[j].patch[c] = None) /\ job'[j].todo = <<Write(job'[j].patch)>>
  BY <1>1 DEF Shape
<1>4. PICK cmd : cmd = job'[j].todo[1]
  OBVIOUS
<1>5. cmd = Write(job[j].patch) /\ cmd.writes = job[j].patch /\ cmd.name = "write"
  <2>1. cmd = Write(job'[j].patch)
    BY <1>3, <1>4
  <2> QED
    BY <1>1, <2>1, CommandIs
<1>6. job[j].pc = "queued"
  <2>1. job[j] \in JobType /\ Shape(job[j])
    BY <1>1, BaseJob
  <2>2. ~Several(job[j].todo)
    BY <2>1, Singles
  <2> QED
    BY <2>2 DEF Sending
<1>7. Elsewhere(j)
  BY <1>6 DEF Elsewhere, Imports, Removes, Scans, Sent
<1>8. ~Imports(j)' /\ ~Scans(j)'
  <2>1. cmd # Read(Contacts)
    BY <1>5, CommandIs
  <2> QED
    BY <1>1, <1>4, <2>1 DEF Imports, Scans
<1>9. PICK n \in DOMAIN air' : /\ n \notin DOMAIN air /\ air'[n].for = j /\ n = Len(air') /\ Len(air') \in Nat /\ DOMAIN air' = 1..Len(air')
                               /\ (air'[n].kind = "err" <=> Failing(j)') /\ (Failing(j)' => radio' = radio)
                               /\ (Sent(j)' <=> ~Failing(j)')
                               /\ ~Failing(j)' => \A x \in Items : radio'[x] = IF x \in DOMAIN job'[j].todo[1].writes THEN job'[j].todo[1].writes[x] ELSE radio[x]
                               /\ \A i \in DOMAIN air' : i \notin DOMAIN air /\ i # n => air'[i].kind = "contact"
  BY Refusal
<1>10. CASE Failing(j)'
  <2>1. SameContacts
    BY <1>9, <1>10 DEF SameContacts
  <2>2. Elsewhere(j)'
    BY <1>8, <1>10 DEF Elsewhere, Removes, Sent
  <2> QED
    BY <1>7, <2>1, <2>2, SendingElsewhere
<1>11. CASE ~Failing(j)'
  <2>1. Removes(j)'
    BY <1>1, <1>9, <1>11 DEF Removes
  <2>2. \A c \in Contacts : radio'[c] = IF c \in DOMAIN job[j].patch THEN None ELSE radio[c]
    <3> SUFFICES ASSUME NEW c \in Contacts PROVE radio'[c] = IF c \in DOMAIN job[j].patch THEN None ELSE radio[c]
      OBVIOUS
    <3>1. c \in Items
      BY ItemsAre
    <3>2. radio'[c] = IF c \in DOMAIN cmd.writes THEN cmd.writes[c] ELSE radio[c]
      BY <1>4, <1>9, <1>11, <3>1
    <3> QED
      BY <1>3, <1>5, <3>2
  <2>3. \A k \in Jobs : k # j => (Imports(k)' <=> Imports(k)) /\ (Removes(k)' <=> Removes(k)) /\ (Scans(k)' <=> Scans(k)) /\ job'[k] = job[k]
    BY <1>2 DEF Undisturbed
  <2>4. ~Imports(j) /\ ~Removes(j) /\ ~Scans(j)
    BY <1>7 DEF Elsewhere
  <2>5. ASSUME NEW w \in Jobs, w # j, Removes(w) PROVE DOMAIN job[w].patch \subseteq Contacts
    BY <2>5, ContactJob
  <2>6. ASSUME NEW s \in Jobs, s # j, Scans(s) PROVE Behind(s, j)'
    <3>1. CASE job[s].pc = "answered"
      BY <2>3, <2>6, <3>1 DEF Behind
    <3>2. CASE job[s].pc # "answered"
      <4>1. PICK i \in DOMAIN air : air[i].for = s /\ air[i].kind = "end"
        BY <2>6, <3>2, EndComes DEF Settled
      <4>2. Answers(j, job'[j].todo[1])
        BY SendingJob
      <4>3. i \in DOMAIN air' /\ air'[i] = air[i] /\ i < n
        BY <1>9, <4>2 DEF Answers
      <4> QED
        BY <1>9, <4>1, <4>3 DEF Behind
    <3> QED
      BY <3>1, <3>2
  <2> SUFFICES ASSUME \A k \in Jobs : ~Imports(k)
               PROVE  /\ \A s \in Jobs : s # j /\ Scans(s) => Listing(s)'
                      /\ (\A s \in Jobs : ~Scans(s)) => ContactsSaved' /\ Gone'
    BY <1>8, <2>3, <2>4 DEF ContactsOK
  <2>7. ASSUME NEW s \in Jobs, s # j, Scans(s) PROVE Listing(s)'
    <3>1. Listing(s) /\ Behind(s, j)'
      BY <2>6, <2>7 DEF ContactsOK
    <3>2. \A w \in Jobs : w # j => (Behind(s, w)' <=> Behind(s, w))
      BY <1>2, <2>7 DEF Undisturbed
    <3>3. ASSUME NEW c \in Contacts PROVE Lists(s, c)' \/ \E w \in Jobs : Removes(w)' /\ Behind(s, w)' /\ c \in DOMAIN job'[w].patch
      <4>1. CASE c \in DOMAIN job[j].patch
        BY <1>1, <2>1, <3>1, <4>1
      <4>2. CASE c \notin DOMAIN job[j].patch
        <5>1. Lists(s, c) => Lists(s, c)'
          BY <1>2, <2>2, <2>7, <4>2 DEF Undisturbed
        <5>2. Lists(s, c) \/ \E w \in Jobs : Removes(w) /\ Behind(s, w) /\ c \in DOMAIN job[w].patch
          BY <3>1 DEF Listing
        <5> QED
          BY <2>3, <2>4, <3>2, <5>1, <5>2
      <4> QED
        BY <4>1, <4>2
    <3>4. ASSUME NEW w \in Jobs, Removes(w)', Behind(s, w)', NEW c \in DOMAIN job'[w].patch PROVE radio'[c] = None
      <4>1. CASE w = j
        BY <1>1, <1>3, <2>2, <3>4, <4>1
      <4>2. CASE w # j
        <5>1. Removes(w) /\ Behind(s, w) /\ c \in DOMAIN job[w].patch /\ c \in Contacts
          BY <2>3, <2>5, <3>2, <3>4, <4>2
        <5>2. radio[c] = None
          BY <3>1, <5>1 DEF Listing
        <5> QED
          BY <2>2, <5>1, <5>2
      <4> QED
        BY <4>1, <4>2
    <3> QED
      BY <3>3, <3>4 DEF Listing
  <2>8. ASSUME \A s \in Jobs : ~Scans(s) PROVE ContactsSaved' /\ Gone'
    <3>1. ContactsSaved /\ Gone
      BY <2>8 DEF ContactsOK
    <3>2. ContactsSaved'
      <4> SUFFICES ASSUME linkState' = "connected" \/ job'[Sync].kind = "channels", NEW c \in Contacts
                   PROVE  store'[c] = radio'[c] \/ \E w \in Jobs : Removes(w)' /\ c \in DOMAIN job'[w].patch
        BY DEF ContactsSaved
      <4>1. CASE c \in DOMAIN job[j].patch
        BY <1>1, <2>1, <4>1
      <4>2. CASE c \notin DOMAIN job[j].patch
        <5>1. Sync # j => job'[Sync] = job[Sync]
          BY <1>1 DEF Jobs
        <5>2. store[c] = radio[c] \/ \E w \in Jobs : Removes(w) /\ c \in DOMAIN job[w].patch
          BY <1>1, <3>1, <5>1 DEF ContactsSaved
        <5> QED
          BY <1>1, <2>2, <2>3, <2>4, <4>2, <5>2
      <4> QED
        BY <4>1, <4>2
    <3>3. Gone'
      <4> SUFFICES ASSUME NEW w \in Jobs, Removes(w)', NEW c \in DOMAIN job'[w].patch PROVE radio'[c] = None
        BY DEF Gone
      <4>1. CASE w = j
        BY <1>1, <1>3, <2>2, <4>1
      <4>2. CASE w # j
        <5>1. Removes(w) /\ c \in DOMAIN job[w].patch /\ c \in Contacts
          BY <2>3, <2>5, <4>2
        <5>2. radio[c] = None
          BY <3>1, <5>1 DEF Gone
        <5> QED
          BY <2>2, <5>1, <5>2
      <4> QED
        BY <4>1, <4>2
    <3> QED
      BY <3>2, <3>3
  <2> QED
    BY <2>7, <2>8
<1> QED
  BY <1>10, <1>11

\* The contact is written first.
LEMMA SendingImport ==
  ASSUME Base, Settled, ContactsOK, NEW j \in Jobs, Sending(j), job[j].kind = "import", job[j].pc = "queued"
  PROVE  ContactsOK'
<1>1. /\ job'[j] \in JobType /\ job'[j].kind = "import" /\ job'[j].patch = job[j].patch /\ job[j].pc # "idle"
  BY SendingJob
<1>2. job'[j].todo = <<Write(job[j].patch), Read(Contacts)>>
  <2>1. job'[j].todo = job[j].todo
    BY DEF Sending
  <2>2. Shape(job[j])
    BY <1>1, BaseJob
  <2> QED
    BY <2>1, <2>2 DEF Shape
<1>3. job'[j].todo[1] = Write(job[j].patch)
  BY <1>2
<1>4. PICK cmd : cmd = job'[j].todo[1]
  OBVIOUS
<1>5. cmd = Write(job[j].patch) /\ cmd.name = "write" /\ cmd # Read(Contacts)
  <2>1. cmd = Write(job[j].patch)
    BY <1>3, <1>4
  <2> QED
    BY <2>1, CommandIs
<1>6. PICK n \in DOMAIN air' : /\ n \notin DOMAIN air /\ air'[n].for = j /\ n = Len(air') /\ Len(air') \in Nat /\ DOMAIN air' = 1..Len(air')
                               /\ (air'[n].kind = "err" <=> Failing(j)') /\ (Failing(j)' => radio' = radio)
                               /\ (Sent(j)' <=> ~Failing(j)')
                               /\ ~Failing(j)' => \A x \in Items : radio'[x] = IF x \in DOMAIN job'[j].todo[1].writes THEN job'[j].todo[1].writes[x] ELSE radio[x]
                               /\ \A i \in DOMAIN air' : i \notin DOMAIN air /\ i # n => air'[i].kind = "contact"
  BY Refusal
<1>7. CASE ~Failing(j)'
  <2>1. Imports(j)'
    BY <1>1, <1>4, <1>5, <1>6, <1>7 DEF Imports
  <2> QED
    BY <2>1 DEF ContactsOK
<1>8. CASE Failing(j)'
  <2>1. SameContacts
    BY <1>6, <1>8 DEF SameContacts
  <2>2. Elsewhere(j)
    BY DEF Elsewhere, Imports, Removes, Scans, Sent
  <2>3. Elsewhere(j)'
    BY <1>1, <1>4, <1>5, <1>8 DEF Elsewhere, Imports, Removes, Scans, Sent
  <2> QED
    BY <2>1, <2>2, <2>3, SendingElsewhere
<1> QED
  BY <1>7, <1>8

\* The contacts are asked for.
LEMMA SendingScan ==
  ASSUME Base, Settled, ContactsOK, ~Doomed', NEW j \in Jobs, Sending(j), job'[j].todo[1] = Read(Contacts), DOMAIN job[j].got = {},
         job[j].kind # "remove", Imports(j) => job[j].pc = "answered"
  PROVE  ContactsOK'
<1>1. /\ job'[j].kind = job[j].kind /\ job'[j].got = job[j].got /\ job'[j].pc = "waits" /\ job'[j].live
      /\ Answers(j, Read(Contacts)) /\ \A k \in Jobs : k # j => job'[k] = job[k]
  BY SendingJob
<1>2. Read(Contacts).name = "read" /\ Read(Contacts).reads = Contacts
  BY CommandIs
<1>3. Undisturbed(j)
  BY UndisturbedSending
<1>4. radio' = radio
  BY <1>1, <1>2 DEF Answers
<1>5. Scans(j)' /\ ~Imports(j)' /\ ~Removes(j)' /\ ~Removes(j)
  BY <1>1, <1>2 DEF Scans, Imports, Removes
<1>6. \A k \in Jobs : k # j => (Imports(k)' <=> Imports(k)) /\ (Removes(k)' <=> Removes(k)) /\ (Scans(k)' <=> Scans(k)) /\ job'[k] = job[k]
  BY <1>3 DEF Undisturbed
<1>7. \A i \in DOMAIN air : air[i].for # j
  BY SendingAir DEF Settled
<1>8. /\ DOMAIN air' = 1..Len(air') /\ Len(air') \in Nat /\ (\A i \in DOMAIN air : air'[i] = air[i])
      /\ \A i \in DOMAIN air' : i \notin DOMAIN air =>
           /\ air'[i].for = j
           /\ i # Len(air') => air'[i].kind = "contact"
           /\ \A x \in DOMAIN air'[i].data : air'[i].data[x] = radio'[x]
      /\ \A x \in Contacts : radio[x] = None \/ \E i \in DOMAIN air' : i \notin DOMAIN air /\ x \in DOMAIN air'[i].data
  BY <1>1, <1>2 DEF Answers
<1>9. \A c \in Contacts : Lists(j, c)'
  <2> SUFFICES ASSUME NEW c \in Contacts PROVE Lists(j, c)'
    OBVIOUS
  <2>1. \A i \in DOMAIN air' : air'[i].for = j => i \notin DOMAIN air
    BY <1>7, <1>8
  <2>2. c \notin DOMAIN job'[j].got
    BY <1>1
  <2>3. \A i \in DOMAIN air' : air'[i].for = j /\ c \in DOMAIN air'[i].data => air'[i].data[c] = radio'[c]
    BY <1>8, <2>1
  <2>4. radio'[c] = None \/ \E i \in DOMAIN air' : air'[i].for = j /\ c \in DOMAIN air'[i].data
    BY <1>4, <1>8
  <2> QED
    BY <2>2, <2>3, <2>4 DEF Lists
<1>10. \A w \in Jobs : ~Behind(j, w)'
  <2> SUFFICES ASSUME NEW w \in Jobs, NEW i \in DOMAIN air', NEW k \in DOMAIN air', i < k, air'[i].for = j, air'[i].kind = "end" PROVE FALSE
    BY <1>1 DEF Behind
  <2>1. i \notin DOMAIN air /\ i = Len(air')
    BY <1>7, <1>8
  <2> QED
    BY <1>8, <2>1
<1>11. Listing(j)'
  BY <1>9, <1>10 DEF Listing
<1> SUFFICES ASSUME \A k \in Jobs : k # j => ~Imports(k), NEW s \in Jobs, s # j, Scans(s) PROVE Listing(s)'
  BY <1>5, <1>6, <1>11 DEF ContactsOK
\* No other scan waits, and if a contact has just been written none has ended.
<1>12. job[s].pc = "answered"
  <2> SUFFICES ASSUME job[s].pc # "answered" PROVE FALSE
    OBVIOUS
  <2>1. job[s].pc = "waits" /\ job[s].live /\ job[s].todo[1] = Read(Contacts)
    BY DEF Scans
  <2>2. Doomed'
    BY <1>1, <2>1 DEF Doomed, Waits
  <2> QED
    BY <2>2
<1>13. ~Imports(j)
  BY <1>12 DEF Settled, OneDue
<1>14. Listing(s)
  BY <1>13 DEF ContactsOK
<1>15. \A w \in Jobs : w # j => (Behind(s, w)' <=> Behind(s, w))
  BY <1>3 DEF Undisturbed
<1>16. ASSUME NEW c \in Contacts PROVE Lists(s, c)' \/ \E w \in Jobs : Removes(w)' /\ Behind(s, w)' /\ c \in DOMAIN job'[w].patch
  <2>1. Lists(s, c) => Lists(s, c)'
    BY <1>3, <1>4 DEF Undisturbed
  <2>2. Lists(s, c) \/ \E w \in Jobs : Removes(w) /\ Behind(s, w) /\ c \in DOMAIN job[w].patch
    BY <1>14 DEF Listing
  <2> QED
    BY <1>5, <1>6, <1>15, <2>1, <2>2
<1>17. ASSUME NEW w \in Jobs, Removes(w)', Behind(s, w)', NEW c \in DOMAIN job'[w].patch PROVE radio'[c] = None
  <2>1. w # j
    BY <1>5, <1>17
  <2> QED
    BY <1>4, <1>6, <1>14, <1>15, <1>17, <2>1 DEF Listing
<1> QED
  BY <1>16, <1>17 DEF Listing

LEMMA ContactsSending ==
  ASSUME Base, Settled, ContactsOK, ~Doomed', NEW j \in Jobs, Sending(j)
  PROVE  ContactsOK'
<1>1. /\ job'[j] \in JobType /\ Shape(job'[j]) /\ job'[j].todo # <<>> /\ job'[j].kind = job[j].kind /\ job[j].pc # "idle"
      /\ job'[j].got = job[j].got /\ job'[j].patch = job[j].patch
  BY SendingJob
<1>2. job[j] \in JobType /\ Shape(job[j])
  BY <1>1, BaseJob
<1>3. (job[j].pc = "queued" /\ job'[j].todo = job[j].todo) \/ (job[j].pc = "answered" /\ Several(job[j].todo) /\ job'[j].todo = Tail(job[j].todo))
  BY DEF Sending
<1>4. CASE job[j].kind = "remove"
  BY <1>4, SendingRemoval
<1>5. CASE job[j].kind = "contacts"
  <2>1. job[j].pc = "queued"
    BY <1>2, <1>3, <1>5, Singles
  <2>2. DOMAIN job[j].got = {}
    BY <1>2, <2>1, NothingIs DEF Shape
  <2>3. job'[j].todo = <<Read(Contacts)>>
    BY <1>1, <1>5 DEF Shape
  <2>4. job'[j].todo[1] = Read(Contacts)
    BY <2>3
  <2> QED
    BY <1>5, <2>2, <2>4, SendingScan DEF Imports
<1>6. CASE job[j].kind = "import" /\ job[j].pc = "queued"
  BY <1>6, SendingImport
<1>7. CASE job[j].kind = "import" /\ job[j].pc # "queued"
  <2>1. job[j].pc = "answered" /\ Several(job[j].todo) /\ job'[j].todo = Tail(job[j].todo)
    BY <1>3, <1>7
  <2>2. job[j].todo = <<Write(job[j].patch), Read(Contacts)>>
    BY <1>2, <1>7, <2>1, Singles
  <2>3. job'[j].todo = <<Read(Contacts)>>
    <3>1. job'[j].todo = Tail(<<Write(job[j].patch), Read(Contacts)>>)
      BY <2>1, <2>2
    <3> QED
      BY <3>1, TailOfTwo
  <2>4. job'[j].todo[1] = Read(Contacts)
    BY <2>3
  <2>5. DOMAIN job[j].got = {}
    <3>1. job[j].todo # <<Read(Contacts)>>
      <4>1. Len(<<Write(job[j].patch), Read(Contacts)>>) = 2 /\ Len(<<Read(Contacts)>>) = 1
        OBVIOUS
      <4> QED
        BY <2>2, <4>1
    <3>2. job[j].got = Nothing
      BY <1>2, <1>7, <3>1 DEF Shape
    <3> QED
      BY <3>2, NothingIs
  <2> QED
    BY <1>7, <2>1, <2>4, <2>5, SendingScan
<1>8. CASE job[j].kind \notin {"remove", "contacts", "import"}
  BY <1>8, SendingOther
<1> QED
  BY <1>4, <1>5, <1>6, <1>7, <1>8

LEMMA HearingElsewhere ==
  ASSUME Base, AirOK, ContactsOK, NEW f \in FrameType, Hearing(f), clean', NEW j, j = f.for, Elsewhere(j), Elsewhere(j)'
  PROVE  ContactsOK'
<1>1. j \in Jobs /\ Undisturbed(j)
  BY UndisturbedHearing
<1>2. UNCHANGED <<radio, store, linkState>> /\ \A k \in Jobs : job'[k].kind = job[k].kind
  BY DEF Hearing
<1>3. job'[Sync].kind = job[Sync].kind
  BY <1>2 DEF Jobs
<1> QED
  BY <1>1, <1>2, <1>3, ContactsElsewhere DEF SameContacts

\* The answer to a removal.
LEMMA HearingRemoval ==
  ASSUME Base, AirOK, OneDue, ContactsOK, NEW f \in FrameType, Hearing(f), clean', NEW j, j = f.for, job[j].kind = "remove"
  PROVE  ContactsOK'
<1>1. j \in Jobs /\ Undisturbed(j)
  BY UndisturbedHearing
<1>2. /\ job[j].pc = "waits" /\ job[j].live /\ job'[j].live /\ f = air[1] /\ 1 \in DOMAIN air
      /\ job'[j].kind = job[j].kind /\ job'[j].patch = job[j].patch /\ job'[j].todo = job[j].todo
      /\ job'[j].pc = IF ~Ends(job[j].todo[1], f) THEN "waits" ELSE IF f.kind = "err" THEN "refused" ELSE "answered"
      /\ f.kind # "contact" => \A i \in DOMAIN air : i # 1 => air[i].for # j
      /\ f.kind # "err" /\ ~Failing(j)' => Sent(j)
  BY HearingJob
<1>3. UNCHANGED <<radio, store, linkState>> /\ \A k \in Jobs : job'[k].kind = job[k].kind
  BY DEF Hearing
<1>4. /\ DOMAIN air = 1..Len(air) /\ Len(air) \in Nat /\ DOMAIN air' = 1..(Len(air) - 1)
      /\ (\A i \in DOMAIN air' : i + 1 \in DOMAIN air /\ air'[i] = air[i + 1])
      /\ \A k \in Jobs : job[k].pc \notin {"answered", "refused"}
  BY DEF Hearing
<1>5. job[j].todo[1].name = "write"
  <2>1. job[j] \in JobType /\ Shape(job[j]) /\ job[j].todo # <<>>
    BY <1>1, <1>2, BaseJob
  <2> QED
    BY <2>1, FirstCommand
<1>6. f.kind \in {"ok", "err"}
  BY <1>5, HeardBy
<1>7. ~Scans(j) /\ ~Imports(j) /\ ~Scans(j)' /\ ~Imports(j)'
  BY <1>2, <1>5, CommandIs DEF Scans, Imports
<1>8. \A i \in DOMAIN air' : air'[i].for # j
  BY <1>2, <1>4, <1>6
<1>9. CASE f.kind = "err"
  <2>1. Failing(j)
    BY <1>2, <1>9 DEF Failing
  <2>2. job'[j].pc = "refused"
    BY <1>2, <1>5, <1>9 DEF Ends
  <2>3. Elsewhere(j) /\ Elsewhere(j)'
    BY <1>7, <2>1, <2>2 DEF Elsewhere, Removes, Sent
  <2> QED
    BY <2>3, HearingElsewhere
<1>10. CASE f.kind = "ok"
  <2>1. job'[j].pc = "answered"
    BY <1>2, <1>5, <1>10 DEF Ends
  <2>2. ~Failing(j)' /\ Sent(j)'
    BY <1>2, <1>8, <2>1 DEF Failing, Sent
  <2>3. Removes(j) /\ Removes(j)'
    BY <1>2, <1>10, <2>2 DEF Removes
  <2>4. \A k \in Jobs : /\ (Imports(k)' <=> Imports(k)) /\ (Removes(k)' <=> Removes(k)) /\ (Scans(k)' <=> Scans(k))
                        /\ Removes(k) => job'[k].patch = job[k].patch
    BY <1>1, <1>2, <1>7, <2>3 DEF Undisturbed
  <2>5. ASSUME NEW s \in Jobs, NEW w \in Jobs, Scans(s), Removes(w) PROVE Behind(s, w)' <=> Behind(s, w)
    <3>1. s # j
      BY <1>7, <2>5
    <3>2. CASE w # j
      BY <1>1, <3>1, <3>2 DEF Undisturbed
    <3>3. CASE w = j
      <4>1. job[s].pc # "answered" /\ job'[s].pc = job[s].pc
        BY <1>1, <1>4, <3>1 DEF Undisturbed
      <4>2. ~Behind(s, j)'
        BY <1>8, <4>1 DEF Behind
      <4>3. ~Behind(s, j)
        <5> SUFFICES ASSUME NEW i \in DOMAIN air, NEW k \in DOMAIN air, i < k, air[k].for = j PROVE FALSE
          BY <4>1 DEF Behind
        <5>1. k = 1
          BY <1>2, <1>6
        <5> QED
          BY <1>4, <5>1
      <4> QED
        BY <3>3, <4>2, <4>3
    <3> QED
      BY <3>2, <3>3
  <2>6. \A s \in Jobs : \A c \in Contacts : Scans(s) /\ Lists(s, c) => Lists(s, c)'
    BY <1>1, <1>3, <1>7 DEF Undisturbed
  <2>7. job'[Sync].kind = job[Sync].kind
    BY <1>3 DEF Jobs
  <2> QED
    BY <1>3, <2>4, <2>5, <2>6, <2>7, ContactsSame DEF SameContacts
<1> QED
  BY <1>6, <1>9, <1>10

\* The answer to an import: its scan has still to be done.
LEMMA HearingImport ==
  ASSUME Base, AirOK, OneDue, ContactsOK, NEW f \in FrameType, Hearing(f), clean', NEW j, j = f.for,
         job[j].kind = "import", job[j].todo[1].name = "write"
  PROVE  ContactsOK'
<1>1. /\ j \in Jobs /\ job[j].pc = "waits" /\ job[j].live /\ job'[j].live /\ f = air[1] /\ 1 \in DOMAIN air
      /\ job'[j].kind = job[j].kind /\ job'[j].todo = job[j].todo
      /\ job'[j].pc = IF ~Ends(job[j].todo[1], f) THEN "waits" ELSE IF f.kind = "err" THEN "refused" ELSE "answered"
      /\ f.kind # "contact" => \A i \in DOMAIN air : i # 1 => air[i].for # j
  BY HearingJob
<1>2. /\ DOMAIN air = 1..Len(air) /\ Len(air) \in Nat /\ DOMAIN air' = 1..(Len(air) - 1)
      /\ \A i \in DOMAIN air' : i + 1 \in DOMAIN air /\ air'[i] = air[i + 1]
  BY DEF Hearing
<1>3. f.kind \in {"ok", "err"}
  BY HeardBy
<1>4. CASE f.kind = "err"
  <2>1. Failing(j)
    BY <1>1, <1>4 DEF Failing
  <2>2. job'[j].pc = "refused"
    BY <1>1, <1>4 DEF Ends
  <2>3. ~Scans(j)
    BY CommandIs DEF Scans
  <2>4. Elsewhere(j) /\ Elsewhere(j)'
    BY <1>1, <2>1, <2>2, <2>3 DEF Elsewhere, Removes, Imports, Scans, Sent
  <2> QED
    BY <2>4, HearingElsewhere
<1>5. CASE f.kind = "ok"
  <2>1. job'[j].pc = "answered"
    BY <1>1, <1>5 DEF Ends
  <2>2. \A i \in DOMAIN air' : air'[i].for # j
    BY <1>1, <1>2, <1>3
  <2>3. Imports(j)'
    BY <1>1, <2>1, <2>2 DEF Imports, Sent, Failing
  <2> QED
    BY <1>1, <2>3 DEF ContactsOK
<1> QED
  BY <1>3, <1>4, <1>5

\* A contact of a list, or its end.
LEMMA HearingScan ==
  ASSUME Base, AirOK, OneDue, ContactsOK, NEW f \in FrameType, Hearing(f), clean', NEW j, j = f.for,
         job[j].todo[1] = Read(Contacts)
  PROVE  ContactsOK'
<1>1. j \in Jobs /\ Undisturbed(j)
  BY UndisturbedHearing
<1>2. /\ job[j].pc = "waits" /\ job[j].live /\ job'[j].live /\ f = air[1] /\ 1 \in DOMAIN air /\ FrameOK(f)
      /\ job'[j].kind = job[j].kind /\ job'[j].todo = job[j].todo
      /\ job'[j].pc = IF ~Ends(job[j].todo[1], f) THEN "waits" ELSE IF f.kind = "err" THEN "refused" ELSE "answered"
      /\ \A x : /\ x \in DOMAIN job'[j].got <=> x \in DOMAIN f.data \/ x \in DOMAIN job[j].got
                /\ x \in DOMAIN f.data => job'[j].got[x] = f.data[x]
                /\ x \in DOMAIN job[j].got /\ x \notin DOMAIN f.data => job'[j].got[x] = job[j].got[x]
      /\ f.kind # "contact" => \A i \in DOMAIN air : i # 1 => air[i].for # j
  BY HearingJob
<1>3. UNCHANGED <<radio, store, linkState>> /\ \A k \in Jobs : job'[k].kind = job[k].kind
  BY DEF Hearing
<1>4. /\ DOMAIN air = 1..Len(air) /\ Len(air) \in Nat /\ DOMAIN air' = 1..(Len(air) - 1)
      /\ (\A i \in DOMAIN air' : i + 1 \in DOMAIN air /\ air'[i] = air[i + 1])
      /\ (\A i \in DOMAIN air : i # 1 => i - 1 \in DOMAIN air' /\ air'[i - 1] = air[i])
      /\ \A k \in Jobs : job[k].pc \notin {"answered", "refused"}
  BY DEF Hearing
<1>5. Read(Contacts).name = "read" /\ Read(Contacts).reads = Contacts
  BY CommandIs
<1>6. f.kind \in {"contact", "end"}
  BY <1>5, HeardBy
<1>7. job'[j].pc = IF f.kind = "end" THEN "answered" ELSE "waits"
  BY <1>2, <1>5, <1>6 DEF Ends
<1>8. Scans(j) /\ Scans(j)'
  BY <1>2, <1>7 DEF Scans
<1>9. ~Imports(j) /\ ~Imports(j)' /\ ~Removes(j) /\ ~Removes(j)'
  <2>1. job[j].kind \in {"contacts", "import"} /\ ~Imports(j)
    BY <1>1, <1>8, ContactJob
  <2> QED
    BY <1>2, <1>5, <2>1 DEF Imports, Removes
<1>10. \A k \in Jobs : /\ (Imports(k)' <=> Imports(k)) /\ (Removes(k)' <=> Removes(k)) /\ (Scans(k)' <=> Scans(k))
                       /\ Removes(k) => job'[k].patch = job[k].patch
  BY <1>1, <1>8, <1>9 DEF Undisturbed
<1>11. ASSUME NEW c \in Contacts, Lists(j, c) PROVE Lists(j, c)'
  <2>1. /\ c \in DOMAIN job[j].got => job[j].got[c] = radio[c]
        /\ \A i \in DOMAIN air : air[i].for = j /\ c \in DOMAIN air[i].data => air[i].data[c] = radio[c]
        /\ \/ c \in DOMAIN job[j].got \/ radio[c] = None
           \/ \E i \in DOMAIN air : air[i].for = j /\ c \in DOMAIN air[i].data
    BY <1>11 DEF Lists
  <2>2. c \in DOMAIN job'[j].got => job'[j].got[c] = radio'[c]
    BY <1>2, <1>3, <2>1
  <2>3. \A i \in DOMAIN air' : air'[i].for = j /\ c \in DOMAIN air'[i].data => air'[i].data[c] = radio'[c]
    BY <1>3, <1>4, <2>1
  <2>4. \/ c \in DOMAIN job'[j].got \/ radio'[c] = None
        \/ \E i \in DOMAIN air' : air'[i].for = j /\ c \in DOMAIN air'[i].data
    <3>1. ASSUME NEW i \in DOMAIN air, air[i].for = j, c \in DOMAIN air[i].data
          PROVE  c \in DOMAIN job'[j].got \/ \E k \in DOMAIN air' : air'[k].for = j /\ c \in DOMAIN air'[k].data
      <4>1. CASE i = 1
        BY <1>2, <3>1, <4>1
      <4>2. CASE i # 1
        BY <1>4, <3>1, <4>2
      <4> QED
        BY <4>1, <4>2
    <3> QED
      BY <1>2, <1>3, <2>1, <3>1
  <2> QED
    BY <2>2, <2>3, <2>4 DEF Lists
<1>12. ASSUME NEW w \in Jobs, Removes(w) PROVE Behind(j, w)' <=> Behind(j, w)
  <2>1. w # j /\ job[w].pc = "waits" /\ job[w].live
    BY <1>4, <1>9, <1>12 DEF Removes, Sent
  <2>2. CASE f.kind = "end"
    <3>1. Behind(j, w)'
      BY <1>7, <2>2 DEF Behind
    <3>2. PICK m \in DOMAIN air : air[m].for = w
      BY <2>1 DEF AirOK, Waits
    <3>3. 1 < m
      BY <1>2, <1>4, <2>1, <3>2
    <3>4. Behind(j, w)
      BY <1>2, <2>2, <3>2, <3>3 DEF Behind
    <3> QED
      BY <3>1, <3>4
  <2>3. CASE f.kind = "contact"
    <3>1. job[j].pc # "answered" /\ job'[j].pc # "answered"
      BY <1>2, <1>7, <2>3
    <3>2. ASSUME NEW i \in DOMAIN air', NEW k \in DOMAIN air', i < k, air'[i].for = j, air'[i].kind = "end", air'[k].for = w
          PROVE  \E m, n \in DOMAIN air : m < n /\ air[m].for = j /\ air[m].kind = "end" /\ air[n].for = w
      <4>1. i + 1 \in DOMAIN air /\ k + 1 \in DOMAIN air /\ i + 1 < k + 1
        BY <1>4, <3>2
      <4> QED
        BY <1>4, <3>2, <4>1
    <3>3. ASSUME NEW i \in DOMAIN air, NEW k \in DOMAIN air, i < k, air[i].for = j, air[i].kind = "end", air[k].for = w
          PROVE  \E m, n \in DOMAIN air' : m < n /\ air'[m].for = j /\ air'[m].kind = "end" /\ air'[n].for = w
      <4>1. i # 1 /\ k # 1
        BY <1>2, <1>4, <2>1, <2>3, <3>3
      <4>2. i - 1 \in DOMAIN air' /\ k - 1 \in DOMAIN air' /\ i - 1 < k - 1
        BY <1>4, <3>3, <4>1
      <4> QED
        BY <1>4, <3>3, <4>1, <4>2
    <3> QED
      BY <3>1, <3>2, <3>3 DEF Behind
  <2> QED
    BY <1>6, <2>2, <2>3
<1>13. \A s, w \in Jobs : Scans(s) /\ Removes(w) => (Behind(s, w)' <=> Behind(s, w))
  BY <1>1, <1>9, <1>12 DEF Undisturbed
<1>14. \A s \in Jobs : \A c \in Contacts : Scans(s) /\ Lists(s, c) => Lists(s, c)'
  BY <1>1, <1>3, <1>11 DEF Undisturbed
<1>15. job'[Sync].kind = job[Sync].kind
  BY <1>3 DEF Jobs
<1> QED
  BY <1>3, <1>10, <1>13, <1>14, <1>15, ContactsSame DEF SameContacts

LEMMA ContactsHearing ==
  ASSUME Base, AirOK, OneDue, ContactsOK, NEW f \in FrameType, Hearing(f), clean'
  PROVE  ContactsOK'
<1>1. PICK j \in Jobs : j = f.for
  BY HearingOne
<1>2. /\ job[j].pc = "waits" /\ job'[j].kind = job[j].kind /\ job'[j].todo = job[j].todo
      /\ f.kind # "err" /\ ~Failing(j)' => Sent(j)
  BY <1>1, HearingJob
<1>3. job[j] \in JobType /\ Shape(job[j]) /\ job[j].todo # <<>>
  BY <1>2, BaseJob
<1>4. CASE job[j].kind = "remove"
  BY <1>1, <1>4, HearingRemoval
<1>5. CASE job[j].todo[1] = Read(Contacts)
  BY <1>1, <1>5, HearingScan
<1>6. CASE job[j].kind = "import" /\ job[j].todo[1] # Read(Contacts)
  <2>1. job[j].todo[1] = Write(job[j].patch)
    BY <1>3, <1>6, FirstCommand
  <2>2. job[j].todo[1].name = "write"
    BY <2>1, CommandIs
  <2> QED
    BY <1>1, <1>6, <2>2, HearingImport
<1>7. CASE job[j].kind \notin {"remove", "import"} /\ job[j].todo[1] # Read(Contacts)
  <2>1. Elsewhere(j) /\ Elsewhere(j)'
    BY <1>2, <1>7 DEF Elsewhere, Imports, Removes, Scans
  <2> QED
    BY <1>1, <2>1, HearingElsewhere
<1> QED
  BY <1>4, <1>5, <1>6, <1>7

LEMMA ContactsSteps ==
  ASSUME Base, Linked => Settled /\ (Doomed \/ ContactsOK), Steps, Linked'
  PROVE  Doomed' \/ ContactsOK'
<1>1. CASE Opening
  <2>1. /\ air' = <<>> /\ linkState' = "syncing" /\ job'[Sync].kind = "self" /\ job'[Sync].pc = "queued"
        /\ \A k \in Jobs : k # Sync => ~job'[k].live
    BY <1>1, OpenedJobs
  <2>2. \A k \in Jobs : ~Scans(k)' /\ ~Removes(k)'
    BY <2>1 DEF Scans, Removes, Sent
  <2>3. ContactsSaved' /\ Gone'
    BY <2>1, <2>2 DEF ContactsSaved, Gone
  <2> QED
    BY <2>2, <2>3 DEF ContactsOK
<1>2. CASE ~Opening
  <2> SUFFICES ASSUME ~Doomed' PROVE ContactsOK'
    OBVIOUS
  <2>1. Linked /\ Settled /\ AirOK /\ OneDue /\ clean' /\ linkState' # "down"
    BY <1>2, LinkedBefore DEF Linked, Settled
  <2>2. ContactsOK
    BY <1>2, <2>1, DoomedStays
  <2>3. ASSUME NEW j, NEW kind, NEW patch, Asking(j, kind, patch) PROVE ContactsOK'
    BY <2>2, <2>3, ContactsAsking
  <2>4. ASSUME NEW j \in Jobs, Sending(j) PROVE ContactsOK'
    BY <2>1, <2>2, <2>4, ContactsSending
  <2>5. ASSUME NEW j \in Jobs, Lingering(j) \/ Failed(j) PROVE ContactsOK'
    BY <2>2, <2>5, ContactsLost
  <2>6. ASSUME NEW j \in Jobs, Finished(j) PROVE ContactsOK'
    BY <2>1, <2>2, <2>6, ContactsFinished
  <2>7. ASSUME NEW kind, Turning(kind) PROVE ContactsOK'
    BY <2>1, <2>2, <2>7, ContactsTurning
  <2>8. ASSUME NEW f \in FrameType, Hearing(f) PROVE ContactsOK'
    BY <2>1, <2>2, <2>8, ContactsHearing
  <2> QED
    BY <1>2, <2>1, <2>3, <2>4, <2>5, <2>6, <2>7, <2>8 DEF Steps
<1> QED
  BY <1>1, <1>2

---------------------------------------------------------------------------
(* The invariant.                                                          *)

CommandsInv == Base /\ CleanOK

LEMMA InitClean == CommandsInit => CleanOK
<1> SUFFICES ASSUME CommandsInit PROVE Settled /\ InfoOK /\ SettingsOK /\ ChannelsOK /\ ContactsOK
  BY DEF CleanOK
<1>1. /\ air = <<>> /\ store = radio /\ Sync \in Jobs
      /\ \A j \in Jobs : job[j] = Idle
  BY DEF CommandsInit, Jobs
<1>2. \A j \in Jobs : job[j].kind = "plain" /\ job[j].pc = "idle" /\ ~job[j].live
  BY <1>1, IdleIs
<1>3. DOMAIN air = {}
  BY <1>1
<1>4. Settled /\ InfoOK
  BY <1>2, <1>3 DEF Settled, AirOK, OneDue, Alone, Waits, InfoOK
<1>5. SettingsOK
  BY <1>1, <1>2 DEF SettingsOK, SettingsSaved, SettingsWritten, SelfRead
<1>6. ChannelsOK
  BY <1>1, <1>2 DEF ChannelsOK, SlotsSaved, SlotsSet, SlotsRead, Sets
<1>7. ContactsOK
  BY <1>1, <1>2 DEF ContactsOK, ContactsSaved, Gone, Scans, Removes
<1> QED
  BY <1>4, <1>5, <1>6, <1>7

LEMMA CommandsStep == CommandsInv /\ [CommandsNext]_commandsVars => CommandsInv'
<1> SUFFICES ASSUME Base, CleanOK, [CommandsNext]_commandsVars PROVE Base' /\ CleanOK'
  BY DEF CommandsInv
<1>1. Base' /\ (Steps \/ UNCHANGED commandsVars)
  BY StepsOK
<1>2. CASE UNCHANGED commandsVars
  <2>1. UNCHANGED <<radio, store, linkState, air, job, queue, clean>>
    BY <1>2 DEF commandsVars
  <2>2. /\ Linked' <=> Linked
        /\ Settled' <=> Settled
        /\ InfoOK' <=> InfoOK
    BY <2>1 DEF Linked, Settled, AirOK, OneDue, Alone, Waits, InfoOK
  <2>3. SettingsOK' <=> SettingsOK
    BY <2>1 DEF SettingsOK, SettingsSaved, SettingsWritten, SelfRead, Sent, Failing
  <2>4. ChannelsOK' <=> ChannelsOK
    BY <2>1 DEF ChannelsOK, SlotsSaved, SlotsSet, SlotsRead, Sets, Sent, Failing
  <2>5. ContactsOK' <=> ContactsOK
    BY <2>1 DEF ContactsOK, Listing, ContactsSaved, Gone, Imports, Scans, Removes, Behind, Lists, Sent, Failing
  <2>6. Doomed' <=> Doomed
    BY <2>1 DEF Doomed, Waits
  <2> QED
    BY <1>1, <2>2, <2>3, <2>4, <2>5, <2>6 DEF CleanOK
<1>3. CASE Steps
  <2> SUFFICES ASSUME Linked' PROVE Settled' /\ InfoOK' /\ SettingsOK' /\ ChannelsOK' /\ (Doomed' \/ ContactsOK')
    BY <1>1 DEF CleanOK
  <2>1. Linked => Settled /\ InfoOK /\ SettingsOK /\ ChannelsOK /\ (Doomed \/ ContactsOK)
    BY DEF CleanOK
  <2>2. Settled'
    BY <1>3, <2>1, SettledSteps
  <2>3. InfoOK'
    BY <1>3, <2>1, InfoSteps
  <2>4. SettingsOK'
    BY <1>3, <2>1, SettingsSteps
  <2>5. ChannelsOK'
    BY <1>3, <2>1, ChannelsSteps
  <2>6. Doomed' \/ ContactsOK'
    BY <1>3, <2>1, ContactsSteps
  <2> QED
    BY <2>2, <2>3, <2>4, <2>5, <2>6
<1> QED
  BY <1>1, <1>2, <1>3

LEMMA CommandsInvariant == CommandsSpec => []CommandsInv
<1>1. CommandsInit => CommandsInv
  BY InitBase, InitClean DEF CommandsInv
<1> QED
  BY <1>1, CommandsStep, PTL DEF CommandsSpec

LEMMA InvMirrors == CommandsInv => Mirrors
<1> SUFFICES ASSUME Base, CleanOK, linkState = "connected", clean, \A j \in Jobs : job[j].pc = "idle" PROVE store = radio
  BY DEF CommandsInv, Mirrors
<1>1. Settled /\ SettingsOK /\ ChannelsOK /\ (Doomed \/ ContactsOK)
  BY DEF CleanOK, Linked
<1>2. \A j \in Jobs : job[j].kind = "plain"
  BY BaseIs, IdleIs DEF JobOK
<1>3. \A x \in SettingKeys : store[x] = radio[x]
  BY <1>1, <1>2 DEF SettingsOK, SettingsSaved
<1>4. \A j \in Jobs : ~Sets(j) /\ ~Removes(j) /\ ~Imports(j) /\ ~Scans(j) /\ ~Waits(j)
  BY <1>2 DEF Sets, Removes, Imports, Scans, Waits
<1>5. \A s \in SlotSet : store[s] = radio[s]
  BY <1>1, <1>4 DEF ChannelsOK, SlotsSaved
<1>6. \A c \in Contacts : store[c] = radio[c]
  <2>1. ContactsOK
    BY <1>1, <1>4 DEF Doomed
  <2> QED
    BY <1>4, <2>1 DEF ContactsOK, ContactsSaved
<1>7. \A x \in Items : store[x] = radio[x]
  BY <1>3, <1>5, <1>6 DEF Items
<1> QED
  BY <1>7, BaseIs

\* Type correctness of the commands of a link: each job that is under way has a command left to send or
\* to be answered, and uncorrelatedCommandQueue holds the channel commands that are under way and no other.
THEOREM CommandsTypeCorrect == CommandsSpec => []CommandsTypeOK
<1>1. CommandsInv => CommandsTypeOK
  <2> SUFFICES ASSUME Base PROVE CommandsTypeOK
    BY DEF CommandsInv
  <2>1. /\ radio \in [Items -> Vals] /\ store \in [Items -> Vals]
        /\ linkState \in {"down", "syncing", "connected"} /\ (linkState = "down" => air = <<>>)
        /\ clean \in BOOLEAN /\ calls \in 0..MaxCalls /\ opens \in 0..MaxOpens
        /\ linkState = "syncing" <=> job[Sync].pc # "idle"
    BY DEF Base, CommandsOK
  <2>2. \A j \in Jobs : job[j].kind \in Kinds /\ job[j].pc \in {"idle", "queued", "waits", "answered", "refused"}
    BY BaseIs DEF JobType
  <2>3. \A j \in Jobs : job[j].pc # "idle" => job[j].todo # <<>>
    BY BaseJob
  <2>4. \A j \in Jobs : j \in Range(queue) <=> job[j].pc # "idle" /\ Queued(job[j].kind)
    BY DEF Base, QueueOK, Holds, Range
  <2> QED
    BY <2>1, <2>2, <2>3, <2>4 DEF CommandsTypeOK, Vals
<1> QED
  BY <1>1, CommandsInvariant, PTL

\* With a connected radio, nothing under way and a history in which every answer went to the job that asked,
\* the database has the channels, contacts and settings of the radio, for any slots, contacts, calls and
\* order of answers (the writes, scans and saves of radio/link.ts).
THEOREM MirrorsCorrect == CommandsSpec => []Mirrors
BY InvMirrors, CommandsInvariant, PTL
=============================================================================
