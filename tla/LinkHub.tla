------------------------------ MODULE LinkHub ------------------------------
(***************************************************************************)
(* The hub of radio links (ConnectionManager in manager.ts): which links   *)
(* run, for which profiles, and what activating, editing, deactivating and *)
(* deleting profiles, the start of the process and its shutdown do to them.*)
(*                                                                         *)
(* An action is what runs between two awaits.  removeLink awaits the close *)
(* of a link's connection, and whoever asked for the removal goes on when  *)
(* it has resolved: to delete the map entry of the key, whichever link is  *)
(* in it by then.  Of a link's own lifecycle (RadioLink.tla) this keeps    *)
(* what the hub sees and causes; release and claim are left to that module.*)
(***************************************************************************)
EXTENDS Naturals, FiniteSets

CONSTANTS Profiles,  \* radio_profiles.id
          Links,     \* RadioLink objects, taken again once they are garbage
          NoLink,
          Calls,     \* API calls that may be in progress at once
          Transports \* the transports settings may name (tcp is like serial)

Default == 0         \* the key of the link that follows env and override
Keys    == Profiles \cup {Default}

ASSUME HubAssumption ==
  /\ Profiles \subseteq Nat \ {0}
  /\ NoLink \notin Links
  /\ Calls \cap {"no", "lost", "end"} = {}
  /\ Transports \subseteq {"none", "serial", "ble"}

VARIABLES
  active,  \* the keys in radio_links
  wants,   \* the transport each profile, or env with the override, names
  map,     \* this.links
  link,    \* the link objects
  call,    \* what each API call in progress is waiting to do
  boot,    \* the keys start() has still to come to
  waits,   \* the link whose first attempt start() is awaiting
  ending   \* this.stopped

vars == <<active, wants, map, link, call, boot, waits, ending>>

Idle == [op |-> "none", key |-> Default, todo |-> {}]

\* state: what getState() answers; conn: what the current connection occupies;
\* closing: on whose behalf an earlier connection is being closed.
NewLink == [key |-> Default, state |-> "idle", conn |-> "none", closing |-> "no",
            timer |-> FALSE, stopped |-> FALSE]
Garbage == [NewLink EXCEPT !.stopped = TRUE]

TypeOK ==
  /\ active \subseteq Keys
  /\ wants \in [Keys -> Transports \cup {"deleted"}]
  /\ map \in [Keys -> Links \cup {NoLink}]
  /\ link \in [Links -> [key : Keys, state : {"idle", "connecting", "connected"}, conn : Transports \cup {"none"},
                         closing : Calls \cup {"no", "lost", "end"}, timer : BOOLEAN, stopped : BOOLEAN]]
  /\ call \in [Calls -> [op : {"none", "restart", "deactivate", "clear"}, key : Keys, todo : SUBSET Profiles]]
  /\ boot \in SUBSET Keys /\ waits \in Links \cup {NoLink} /\ ending \in BOOLEAN

Init ==
  /\ active \in SUBSET Keys /\ boot = active /\ waits = NoLink
  /\ wants \in [Keys -> Transports]
  /\ map = [k \in Keys |-> NoLink]
  /\ link = [l \in Links |-> Garbage]
  /\ call = [c \in Calls |-> Idle]
  /\ ending = FALSE

Least(S) == CHOOSE k \in S : \A j \in S : k <= j

---------------------------------------------------------------------------
(* Settings and connecting.  m and L are the map and the link objects an   *)
(* action is at, a the keys in radio_links, and wants' the profiles.       *)

\* connectionSettings: the active profile with the lowest id, then the override.
Effective(k, a) ==
  LET row == IF k = Default /\ a \ {Default} # {}
             THEN wants'[Least(a \ {Default})] ELSE wants'[k]
  IN  IF row = "deleted" THEN "none" ELSE row

\* Faulty variant: a link that is still connecting does not count.
CheckOnlyConnected(k, a, m, L) ==
  \E j \in Keys \ {k} : m[j] # NoLink /\ Effective(j, a) = "ble" /\ L[m[j]].state = "connected"

CheckBleExclusivity(k, a, m, L) ==
  \E j \in Keys \ {k} : m[j] # NoLink /\ Effective(j, a) = "ble" /\ L[m[j]].state # "idle"

\* connect(): on settings "none" the factory throws and the link keeps the state.
Connect(r, m, L) ==
  LET t == Effective(r.key, active') IN
  IF t = "ble" /\ CheckBleExclusivity(r.key, active', m, L)
  THEN [r EXCEPT !.state = "idle", !.timer = TRUE]
  ELSE [r EXCEPT !.state = "connecting", !.conn = t]

\* The first link object nobody refers to any more.
Unused(m, L) == {l \in Links : L[l].stopped /\ L[l].closing = "no" /\ \A k \in Keys : m[k] # l}

\* Faulty variant: a hub that has been stopped still starts links.
EnsureAfterStop(k, m, L) ==
  IF m[k] # NoLink \/ k \notin active'
  THEN map' = m /\ link' = L
  ELSE \E l \in Unused(m, L) :
         LET m1 == [m EXCEPT ![k] = l] IN
         /\ map' = m1
         /\ link' = [L EXCEPT ![l] = Connect([NewLink EXCEPT !.key = k], m1, L)]

EnsureLinkRunning(k, m, L) ==
  IF ending \/ m[k] # NoLink \/ k \notin active'
  THEN map' = m /\ link' = L
  ELSE \E l \in Unused(m, L) :
         LET r  == [NewLink EXCEPT !.key = k]
             m1 == [m EXCEPT ![k] = l]
         IN  /\ map' = m1
             /\ link' = [L EXCEPT ![l] = IF Effective(k, active') = "none" THEN r ELSE Connect(r, m1, L)]

---------------------------------------------------------------------------
(* Removal.                                                                *)

\* Faulty variant: the row of a removed link stays in the table.
ProceedKeepingRow(c, op, k, todo, m, L) ==
  /\ UNCHANGED active
  /\ IF op = "restart" THEN EnsureLinkRunning(k, m, L) ELSE map' = m /\ link' = L
  /\ call' = [call EXCEPT ![c] = IF op = "clear" THEN [Idle EXCEPT !.op = op, !.todo = todo] ELSE Idle]

\* What a call does once the link of its key is out of the way.
Proceed(c, op, k, todo, m, L) ==
  \/ /\ op = "restart"
     /\ UNCHANGED active
     /\ EnsureLinkRunning(k, m, L)
     /\ call' = [call EXCEPT ![c] = Idle]
  \/ /\ op \in {"deactivate", "clear"}
     /\ active' = active \ {k} /\ map' = m /\ link' = L
     /\ call' = [call EXCEPT ![c] = IF op = "clear" THEN [Idle EXCEPT !.op = op, !.todo = todo] ELSE Idle]

\* A stopped link does nothing for its key any more.
Stopped(r) == [Garbage EXCEPT !.closing = r.closing]

\* The link has stopped being in use, and its connection is being closed for w.
Closing(r, w) == [Garbage EXCEPT !.state = r.state, !.closing = w]

\* Faulty variant: the link is taken out of the map and not stopped.
RemoveUnstopped(c, op, k, todo) == Proceed(c, op, k, todo, [map EXCEPT ![k] = NoLink], link)

\* removeLink.  Stopping a link without a connection awaits nothing.
RemoveLink(c, op, k, todo) ==
  LET l == map[k] IN
  IF l # NoLink /\ link[l].conn # "none"
  THEN /\ link' = [link EXCEPT ![l] = Closing(@, c)]
       /\ call' = [call EXCEPT ![c] = [op |-> op, key |-> k, todo |-> todo]]
       /\ UNCHANGED <<active, map>>
  ELSE Proceed(c, op, k, todo, [map EXCEPT ![k] = NoLink],
               IF l = NoLink THEN link ELSE [link EXCEPT ![l] = Stopped(@)])

---------------------------------------------------------------------------
(* The API.                                                                *)

Free(c) == call[c] = Idle

\* A BLE profile is refused while another BLE link is in use.
ActivateProfile(k) ==
  /\ wants[k] # "deleted"
  /\ UNCHANGED <<wants, call, boot, waits, ending>>
  /\ ~(wants[k] = "ble" /\ CheckBleExclusivity(k, active, map, link))
  /\ active' = active \cup {k}
  /\ EnsureLinkRunning(k, map, link)

DeactivateProfile(c, k) ==
  /\ Free(c) /\ UNCHANGED <<wants, boot, waits, ending>>
  /\ RemoveLink(c, "deactivate", k, {})

\* deactivateProfile(null) goes through the profiles active when it was called.
DeactivateAll(c) ==
  /\ Free(c)
  /\ call' = [call EXCEPT ![c] = [Idle EXCEPT !.op = "clear", !.todo = active \ {Default}]]
  /\ UNCHANGED <<active, wants, map, link, boot, waits, ending>>

\* Between two keys no close is awaited.
Clearing(c) == call[c].op = "clear" /\ \A l \in Links : link[l].closing # c

ClearNext(c) ==
  /\ Clearing(c) /\ call[c].todo # {}
  /\ UNCHANGED <<wants, boot, waits, ending>>
  /\ LET k == Least(call[c].todo) IN RemoveLink(c, "clear", k, call[c].todo \ {k})

ClearDone(c) ==
  /\ Clearing(c) /\ call[c].todo = {}
  /\ call' = [call EXCEPT ![c] = Idle]
  /\ active' = active \cup {Default}
  /\ UNCHANGED <<wants, boot, waits, ending>>
  /\ EnsureLinkRunning(Default, map, link)

\* updateProfile and setConnectionOverride: a link that runs is restarted.
Reconfigure(c, k, t) ==
  /\ Free(c) /\ wants[k] # "deleted"
  /\ wants' = [wants EXCEPT ![k] = t]
  /\ UNCHANGED <<boot, waits, ending>>
  /\ IF map[k] # NoLink THEN RemoveLink(c, "restart", k, {})
     ELSE UNCHANGED <<active, map, link, call>>

\* The row in radio_links goes with the profile (ON DELETE CASCADE).
DeleteProfile(k) ==
  /\ wants[k] # "deleted" /\ map[k] = NoLink
  /\ wants' = [wants EXCEPT ![k] = "deleted"] /\ active' = active \ {k}
  /\ UNCHANGED <<map, link, call, boot, waits, ending>>

---------------------------------------------------------------------------
(* The process.                                                            *)

\* start() comes to the next link when the attempt of the one before is over.
StartNext ==
  /\ boot # {}
  /\ ~(waits \in Links /\ link[waits].state = "connecting" /\ ~link[waits].stopped)
  /\ boot' = boot \ {Least(boot)}
  /\ UNCHANGED <<active, wants, call, ending>>
  /\ EnsureLinkRunning(Least(boot), map, link)
  /\ waits' = IF map' = map \/ boot' = {} THEN NoLink ELSE map'[Least(boot)]

Stop ==
  /\ ~ending /\ ending' = TRUE
  /\ link' = [l \in Links |->
                IF \A k \in Keys : map[k] # l THEN link[l]
                ELSE IF link[l].conn = "none" THEN Stopped(link[l]) ELSE Closing(link[l], "end")]
  /\ UNCHANGED <<active, wants, map, call, boot, waits>>

---------------------------------------------------------------------------
(* The links.                                                              *)

Connected(l) ==
  /\ link[l].state = "connecting" /\ link[l].conn # "none"
  /\ link' = [link EXCEPT ![l].state = "connected"]
  /\ UNCHANGED <<active, wants, map, call, boot, waits, ending>>

\* An attempt fails or a connection is lost; the state stays until it is closed.
Loses(l) ==
  /\ link[l].conn # "none"
  /\ link' = [link EXCEPT ![l] = [@ EXCEPT !.conn = "none", !.timer = FALSE, !.closing = "lost"]]
  /\ UNCHANGED <<active, wants, map, call, boot, waits, ending>>

ReconnectTimerFires(l) ==
  /\ link[l].timer
  /\ UNCHANGED <<active, wants, map, call, boot, waits, ending>>
  /\ link' = [link EXCEPT ![l] = Connect([@ EXCEPT !.timer = FALSE], map, link)]

CloseResolves(l) ==
  LET w == link[l].closing
      r == [link[l] EXCEPT !.closing = "no", !.state = "idle"]
  IN
  /\ w # "no" /\ UNCHANGED <<wants, boot, waits, ending>>
  /\ IF w \in Calls
     THEN Proceed(w, call[w].op, call[w].key, call[w].todo,
                  [map EXCEPT ![call[w].key] = NoLink], [link EXCEPT ![l] = r])
     ELSE /\ link' = [link EXCEPT ![l] = [r EXCEPT !.timer = (w = "lost" /\ ~r.stopped)]]
          /\ UNCHANGED <<active, map, call>>

---------------------------------------------------------------------------

Next ==
  \/ \E k \in Profiles : ActivateProfile(k) \/ DeleteProfile(k)
  \/ \E c \in Calls : \/ \E k \in Profiles : DeactivateProfile(c, k)
                      \/ \E k \in Keys, t \in Transports : Reconfigure(c, k, t)
                      \/ DeactivateAll(c) \/ ClearNext(c) \/ ClearDone(c)
  \/ \E l \in Links : Connected(l) \/ Loses(l) \/ ReconnectTimerFires(l) \/ CloseResolves(l)
  \/ StartNext \/ Stop

Spec == Init /\ [][Next]_vars

---------------------------------------------------------------------------
(* Properties.                                                             *)

\* Every link that runs is the one the hub knows under its key: no edit, removal,
\* start or shutdown leaves a link behind that nobody can stop any more.
NoOrphan == \A l \in Links : ~link[l].stopped => map[link[l].key] = l

\* When nothing is in progress, the links that run are those the database lists.
RunningMatchesTable ==
  boot = {} /\ ~ending /\ (\A c \in Calls : Free(c)) =>
    \A k \in Keys : map[k] # NoLink <=> k \in active

\* After a shutdown has begun no connection is open and none will be, whatever
\* restart or start was under way.
QuietAfterStop == ending => \A l \in Links : link[l].conn = "none" /\ ~link[l].timer

\* Two profiles never hold the BLE adapter at once, over edits of their transport,
\* failed attempts and reconnects.
BleProfilesExclusive ==
  \A l, n \in Links : link[l].conn = "ble" /\ link[n].conn = "ble" /\ Default \notin {link[l].key, link[n].key} => l = n
===========================================================================
