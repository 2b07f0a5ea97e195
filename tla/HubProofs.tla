------------------------------ MODULE HubProofs ------------------------------
(***************************************************************************)
(* Proofs about LinkHub, for any profiles, link objects and transports.    *)
(*                                                                         *)
(* That the running links match the table holds for any number of API      *)
(* calls at once.  What is said of single links is proved for one call at  *)
(* a time (OneCall): two removals of the same key that overlap can leave   *)
(* a link behind that the hub does not know.                               *)
(***************************************************************************)
EXTENDS LinkHub, WellFoundedInduction, TLAPS

LEMMA LeastOf == ASSUME NEW S, S \subseteq Nat, S # {} PROVE Least(S) \in S
<1>1. \E x \in S : \A y \in S : <<y, x>> \notin OpToRel(<, Nat)
  BY NatLessThanWellFounded, WFMin
<1>2. PICK x \in S : \A y \in S : <<y, x>> \notin OpToRel(<, Nat)
  BY <1>1
<1>3. \A y \in S : ~(y < x)
  BY <1>2 DEF OpToRel
<1>4. \A y \in S : x <= y
  BY <1>3
<1> QED
  BY <1>4, Zenon DEF Least

LEMMA KeysAre == Keys \subseteq Nat /\ Profiles \subseteq Keys /\ Default \in Keys
BY HubAssumption DEF Keys, Default

---------------------------------------------------------------------------
(* Types, and what starting a link comes to.                               *)

LinkType == [key : Keys, state : {"idle", "connecting", "connected"}, conn : Transports \cup {"none"},
             closing : Calls \cup {"no", "lost", "end"}, timer : BOOLEAN, stopped : BOOLEAN]
CallType == [op : {"none", "restart", "deactivate", "clear"}, key : Keys, todo : SUBSET Profiles]
MapType == [Keys -> Links \cup {NoLink}]
WantsType == [Keys -> Transports \cup {"deleted"}]

LEMMA EffectiveType ==
  ASSUME NEW k \in Keys, NEW a \in SUBSET Keys, wants' \in WantsType
  PROVE  /\ Effective(k, a) \in Transports \cup {"none"}
         /\ k # Default => (Effective(k, a) = "ble" <=> wants'[k] = "ble")
<1>1. a \ {Default} # {} => Least(a \ {Default}) \in Keys
  BY KeysAre, LeastOf
<1>2. ASSUME NEW row \in Transports \cup {"deleted"}
      PROVE  (IF row = "deleted" THEN "none" ELSE row) \in Transports \cup {"none"}
  OBVIOUS
<1> QED
  BY <1>1, <1>2 DEF Effective, WantsType

\* A link that does not occupy anything: a stopped one, one whose connection is
\* being closed, one that waits for its timer.
LinkOK(r) ==
  /\ r.stopped => r.conn = "none" /\ ~r.timer
  /\ r.closing # "no" => r.conn = "none" /\ ~r.timer
  /\ r.timer => r.conn = "none"
  /\ r.conn # "none" => r.state # "idle"

\* s is r with an attempt begun, or put off.
LEMMA ConnectOK ==
  ASSUME NEW r \in LinkType, r.conn = "none", ~r.timer, ~r.stopped, r.closing = "no", NEW m, NEW L,
         active' \in SUBSET Keys, wants' \in WantsType, NEW s, s = Connect(r, m, L)
  PROVE  /\ s \in LinkType /\ LinkOK(s) /\ s.key = r.key /\ ~s.stopped /\ s.closing = "no"
         /\ s.conn = "ble" => /\ ~CheckBleExclusivity(r.key, active', m, L)
                              /\ r.key # Default => wants'[r.key] = "ble"
<1>1. PICK t : t = Effective(r.key, active')
  OBVIOUS
<1>2. t \in Transports \cup {"none"} /\ (r.key # Default => (t = "ble" <=> wants'[r.key] = "ble"))
  BY <1>1, EffectiveType DEF LinkType
<1>3. CASE t = "ble" /\ CheckBleExclusivity(r.key, active', m, L)
  <2>1. s = [r EXCEPT !.state = "idle", !.timer = TRUE]
    BY <1>1, <1>3 DEF Connect
  <2> QED
    BY <2>1 DEF LinkType, LinkOK
<1>4. CASE ~(t = "ble" /\ CheckBleExclusivity(r.key, active', m, L))
  <2>1. s = [r EXCEPT !.state = "connecting", !.conn = t]
    BY <1>1, <1>4 DEF Connect
  <2>2. s \in LinkType /\ s.conn = t /\ s.state = "connecting" /\ s.timer = r.timer /\ s.key = r.key
        /\ s.stopped = r.stopped /\ s.closing = r.closing
    BY <1>2, <2>1 DEF LinkType
  <2> QED
    BY <1>2, <1>4, <2>2 DEF LinkOK
<1> QED
  BY <1>3, <1>4

\* The link l is started under the key k as r.
Started(k, m, L, l, r) ==
  /\ k \in active' /\ ~ending /\ m[k] = NoLink /\ l \in Unused(m, L)
  /\ map' = [m EXCEPT ![k] = l] /\ link' = [L EXCEPT ![l] = r]
  /\ r \in LinkType /\ LinkOK(r) /\ r.key = k /\ ~r.stopped /\ r.closing = "no"
  /\ r.conn = "ble" => /\ ~CheckBleExclusivity(k, active', [m EXCEPT ![k] = l], L)
                       /\ k # Default => wants'[k] = "ble"

LEMMA EnsureOutcome ==
  ASSUME NEW k, NEW m, NEW L, active' \in SUBSET Keys, wants' \in WantsType, EnsureLinkRunning(k, m, L)
  PROVE  \/ map' = m /\ link' = L /\ (ending \/ m[k] # NoLink \/ k \notin active')
         \/ \E l, r : Started(k, m, L, l, r)
<1>1. CASE ending \/ m[k] # NoLink \/ k \notin active'
  BY <1>1 DEF EnsureLinkRunning
<1>2. CASE ~(ending \/ m[k] # NoLink \/ k \notin active')
  <2>1. PICK l \in Unused(m, L) :
          /\ map' = [m EXCEPT ![k] = l]
          /\ link' = [L EXCEPT ![l] = IF Effective(k, active') = "none" THEN [NewLink EXCEPT !.key = k]
                                      ELSE Connect([NewLink EXCEPT !.key = k], [m EXCEPT ![k] = l], L)]
    BY <1>2, Zenon DEF EnsureLinkRunning
  <2>2. PICK f : f = [NewLink EXCEPT !.key = k]
    OBVIOUS
  <2>3. f \in LinkType /\ f.conn = "none" /\ ~f.timer /\ ~f.stopped /\ f.closing = "no" /\ f.key = k
    BY <1>2, <2>2 DEF NewLink, LinkType
  <2>4. PICK r : r = IF Effective(k, active') = "none" THEN f ELSE Connect(f, [m EXCEPT ![k] = l], L)
    OBVIOUS
  <2>5. CASE Effective(k, active') = "none"
    BY <1>2, <2>1, <2>2, <2>3, <2>4, <2>5 DEF Started, LinkOK
  <2>6. CASE Effective(k, active') # "none"
    <3>1. r = Connect(f, [m EXCEPT ![k] = l], L)
      BY <2>4, <2>6
    <3>2. /\ r \in LinkType /\ LinkOK(r) /\ r.key = k /\ ~r.stopped /\ r.closing = "no"
          /\ r.conn = "ble" => /\ ~CheckBleExclusivity(k, active', [m EXCEPT ![k] = l], L)
                               /\ k # Default => wants'[k] = "ble"
      BY <2>3, <3>1, ConnectOK
    <3> QED
      BY <1>2, <2>1, <2>2, <3>1, <2>6, <3>2 DEF Started
  <2> QED
    BY <2>5, <2>6
<1> QED
  BY <1>1, <1>2

\* A new link takes the place of an object nobody refers to; the others stay.
LEMMA EnsureKeeps ==
  ASSUME NEW k, NEW m \in MapType, NEW L \in [Links -> LinkType], active' \in SUBSET Keys, wants' \in WantsType,
         EnsureLinkRunning(k, m, L)
  PROVE  /\ map' \in MapType /\ link' \in [Links -> LinkType]
         /\ \A l \in Links : link'[l].closing = L[l].closing
         /\ \A j \in Keys : m[j] # NoLink => map'[j] = m[j] /\ link'[m[j]] = L[m[j]]
<1>1. CASE map' = m /\ link' = L
  BY <1>1
<1>2. ASSUME NEW l, NEW r, Started(k, m, L, l, r)
      PROVE  /\ map' \in MapType /\ link' \in [Links -> LinkType]
             /\ \A n \in Links : link'[n].closing = L[n].closing
             /\ \A j \in Keys : m[j] # NoLink => map'[j] = m[j] /\ link'[m[j]] = L[m[j]]
  <2>1. l \in Links /\ L[l].closing = "no" /\ (\A j \in Keys : m[j] # l) /\ k \in Keys /\ m[k] = NoLink
        /\ map' = [m EXCEPT ![k] = l] /\ link' = [L EXCEPT ![l] = r] /\ r \in LinkType /\ r.closing = "no"
    BY <1>2 DEF Started, Unused
  <2> QED
    BY <2>1 DEF MapType
<1> QED
  BY <1>1, <1>2, EnsureOutcome

---------------------------------------------------------------------------
(* Types and the table, for any number of calls.  A key whose link is      *)
(* being replaced is still in the map, so that the table agrees at every   *)
(* step: what is listed and does not run is still to come, or too late.    *)

TableOK ==
  /\ \A j \in Keys : map[j] # NoLink => j \in active
  /\ \A j \in active : map[j] = NoLink => j \in boot \/ ending

TableInv == TypeOK /\ TableOK

\* The links and their keys, which most actions change together.
MapsType ==
  /\ active \in SUBSET Keys /\ map \in MapType /\ link \in [Links -> LinkType] /\ call \in [Calls -> CallType]

RestType == wants \in WantsType /\ boot \in SUBSET Keys /\ waits \in Links \cup {NoLink} /\ ending \in BOOLEAN

LEMMA TypesAre == TypeOK <=> MapsType /\ RestType
BY DEF TypeOK, MapsType, RestType, MapType, LinkType, CallType, WantsType

LEMMA IdleType == Idle \in CallType /\ \A todo \in SUBSET Profiles : [Idle EXCEPT !.op = "clear", !.todo = todo] \in CallType
BY KeysAre DEF Idle, CallType

LEMMA StoppedType ==
  ASSUME NEW r \in LinkType, NEW w \in Calls \cup {"end"}
  PROVE  /\ Stopped(r) \in LinkType /\ Stopped(r).stopped /\ Stopped(r).closing = r.closing
         /\ Stopped(r).conn = "none" /\ ~Stopped(r).timer
         /\ Closing(r, w) \in LinkType /\ Closing(r, w).stopped /\ Closing(r, w).closing = w
         /\ Closing(r, w).conn = "none" /\ ~Closing(r, w).timer
BY KeysAre DEF Stopped, Closing, Garbage, NewLink, LinkType

\* Starting the link of a key leaves the table in order if only that key was not.
LEMMA EnsureTable ==
  ASSUME NEW k \in Keys, NEW m \in MapType, NEW L \in [Links -> LinkType], active' \in SUBSET Keys, wants' \in WantsType,
         EnsureLinkRunning(k, m, L), ending' = ending,
         \A j \in Keys : m[j] # NoLink => j \in active',
         \A j \in active' \ {k} : m[j] = NoLink => j \in boot' \/ ending
  PROVE  TableOK'
<1>1. CASE map' = m /\ link' = L /\ (ending \/ m[k] # NoLink \/ k \notin active')
  BY <1>1 DEF TableOK
<1>2. ASSUME NEW l, NEW r, Started(k, m, L, l, r) PROVE TableOK'
  <2>1. k \in active' /\ map' = [m EXCEPT ![k] = l] /\ l \in Links
    BY <1>2 DEF Started, Unused
  <2> QED
    BY <2>1, HubAssumption DEF TableOK, MapType
<1> QED
  BY <1>1, <1>2, EnsureOutcome

LEMMA ProceedTable ==
  ASSUME TableInv, RestType', ending' = ending, boot' = boot, NEW c \in Calls, NEW op \in {"restart", "deactivate", "clear", "none"},
         NEW k \in Keys, NEW todo \in SUBSET Profiles, NEW L \in [Links -> LinkType],
         Proceed(c, op, k, todo, [map EXCEPT ![k] = NoLink], L)
  PROVE  TableInv'
<1> DEFINE m == [map EXCEPT ![k] = NoLink]
<1>1. m \in MapType /\ active \in SUBSET Keys /\ call \in [Calls -> CallType] /\ wants' \in WantsType
  BY TypesAre DEF TableInv, MapsType, RestType, MapType
<1>2. /\ \A j \in Keys : m[j] # NoLink => j \in active /\ j # k
      /\ \A j \in active \ {k} : m[j] = NoLink => j \in boot \/ ending
  BY TypesAre DEF TableInv, TableOK, MapsType, MapType
<1>3. Proceed(c, op, k, todo, m, L)
  OBVIOUS
<1> HIDE DEF m
<1>4. CASE op = "restart"
  <2>1. active' = active /\ EnsureLinkRunning(k, m, L) /\ call' = [call EXCEPT ![c] = Idle]
    BY <1>3, <1>4 DEF Proceed
  <2>2. TableOK'
    BY <1>1, <1>2, <2>1, EnsureTable
  <2>3. MapsType'
    BY <1>1, <2>1, EnsureKeeps, IdleType DEF MapsType
  <2> QED
    BY <2>2, <2>3, TypesAre DEF TableInv, TypeOK, MapsType, RestType, MapType, LinkType, CallType, WantsType
<1>5. CASE op # "restart"
  <2>1. /\ active' = active \ {k} /\ map' = m /\ link' = L
        /\ call' = [call EXCEPT ![c] = IF op = "clear" THEN [Idle EXCEPT !.op = op, !.todo = todo] ELSE Idle]
    BY <1>3, <1>5 DEF Proceed
  <2>2. TableOK'
    BY <1>2, <2>1 DEF TableOK
  <2>3. call' \in [Calls -> CallType]
    BY <1>1, <2>1, IdleType
  <2> QED
    BY <1>1, <2>1, <2>2, <2>3 DEF TableInv, TypeOK, RestType, MapType, LinkType, CallType, WantsType
<1> QED
  BY <1>4, <1>5

LEMMA RemoveTable ==
  ASSUME TableInv, RestType', ending' = ending, boot' = boot, NEW c \in Calls, NEW op \in {"restart", "deactivate", "clear"},
         NEW k \in Keys, NEW todo \in SUBSET Profiles, RemoveLink(c, op, k, todo)
  PROVE  TableInv'
<1>1. MapsType
  BY TypesAre DEF TableInv
<1>2. CASE map[k] # NoLink /\ link[map[k]].conn # "none"
  <2>1. /\ link' = [link EXCEPT ![map[k]] = Closing(@, c)]
        /\ call' = [call EXCEPT ![c] = [op |-> op, key |-> k, todo |-> todo]]
        /\ active' = active /\ map' = map
    BY <1>2 DEF RemoveLink
  <2>2. link' \in [Links -> LinkType]
    BY <1>1, <1>2, <2>1, StoppedType DEF MapsType, MapType
  <2>3. call' \in [Calls -> CallType]
    BY <1>1, <2>1 DEF MapsType, CallType
  <2>4. MapsType' /\ TableOK'
    BY <1>1, <2>1, <2>2, <2>3 DEF MapsType, TableInv, TableOK
  <2> QED
    BY <2>4 DEF TableInv, TypeOK, MapsType, RestType, MapType, LinkType, CallType, WantsType
<1>3. CASE ~(map[k] # NoLink /\ link[map[k]].conn # "none")
  <2> DEFINE L == IF map[k] = NoLink THEN link ELSE [link EXCEPT ![map[k]] = Stopped(@)]
  <2>1. Proceed(c, op, k, todo, [map EXCEPT ![k] = NoLink], L)
    BY <1>3 DEF RemoveLink
  <2>2. L \in [Links -> LinkType]
    BY <1>1, StoppedType DEF MapsType, MapType
  <2> HIDE DEF L
  <2> QED
    BY <2>1, <2>2, ProceedTable
<1> QED
  BY <1>2, <1>3

LEMMA InitTable == Init => TableInv
<1> SUFFICES ASSUME Init PROVE TableInv
  OBVIOUS
<1>1. TypeOK
  BY KeysAre, HubAssumption DEF Init, TypeOK, Garbage, NewLink, Idle
<1> QED
  BY <1>1 DEF Init, TableInv, TableOK

\* A step that only moves a link on: r is what it becomes.
LEMMA LinkTable ==
  ASSUME TableInv, NEW l \in Links, NEW r \in LinkType, link' = [link EXCEPT ![l] = r],
         UNCHANGED <<active, wants, map, call, boot, waits, ending>>
  PROVE  TableInv'
<1>1. link' \in [Links -> LinkType]
  BY TypesAre DEF TableInv, MapsType
<1> QED
  BY <1>1 DEF TableInv, TableOK, TypeOK, LinkType

LEMMA StepTable == TableInv /\ [Next]_vars => TableInv'
<1> SUFFICES ASSUME TableInv, [Next]_vars PROVE TableInv'
  OBVIOUS
<1>1. MapsType /\ RestType
  BY TypesAre DEF TableInv
<1> USE DEF MapsType
<1>2. ASSUME NEW k \in Profiles, ActivateProfile(k) PROVE TableInv'
  <2>1. /\ k \in Keys /\ active' = active \cup {k} /\ EnsureLinkRunning(k, map, link)
        /\ UNCHANGED <<wants, call, boot, waits, ending>> /\ RestType'
    BY <1>1, <1>2, KeysAre DEF ActivateProfile, RestType
  <2>2. active' \in SUBSET Keys /\ wants' \in WantsType
    BY <1>1, <2>1 DEF RestType
  <2>3. TableOK'
    <3>1. /\ \A j \in Keys : map[j] # NoLink => j \in active'
          /\ \A j \in active' \ {k} : map[j] = NoLink => j \in boot' \/ ending
      BY <2>1 DEF TableInv, TableOK
    <3> QED
      BY <1>1, <2>1, <2>2, <3>1, EnsureTable
  <2>4. map' \in MapType /\ link' \in [Links -> LinkType]
    BY <1>1, <2>1, <2>2, EnsureKeeps
  <2> QED
    BY <1>1, <2>1, <2>2, <2>3, <2>4 DEF TableInv, TypeOK, RestType, MapType, LinkType, CallType, WantsType
<1>3. ASSUME NEW k \in Profiles, DeleteProfile(k) PROVE TableInv'
  <2>1. wants' \in WantsType
    BY <1>1, <1>3 DEF DeleteProfile, RestType, WantsType
  <2>2. TableOK'
    BY <1>3, KeysAre DEF DeleteProfile, TableInv, TableOK
  <2> QED
    BY <1>1, <1>3, <2>1, <2>2 DEF DeleteProfile, TableInv, TypeOK, RestType, MapType, LinkType, CallType, WantsType
<1>4. ASSUME NEW c \in Calls, NEW k \in Profiles, DeactivateProfile(c, k) PROVE TableInv'
  <2>1. k \in Keys /\ RemoveLink(c, "deactivate", k, {}) /\ UNCHANGED <<boot, ending>> /\ RestType'
    BY <1>1, <1>4, KeysAre DEF DeactivateProfile, RestType
  <2> QED
    BY <2>1, RemoveTable
<1>5. ASSUME NEW c \in Calls, NEW k \in Keys, NEW t \in Transports, Reconfigure(c, k, t) PROVE TableInv'
  <2>1. UNCHANGED <<boot, ending>> /\ RestType'
    BY <1>1, <1>5 DEF Reconfigure, RestType, WantsType
  <2>2. CASE map[k] # NoLink
    BY <1>5, <2>1, <2>2, RemoveTable DEF Reconfigure
  <2>3. CASE map[k] = NoLink
    <3>1. UNCHANGED <<active, map, link, call>>
      BY <1>5, <2>3 DEF Reconfigure
    <3> QED
      BY <1>1, <2>1, <3>1 DEF TableInv, TableOK, TypeOK, RestType, MapType, LinkType, CallType, WantsType
  <2> QED
    BY <2>2, <2>3
<1>6. ASSUME NEW c \in Calls, DeactivateAll(c) PROVE TableInv'
  <2>1. active \ {Default} \in SUBSET Profiles
    BY <1>1 DEF Keys
  <2>2. call' \in [Calls -> CallType]
    BY <1>1, <1>6, <2>1, IdleType DEF DeactivateAll
  <2> QED
    BY <1>6, <2>2 DEF DeactivateAll, TableInv, TableOK, TypeOK, CallType
<1>7. ASSUME NEW c \in Calls, ClearNext(c) PROVE TableInv'
  <2>1. call[c].todo \subseteq Profiles
    BY <1>1 DEF CallType
  <2>2. Least(call[c].todo) \in Profiles
    BY <1>7, <2>1, LeastOf, HubAssumption DEF ClearNext
  <2>3. RestType' /\ UNCHANGED <<boot, ending>>
    BY <1>1, <1>7 DEF ClearNext, RestType
  <2>4. RemoveLink(c, "clear", Least(call[c].todo), call[c].todo \ {Least(call[c].todo)})
    BY <1>7 DEF ClearNext
  <2> QED
    BY <2>1, <2>2, <2>3, <2>4, KeysAre, RemoveTable
<1>8. ASSUME NEW c \in Calls, ClearDone(c) PROVE TableInv'
  <2>1. /\ call' = [call EXCEPT ![c] = Idle] /\ active' = active \cup {Default}
        /\ EnsureLinkRunning(Default, map, link) /\ UNCHANGED <<wants, boot, waits, ending>> /\ RestType'
    BY <1>1, <1>8 DEF ClearDone, RestType
  <2>2. active' \in SUBSET Keys /\ wants' \in WantsType /\ call' \in [Calls -> CallType]
    BY <1>1, <2>1, KeysAre, IdleType DEF RestType
  <2>3. TableOK'
    <3>1. /\ \A j \in Keys : map[j] # NoLink => j \in active'
          /\ \A j \in active' \ {Default} : map[j] = NoLink => j \in boot' \/ ending
      BY <2>1 DEF TableInv, TableOK
    <3> QED
      BY <1>1, <2>1, <2>2, <3>1, KeysAre, EnsureTable
  <2>4. map' \in MapType /\ link' \in [Links -> LinkType]
    BY <1>1, <2>1, <2>2, EnsureKeeps
  <2> QED
    BY <2>1, <2>2, <2>3, <2>4 DEF TableInv, TypeOK, RestType, MapType, LinkType, CallType, WantsType
<1>9. CASE StartNext
  <2>1. PICK k : k = Least(boot)
    OBVIOUS
  <2>2. /\ k \in boot /\ k \in Keys /\ boot' = boot \ {k} /\ EnsureLinkRunning(k, map, link)
        /\ UNCHANGED <<active, wants, call, ending>>
        /\ waits' = IF map' = map \/ boot' = {} THEN NoLink ELSE map'[k]
    BY <1>1, <1>9, <2>1, LeastOf, KeysAre DEF StartNext, RestType
  <2>3. active' \in SUBSET Keys /\ wants' \in WantsType
    BY <1>1, <2>2 DEF RestType
  <2>4. TableOK'
    <3>1. /\ \A j \in Keys : map[j] # NoLink => j \in active'
          /\ \A j \in active' \ {k} : map[j] = NoLink => j \in boot' \/ ending
      BY <2>2 DEF TableInv, TableOK
    <3> QED
      BY <1>1, <2>2, <2>3, <3>1, EnsureTable
  <2>5. map' \in MapType /\ link' \in [Links -> LinkType]
    BY <1>1, <2>2, <2>3, EnsureKeeps
  <2>6. waits' \in Links \cup {NoLink}
    BY <2>2, <2>5 DEF MapType
  <2>7. boot' \in SUBSET Keys /\ ending' \in BOOLEAN /\ call' \in [Calls -> CallType]
    BY <1>1, <2>2 DEF RestType
  <2> QED
    BY <2>3, <2>4, <2>5, <2>6, <2>7 DEF TableInv, TypeOK, MapType, LinkType, CallType, WantsType
<1>10. CASE Stop
  <2>1. link' \in [Links -> LinkType]
    BY <1>1, <1>10, StoppedType DEF Stop
  <2> QED
    BY <1>10, <2>1 DEF Stop, TableInv, TableOK, TypeOK, LinkType
<1>11. ASSUME NEW l \in Links, Connected(l) PROVE TableInv'
  <2>1. [link[l] EXCEPT !.state = "connected"] \in LinkType
    BY <1>1 DEF LinkType
  <2> QED
    BY <1>11, <2>1, LinkTable DEF Connected
<1>12. ASSUME NEW l \in Links, Loses(l) PROVE TableInv'
  <2>1. [link[l] EXCEPT !.conn = "none", !.timer = FALSE, !.closing = "lost"] \in LinkType
    BY <1>1 DEF LinkType
  <2> QED
    BY <1>12, <2>1, LinkTable DEF Loses
<1>13. ASSUME NEW l \in Links, ReconnectTimerFires(l) PROVE TableInv'
  <2>1. PICK t : t = Effective(link[l].key, active')
    OBVIOUS
  <2>2. t \in Transports \cup {"none"}
    BY <1>1, <1>13, <2>1, EffectiveType DEF ReconnectTimerFires, LinkType, RestType
  <2>3. PICK r : r = [link[l] EXCEPT !.timer = FALSE]
    OBVIOUS
  <2>4. r \in LinkType /\ r.key = link[l].key
    BY <1>1, <2>3 DEF LinkType
  <2>5. Connect(r, map, link) = [r EXCEPT !.state = "idle", !.timer = TRUE]
        \/ Connect(r, map, link) = [r EXCEPT !.state = "connecting", !.conn = t]
    BY <2>1, <2>4 DEF Connect
  <2>6. [r EXCEPT !.state = "idle", !.timer = TRUE] \in LinkType /\ [r EXCEPT !.state = "connecting", !.conn = t] \in LinkType
    BY <2>2, <2>4 DEF LinkType
  <2>7. link' = [link EXCEPT ![l] = Connect(r, map, link)]
    BY <1>13, <2>3 DEF ReconnectTimerFires
  <2> QED
    BY <1>13, <2>5, <2>6, <2>7, LinkTable DEF ReconnectTimerFires
<1>14. ASSUME NEW l \in Links, CloseResolves(l) PROVE TableInv'
  <2>1. PICK w, r : w = link[l].closing /\ r = [link[l] EXCEPT !.closing = "no", !.state = "idle"]
    OBVIOUS
  <2>2. r \in LinkType /\ [r EXCEPT !.timer = (w = "lost" /\ ~r.stopped)] \in LinkType
    <3>1. link[l] \in LinkType
      BY <1>1
    <3>2. r \in LinkType
      BY <2>1, <3>1 DEF LinkType
    <3>3. ASSUME NEW b \in BOOLEAN PROVE [r EXCEPT !.timer = b] \in LinkType
      BY <3>2 DEF LinkType
    <3> QED
      BY <3>2, <3>3
  <2>3. CASE w \in Calls
    <3>1. Proceed(w, call[w].op, call[w].key, call[w].todo,
                  [map EXCEPT ![call[w].key] = NoLink], [link EXCEPT ![l] = r])
      BY <1>14, <2>1, <2>3 DEF CloseResolves
    <3>2. call[w].op \in {"restart", "deactivate", "clear", "none"} /\ call[w].key \in Keys /\ call[w].todo \in SUBSET Profiles
      BY <1>1, <2>3 DEF CallType
    <3>3. [link EXCEPT ![l] = r] \in [Links -> LinkType]
      BY <1>1, <2>2
    <3>4. ending' = ending /\ boot' = boot /\ RestType'
      BY <1>1, <1>14 DEF CloseResolves, RestType
    <3> QED
      BY <2>3, <3>1, <3>2, <3>3, <3>4, ProceedTable
  <2>4. CASE w \notin Calls
    BY <1>14, <2>1, <2>2, <2>4, LinkTable DEF CloseResolves
  <2> QED
    BY <2>3, <2>4
<1>15. CASE UNCHANGED vars
  BY <1>15 DEF vars, TableInv, TableOK, TypeOK
<1> QED
  BY <1>2, <1>3, <1>4, <1>5, <1>6, <1>7, <1>8, <1>9, <1>10, <1>11, <1>12, <1>13, <1>14, <1>15 DEF Next

LEMMA TableInvariant == Spec => []TableInv
<1> QED
  BY InitTable, StepTable, PTL DEF Spec

\* Every variable keeps its type, for any number of calls at once.
THEOREM TypeCorrect == Spec => []TypeOK
<1>1. TableInv => TypeOK
  BY DEF TableInv
<1> QED
  BY <1>1, TableInvariant, PTL

\* For any profiles and any number of calls at once: when nothing is in progress,
\* the links in the hub's map are those that radio_links lists.
THEOREM TableCorrect == Spec => []RunningMatchesTable
<1>1. TableInv => RunningMatchesTable
  BY DEF TableInv, TableOK, TypeOK, RunningMatchesTable
<1> QED
  BY <1>1, TableInvariant, PTL

---------------------------------------------------------------------------
(* The links, for one call at a time.  m and L are the map and the links   *)
(* an action is at, w the transports of the profiles.                      *)

OneCall == \A c, d \in Calls : c = d

\* A link that is not stopped is the one of its key; a connection over BLE is one
\* its profile still asks for, and no other profile has one.
LinksOK(m, L, w) ==
  /\ \A l \in Links : LinkOK(L[l])
  /\ \A l \in Links : ~L[l].stopped => m[L[l].key] = l
  /\ \A l \in Links : L[l].conn = "ble" /\ L[l].key # Default => w[L[l].key] = "ble"
  /\ \A l, n \in Links : L[l].conn = "ble" /\ L[n].conn = "ble" /\ Default \notin {L[l].key, L[n].key} => l = n

\* The link that is closed for a call is the one of the key the call is about.
CallsOK ==
  \A l \in Links, c \in Calls : link[l].closing = c => call[c].op # "none" /\ map[call[c].key] = l /\ link[l].stopped

HubInv ==
  /\ LinksOK(map, link, wants) /\ CallsOK
  /\ ending => \A l \in Links : link[l].stopped

\* A new link, or an old one at a new attempt, gets the adapter only if no other
\* profile has it.
LEMMA AttemptOK ==
  ASSUME NEW m \in MapType, NEW L \in [Links -> LinkType], LinksOK(m, L, wants'), active' \in SUBSET Keys, wants' \in WantsType,
         NEW l \in Links, NEW r \in LinkType, LinkOK(r), L[l].stopped \/ m[r.key] = l,
         NEW m1 \in MapType, m1[r.key] = l, \A j \in Keys \ {r.key} : m1[j] = m[j],
         m[r.key] \in {l, NoLink},
         r.conn = "ble" => /\ ~CheckBleExclusivity(r.key, active', m1, L)
                           /\ r.key # Default => wants'[r.key] = "ble"
  PROVE  LinksOK(m1, [L EXCEPT ![l] = r], wants')
<1> DEFINE M == [L EXCEPT ![l] = r]
<1>1. M[l] = r /\ \A n \in Links \ {l} : M[n] = L[n]
  OBVIOUS
<1>2. \A n \in Links : L[n].key \in Keys /\ M[n].key \in Keys
  BY DEF LinkType
<1>3. ASSUME NEW n \in Links \ {l}, ~L[n].stopped PROVE m1[L[n].key] = n /\ L[n].key # r.key
  BY <1>2, <1>3, HubAssumption DEF LinksOK
<1>4. ASSUME NEW n \in Links \ {l}, r.conn = "ble", L[n].conn = "ble", L[n].key # Default PROVE FALSE
  <2>1. ~L[n].stopped /\ L[n].state # "idle" /\ wants'[L[n].key] = "ble"
    BY <1>4 DEF LinksOK, LinkOK
  <2>2. m1[L[n].key] = n /\ L[n].key \in Keys \ {r.key}
    BY <1>2, <1>3, <2>1
  <2>3. Effective(L[n].key, active') = "ble"
    BY <1>4, <2>1, <2>2, EffectiveType
  <2> QED
    BY <1>4, <2>1, <2>2, <2>3, HubAssumption DEF CheckBleExclusivity
<1> HIDE DEF M
<1>5. \A n \in Links : LinkOK(M[n])
  BY <1>1 DEF LinksOK
<1>6. \A n \in Links : ~M[n].stopped => m1[M[n].key] = n
  BY <1>1, <1>3
<1>7. \A n \in Links : M[n].conn = "ble" /\ M[n].key # Default => wants'[M[n].key] = "ble"
  BY <1>1 DEF LinksOK
<1>8. \A n, o \in Links : M[n].conn = "ble" /\ M[o].conn = "ble" /\ Default \notin {M[n].key, M[o].key} => n = o
  BY <1>1, <1>4 DEF LinksOK
<1> QED
  BY <1>5, <1>6, <1>7, <1>8 DEF LinksOK, M

LEMMA EnsureLinks ==
  ASSUME NEW k, NEW m \in MapType, NEW L \in [Links -> LinkType], LinksOK(m, L, wants'), active' \in SUBSET Keys,
         wants' \in WantsType, EnsureLinkRunning(k, m, L)
  PROVE  LinksOK(map', link', wants') /\ (ending /\ (\A l \in Links : L[l].stopped) => \A l \in Links : link'[l].stopped)
<1>1. CASE map' = m /\ link' = L
  BY <1>1
<1>2. ASSUME NEW l, NEW r, Started(k, m, L, l, r) PROVE LinksOK(map', link', wants') /\ ~ending
  <2>1. /\ l \in Links /\ L[l].stopped /\ k \in Keys /\ m[k] = NoLink /\ ~ending
        /\ map' = [m EXCEPT ![k] = l] /\ link' = [L EXCEPT ![l] = r]
        /\ r \in LinkType /\ LinkOK(r) /\ r.key = k
        /\ r.conn = "ble" => /\ ~CheckBleExclusivity(r.key, active', map', L)
                             /\ r.key # Default => wants'[r.key] = "ble"
    BY <1>2 DEF Started, Unused
  <2>2. map' \in MapType /\ map'[k] = l /\ \A j \in Keys \ {k} : map'[j] = m[j]
    BY <2>1 DEF MapType
  <2> QED
    BY <2>1, <2>2, AttemptOK
<1> QED
  BY <1>1, <1>2, EnsureOutcome

\* Taking the link of a key out of use, whatever its profile asks for from now on.
LEMMA TakenOut ==
  ASSUME NEW k \in Keys, NEW r \in LinkType, map \in MapType, link \in [Links -> LinkType], LinksOK(map, link, wants),
         wants \in WantsType, wants' \in WantsType, \A j \in Keys \ {k} : wants'[j] = wants[j],
         r.stopped /\ LinkOK(r), NEW L, L = IF map[k] = NoLink THEN link ELSE [link EXCEPT ![map[k]] = r]
  PROVE  LinksOK(map, L, wants') /\ LinksOK([map EXCEPT ![k] = NoLink], L, wants')
<1> DEFINE m == [map EXCEPT ![k] = NoLink]
<1>1. ASSUME NEW n \in Links
      PROVE  \/ L[n] = link[n] /\ map[k] # n
             \/ L[n] = r
  BY HubAssumption DEF MapType
<1>2. ASSUME NEW n \in Links, ~L[n].stopped
      PROVE  L[n] = link[n] /\ L[n].key \in Keys \ {k} /\ map[L[n].key] = n /\ m[L[n].key] = n
             /\ wants'[L[n].key] = wants[L[n].key]
  <2>1. L[n] = link[n] /\ map[k] # n
    BY <1>1, <1>2
  <2>2. map[L[n].key] = n /\ L[n].key \in Keys
    BY <1>2, <2>1 DEF LinksOK, LinkType
  <2> QED
    BY <2>1, <2>2 DEF MapType
<1> HIDE DEF m
<1>3. \A n \in Links : LinkOK(L[n])
  BY <1>1 DEF LinksOK
<1>4. \A n \in Links : L[n].conn = "ble" => ~L[n].stopped
  BY <1>3 DEF LinkOK
<1>5. \A n \in Links : L[n].conn = "ble" /\ L[n].key # Default => wants'[L[n].key] = "ble"
  BY <1>2, <1>4 DEF LinksOK
<1>6. \A n, o \in Links : L[n].conn = "ble" /\ L[o].conn = "ble" /\ Default \notin {L[n].key, L[o].key} => n = o
  BY <1>2, <1>4 DEF LinksOK
<1> QED
  BY <1>2, <1>3, <1>5, <1>6 DEF LinksOK, m

\* No close is awaited on behalf of a call.
NoneClosing(L) == \A l \in Links : L[l].closing \notin Calls

LEMMA ProceedHub ==
  ASSUME TableInv, TableInv', NEW c \in Calls, NEW op, NEW k \in Keys, NEW todo, NEW L \in [Links -> LinkType],
         NEW m \in MapType, LinksOK(m, L, wants'), NoneClosing(L), ending' = ending,
         ending => \A l \in Links : L[l].stopped, Proceed(c, op, k, todo, m, L)
  PROVE  HubInv'
<1>1. active' \in SUBSET Keys /\ wants' \in WantsType
  BY DEF TableInv, TypeOK, WantsType
<1>2. LinksOK(map', link', wants') /\ NoneClosing(link') /\ (ending => \A l \in Links : link'[l].stopped)
  <2>1. CASE map' = m /\ link' = L
    BY <2>1
  <2>2. CASE EnsureLinkRunning(k, m, L)
    <3>1. \A l \in Links : link'[l].closing = L[l].closing
      BY <1>1, <2>2, EnsureKeeps
    <3>2. LinksOK(map', link', wants') /\ (ending /\ (\A l \in Links : L[l].stopped) => \A l \in Links : link'[l].stopped)
      BY <1>1, <2>2, EnsureLinks
    <3> QED
      BY <3>1, <3>2 DEF NoneClosing
  <2> QED
    BY <2>1, <2>2 DEF Proceed
<1> QED
  BY <1>2 DEF HubInv, LinksOK, CallsOK, NoneClosing

LEMMA RemoveHub ==
  ASSUME TableInv, TableInv', HubInv, OneCall, NEW c \in Calls, NEW op \in {"restart", "deactivate", "clear"},
         NEW k \in Keys, NEW todo, RemoveLink(c, op, k, todo), \A l \in Links : link[l].closing # c,
         \A j \in Keys \ {k} : wants'[j] = wants[j], ending' = ending
  PROVE  HubInv'
<1>1. map \in MapType /\ link \in [Links -> LinkType] /\ wants \in WantsType /\ wants' \in WantsType /\ LinksOK(map, link, wants)
  BY DEF TableInv, TypeOK, MapType, LinkType, WantsType, HubInv
<1>2. NoneClosing(link)
  BY DEF OneCall, NoneClosing
<1>3. CASE map[k] # NoLink /\ link[map[k]].conn # "none"
  <2>1. PICK r : r = Closing(link[map[k]], c)
    OBVIOUS
  <2>2. map[k] \in Links /\ r \in LinkType /\ r.stopped /\ r.closing = c /\ LinkOK(r)
    BY <1>1, <1>3, <2>1, StoppedType DEF MapType, LinkOK
  <2>3. /\ link' = [link EXCEPT ![map[k]] = r] /\ map' = map
        /\ call' = [call EXCEPT ![c] = [op |-> op, key |-> k, todo |-> todo]]
    BY <1>3, <2>1 DEF RemoveLink
  <2>4. LinksOK(map', link', wants')
    BY <1>1, <1>3, <2>2, <2>3, TakenOut
  <2>5. CallsOK'
    <3>1. \A l \in Links, d \in Calls : link'[l].closing = d => d = c /\ l = map[k]
      BY <1>1, <1>2, <2>2, <2>3 DEF OneCall, NoneClosing
    <3>2. call'[c].op # "none" /\ call'[c].key = k /\ link'[map[k]].stopped
      BY <1>1, <2>2, <2>3 DEF TableInv, TypeOK
    <3> QED
      BY <2>3, <3>1, <3>2 DEF CallsOK
  <2>6. ending => \A l \in Links : link'[l].stopped
    BY <1>1, <2>2, <2>3 DEF HubInv
  <2> QED
    BY <2>4, <2>5, <2>6 DEF HubInv, LinksOK
<1>4. CASE ~(map[k] # NoLink /\ link[map[k]].conn # "none")
  <2>1. PICK r : r = IF map[k] = NoLink THEN Garbage ELSE Stopped(link[map[k]])
    OBVIOUS
  <2>2. PICK L : L = IF map[k] = NoLink THEN link ELSE [link EXCEPT ![map[k]] = r]
    OBVIOUS
  <2>3. r \in LinkType /\ r.stopped /\ LinkOK(r) /\ (map[k] # NoLink => r.closing = link[map[k]].closing)
    <3>1. CASE map[k] = NoLink
      BY <2>1, <3>1, KeysAre DEF LinkOK, Garbage, NewLink, LinkType
    <3>2. CASE map[k] # NoLink
      <4>1. link[map[k]] \in LinkType
        BY <1>1, <3>2 DEF MapType
      <4> QED
        BY <2>1, <3>2, <4>1, StoppedType DEF LinkOK
    <3> QED
      BY <3>1, <3>2
  <2>4. LinksOK([map EXCEPT ![k] = NoLink], L, wants')
    BY <1>1, <2>2, <2>3, TakenOut
  <2>5. L \in [Links -> LinkType] /\ NoneClosing(L) /\ (ending => \A l \in Links : L[l].stopped)
    BY <1>1, <1>2, <2>2, <2>3 DEF NoneClosing, HubInv, MapType
  <2>6. Proceed(c, op, k, todo, [map EXCEPT ![k] = NoLink], L)
    BY <1>4, <2>1, <2>2 DEF RemoveLink
  <2>7. [map EXCEPT ![k] = NoLink] \in MapType
    BY <1>1 DEF MapType
  <2> QED
    BY <2>4, <2>5, <2>6, <2>7, ProceedHub
<1> QED
  BY <1>3, <1>4

\* A call that is free, or between two keys, has no close to wait for.
LEMMA FreeCall == ASSUME CallsOK, NEW c \in Calls, Free(c) PROVE \A l \in Links : link[l].closing # c
BY DEF CallsOK, Free, Idle

\* What starts a link and is no removal.
LEMMA EnsureHub ==
  ASSUME TableInv, TableInv', HubInv, NEW k, EnsureLinkRunning(k, map, link), UNCHANGED <<wants, ending>>,
         call' = call \/ NoneClosing(link)
  PROVE  HubInv'
<1>1. /\ map \in MapType /\ link \in [Links -> LinkType] /\ wants' \in WantsType /\ LinksOK(map, link, wants')
      /\ active' \in SUBSET Keys /\ call \in [Calls -> CallType]
  BY DEF TableInv, TypeOK, MapType, LinkType, WantsType, CallType, HubInv
<1>2. LinksOK(map', link', wants') /\ (ending => \A l \in Links : link'[l].stopped)
  BY <1>1, EnsureLinks DEF HubInv
<1>3. CallsOK'
  <2>0. /\ \A l \in Links : link'[l].closing = link[l].closing
        /\ \A j \in Keys : map[j] # NoLink => map'[j] = map[j] /\ link'[map[j]] = link[map[j]]
    BY <1>1, EnsureKeeps
  <2>1. NoneClosing(link) => CallsOK'
    BY <2>0 DEF NoneClosing, CallsOK
  <2>2. ASSUME call' = call, NEW l \in Links, NEW c \in Calls, link'[l].closing = c
        PROVE  call'[c].op # "none" /\ map'[call'[c].key] = l /\ link'[l].stopped
    <3>1. call[c].op # "none" /\ map[call[c].key] = l /\ link[l].stopped
      BY <2>0, <2>2 DEF HubInv, CallsOK
    <3>2. call[c].key \in Keys /\ l # NoLink
      BY <1>1, HubAssumption DEF CallType
    <3> QED
      BY <2>0, <2>2, <3>1, <3>2
  <2> QED
    BY <2>1, <2>2 DEF CallsOK
<1> QED
  BY <1>2, <1>3 DEF HubInv, LinksOK

\* A link moves on by itself, stays that of its key and starts nothing.
LEMMA LinkHubStep ==
  ASSUME TableInv, HubInv, NEW l \in Links, NEW r \in LinkType, link' = [link EXCEPT ![l] = r],
         UNCHANGED <<wants, map, call, ending>>, LinkOK(r), r.key = link[l].key, r.stopped = link[l].stopped,
         r.conn = "ble" => link[l].conn = "ble", r.closing \in Calls => r.closing = link[l].closing
  PROVE  HubInv'
<1>1. link \in [Links -> LinkType]
  BY DEF TableInv, TypeOK, LinkType
<1>2. link'[l] = r /\ \A n \in Links \ {l} : link'[n] = link[n]
  BY <1>1
<1>3. LinksOK(map, link', wants)
  BY <1>2 DEF HubInv, LinksOK
<1>4. CallsOK'
  BY <1>2 DEF HubInv, CallsOK
<1> QED
  BY <1>2, <1>3, <1>4 DEF HubInv, LinksOK

LEMMA InitHub == Init => HubInv
<1> SUFFICES ASSUME Init PROVE HubInv
  OBVIOUS
<1>1. \A l \in Links : link[l] = Garbage
  BY DEF Init
<1>2. /\ Garbage.stopped /\ Garbage.conn = "none" /\ ~Garbage.timer /\ Garbage.closing = "no"
  BY DEF Garbage, NewLink
<1>3. "no" \notin Calls
  BY HubAssumption
<1> QED
  BY <1>1, <1>2, <1>3 DEF Init, HubInv, LinksOK, LinkOK, CallsOK

LEMMA TimerHub == ASSUME TableInv, TableInv', HubInv, NEW l \in Links, ReconnectTimerFires(l) PROVE HubInv'
<1>1. /\ map \in MapType /\ link \in [Links -> LinkType] /\ wants' \in WantsType /\ LinksOK(map, link, wants')
      /\ active' \in SUBSET Keys
  BY DEF TableInv, TypeOK, MapType, LinkType, WantsType, HubInv, ReconnectTimerFires
<1>2. /\ link[l].timer /\ link[l].conn = "none" /\ ~link[l].stopped /\ link[l].closing = "no" /\ link[l] \in LinkType
      /\ map[link[l].key] = l
  BY <1>1 DEF ReconnectTimerFires, LinksOK, LinkOK
<1>3. PICK r, s : r = [link[l] EXCEPT !.timer = FALSE] /\ s = Connect(r, map, link)
  OBVIOUS
<1>4. /\ r \in LinkType /\ r.conn = "none" /\ ~r.timer /\ ~r.stopped /\ r.closing = "no" /\ r.key = link[l].key
  BY <1>2, <1>3 DEF LinkType
<1>5. /\ s \in LinkType /\ LinkOK(s) /\ s.key = link[l].key /\ ~s.stopped /\ s.closing = "no"
      /\ s.conn = "ble" => /\ ~CheckBleExclusivity(s.key, active', map, link)
                           /\ s.key # Default => wants'[s.key] = "ble"
  <2>1. PICK k : k = link[l].key
    OBVIOUS
  <2>2. /\ s \in LinkType /\ LinkOK(s) /\ s.key = r.key /\ ~s.stopped /\ s.closing = "no"
        /\ s.conn = "ble" => /\ ~CheckBleExclusivity(r.key, active', map, link)
                             /\ r.key # Default => wants'[r.key] = "ble"
    <3>1. s = Connect(r, map, link) /\ active' \in SUBSET Keys /\ wants' \in WantsType
      BY <1>1, <1>3
    <3>2. r \in LinkType /\ r.conn = "none" /\ ~r.timer /\ ~r.stopped /\ r.closing = "no"
      BY <1>4
    <3> QED
      BY <3>1, <3>2, ConnectOK
  <2>3. r.key = k /\ s.key = k
    BY <1>4, <2>1, <2>2
  <2> QED
    BY <2>1, <2>2, <2>3
<1>6. link' = [link EXCEPT ![l] = s] /\ UNCHANGED <<map, call, ending>>
  BY <1>3 DEF ReconnectTimerFires
<1>7. LinksOK(map', link', wants')
  BY <1>1, <1>2, <1>5, <1>6, AttemptOK
<1>8. CallsOK' /\ (ending' => \A n \in Links : link'[n].stopped)
  BY <1>1, <1>2, <1>5, <1>6, HubAssumption DEF HubInv, CallsOK
<1> QED
  BY <1>7, <1>8 DEF HubInv, LinksOK

LEMMA CloseHub == ASSUME TableInv, TableInv', HubInv, OneCall, NEW l \in Links, CloseResolves(l) PROVE HubInv'
<1>1. /\ map \in MapType /\ link \in [Links -> LinkType] /\ wants \in WantsType /\ wants' = wants /\ ending' = ending
      /\ call \in [Calls -> CallType] /\ LinksOK(map, link, wants)
  BY DEF TableInv, TypeOK, MapType, LinkType, CallType, WantsType, HubInv, CloseResolves
<1>2. PICK w, r : w = link[l].closing /\ r = [link[l] EXCEPT !.closing = "no", !.state = "idle"]
  OBVIOUS
<1>3. w # "no" /\ link[l].conn = "none" /\ ~link[l].timer /\ link[l] \in LinkType
  BY <1>1, <1>2 DEF CloseResolves, LinksOK, LinkOK
<1>4. /\ r \in LinkType /\ r.conn = "none" /\ ~r.timer /\ r.closing = "no" /\ r.stopped = link[l].stopped
      /\ r.key = link[l].key /\ LinkOK(r)
  BY <1>2, <1>3 DEF LinkType, LinkOK
<1>5. CASE w \in Calls
  <2>1. PICK k : k = call[w].key
    OBVIOUS
  <2>2. k \in Keys /\ map[k] = l /\ r.stopped /\ l # NoLink
    BY <1>1, <1>2, <1>4, <1>5, <2>1, HubAssumption DEF HubInv, CallsOK, CallType
  <2>3. PICK L : L = [link EXCEPT ![l] = r]
    OBVIOUS
  <2>4. L \in [Links -> LinkType] /\ [map EXCEPT ![k] = NoLink] \in MapType
    BY <1>1, <1>4, <2>3 DEF MapType
  <2>5. LinksOK([map EXCEPT ![k] = NoLink], L, wants')
    BY <1>1, <1>4, <2>2, <2>3, TakenOut
  <2>6. NoneClosing(L)
    <3>1. ASSUME NEW n \in Links, link[n].closing \in Calls PROVE n = l
      BY <1>5, <2>1, <2>2, <3>1 DEF HubInv, CallsOK, OneCall
    <3>2. "no" \notin Calls
      BY HubAssumption
    <3> QED
      BY <1>1, <1>4, <2>3, <3>1, <3>2 DEF NoneClosing
  <2>7. ending => \A n \in Links : L[n].stopped
    BY <1>1, <2>2, <2>3 DEF HubInv
  <2>8. Proceed(w, call[w].op, k, call[w].todo, [map EXCEPT ![k] = NoLink], L)
    BY <1>2, <1>5, <2>1, <2>3 DEF CloseResolves
  <2> QED
    BY <1>1, <1>5, <2>2, <2>4, <2>5, <2>6, <2>7, <2>8, ProceedHub
<1>6. CASE w \notin Calls
  <2>1. PICK b \in BOOLEAN : b = (w = "lost" /\ ~r.stopped)
    OBVIOUS
  <2>2. link' = [link EXCEPT ![l] = [r EXCEPT !.timer = b]] /\ UNCHANGED <<wants, map, call, ending>>
    BY <1>2, <1>6, <2>1 DEF CloseResolves
  <2>3. PICK s : s = [r EXCEPT !.timer = b]
    OBVIOUS
  <2>4. /\ s \in LinkType /\ s.conn = "none" /\ s.timer = b /\ s.closing = "no" /\ s.stopped = r.stopped /\ s.key = r.key
    BY <1>4, <2>1, <2>3 DEF LinkType
  <2>5. LinkOK(s)
    BY <2>1, <2>4 DEF LinkOK
  <2> QED
    BY <1>4, <2>2, <2>3, <2>4, <2>5, HubAssumption, LinkHubStep
<1> QED
  BY <1>5, <1>6

LEMMA StopHub == ASSUME TableInv, HubInv, Stop PROVE HubInv'
<1>1. link \in [Links -> LinkType] /\ map \in MapType
  BY DEF TableInv, TypeOK, LinkType, MapType
<1>2. ASSUME NEW l \in Links
      PROVE  /\ link'[l].stopped /\ link'[l].conn = "none" /\ ~link'[l].timer
             /\ link'[l].closing \in Calls => link'[l].closing = link[l].closing
  <2>1. CASE \A k \in Keys : map[k] # l
    <3>1. link'[l] = link[l]
      BY <2>1 DEF Stop
    <3>2. link[l].stopped
      BY <1>1, <2>1 DEF HubInv, LinksOK, LinkType
    <3> QED
      BY <3>1, <3>2 DEF HubInv, LinksOK, LinkOK
  <2>2. CASE ~\A k \in Keys : map[k] # l
    <3>1. link'[l] = Stopped(link[l]) \/ link'[l] = Closing(link[l], "end")
      BY <2>2 DEF Stop
    <3>2. "end" \notin Calls /\ link[l] \in LinkType
      BY <1>1, HubAssumption
    <3> QED
      BY <3>1, <3>2, StoppedType
  <2> QED
    BY <2>1, <2>2
<1>3. LinksOK(map', link', wants')
  <2>1. \A l \in Links : LinkOK(link'[l])
    BY <1>2 DEF LinkOK
  <2> QED
    BY <1>2, <2>1 DEF LinksOK
<1>4. CallsOK'
  BY <1>2 DEF HubInv, CallsOK, Stop
<1> QED
  BY <1>2, <1>3, <1>4 DEF HubInv, LinksOK

LEMMA StepHub == TableInv /\ TableInv' /\ HubInv /\ OneCall /\ [Next]_vars => HubInv'
<1> SUFFICES ASSUME TableInv, TableInv', HubInv, OneCall, [Next]_vars PROVE HubInv'
  OBVIOUS
<1>1. link \in [Links -> LinkType] /\ call \in [Calls -> CallType] /\ wants \in WantsType /\ map \in MapType /\ boot \subseteq Keys
  BY DEF TableInv, TypeOK, LinkType, CallType, WantsType, MapType
<1>2. ASSUME NEW k \in Profiles, ActivateProfile(k) PROVE HubInv'
  BY <1>2, EnsureHub DEF ActivateProfile
\* The profile of a key without a link may ask for something else.
<1>3. ASSUME NEW k \in Keys, map[k] = NoLink, wants' \in WantsType, \A j \in Keys \ {k} : wants'[j] = wants[j],
             UNCHANGED <<map, link, call, ending>>
      PROVE  HubInv'
  <2>1. Garbage \in LinkType /\ Garbage.stopped /\ LinkOK(Garbage)
    BY KeysAre DEF Garbage, NewLink, LinkType, LinkOK
  <2>2. LinksOK(map, link, wants')
    BY <1>1, <1>3, <2>1, TakenOut DEF HubInv
  <2> QED
    BY <1>3, <2>2 DEF HubInv, LinksOK, CallsOK
<1>4. ASSUME NEW k \in Profiles, DeleteProfile(k) PROVE HubInv'
  <2>1. wants' \in WantsType /\ \A j \in Keys \ {k} : wants'[j] = wants[j]
    BY <1>1, <1>4 DEF DeleteProfile, WantsType
  <2> QED
    BY <1>3, <1>4, <2>1, KeysAre DEF DeleteProfile
<1>5. ASSUME NEW c \in Calls, NEW k \in Profiles, DeactivateProfile(c, k) PROVE HubInv'
  <2>1. (\A l \in Links : link[l].closing # c) /\ RemoveLink(c, "deactivate", k, {}) /\ UNCHANGED <<wants, ending>>
    BY <1>5, FreeCall DEF DeactivateProfile, HubInv
  <2> QED
    BY <2>1, KeysAre, RemoveHub
<1>6. ASSUME NEW c \in Calls, NEW k \in Keys, NEW t \in Transports, Reconfigure(c, k, t) PROVE HubInv'
  <2>1. wants' \in WantsType /\ (\A j \in Keys \ {k} : wants'[j] = wants[j]) /\ ending' = ending
        /\ \A l \in Links : link[l].closing # c
    BY <1>1, <1>6, FreeCall DEF Reconfigure, WantsType, HubInv
  <2>2. CASE map[k] # NoLink
    BY <1>6, <2>1, <2>2, RemoveHub DEF Reconfigure
  <2>3. CASE map[k] = NoLink
    BY <1>3, <1>6, <2>1, <2>3 DEF Reconfigure
  <2> QED
    BY <2>2, <2>3
<1>7. ASSUME NEW c \in Calls, DeactivateAll(c) PROVE HubInv'
  <2>1. \A l \in Links, d \in Calls : link[l].closing # d
    BY <1>7, FreeCall DEF DeactivateAll, HubInv, OneCall
  <2> QED
    BY <1>7, <2>1 DEF DeactivateAll, HubInv, LinksOK, CallsOK
<1>8. ASSUME NEW c \in Calls, ClearNext(c) PROVE HubInv'
  <2>1. Least(call[c].todo) \in Keys
    BY <1>1, <1>8, LeastOf, HubAssumption, KeysAre DEF ClearNext, CallType
  <2>2. /\ RemoveLink(c, "clear", Least(call[c].todo), call[c].todo \ {Least(call[c].todo)})
        /\ \A l \in Links : link[l].closing # c
        /\ UNCHANGED <<wants, ending>>
    BY <1>8 DEF ClearNext, Clearing
  <2> QED
    BY <2>1, <2>2, RemoveHub
<1>9. ASSUME NEW c \in Calls, ClearDone(c) PROVE HubInv'
  <2>1. NoneClosing(link) /\ EnsureLinkRunning(Default, map, link) /\ UNCHANGED <<wants, ending>>
    BY <1>9 DEF ClearDone, Clearing, OneCall, NoneClosing
  <2> QED
    BY <2>1, EnsureHub
<1>10. CASE StartNext
  BY <1>10, EnsureHub DEF StartNext
<1>11. CASE Stop
  BY <1>11, StopHub
<1>12. ASSUME NEW l \in Links, Connected(l) PROVE HubInv'
  <2>1. PICK r : r = [link[l] EXCEPT !.state = "connected"]
    OBVIOUS
  <2>2. /\ r \in LinkType /\ r.key = link[l].key /\ r.stopped = link[l].stopped /\ r.conn = link[l].conn
        /\ r.closing = link[l].closing /\ r.timer = link[l].timer /\ r.state = "connected"
    BY <1>1, <2>1 DEF LinkType
  <2>3. LinkOK(r)
    BY <2>2 DEF HubInv, LinksOK, LinkOK
  <2>4. link' = [link EXCEPT ![l] = r] /\ UNCHANGED <<wants, map, call, ending>>
    BY <1>12, <2>1 DEF Connected
  <2> QED
    BY <2>2, <2>3, <2>4, LinkHubStep
<1>13. ASSUME NEW l \in Links, Loses(l) PROVE HubInv'
  <2>1. PICK r : r = [link[l] EXCEPT !.conn = "none", !.timer = FALSE, !.closing = "lost"]
    OBVIOUS
  <2>2. /\ r \in LinkType /\ r.key = link[l].key /\ r.stopped = link[l].stopped /\ r.conn = "none"
        /\ r.closing = "lost" /\ ~r.timer
    BY <1>1, <2>1 DEF LinkType
  <2>3. LinkOK(r)
    BY <2>2 DEF LinkOK
  <2>4. link' = [link EXCEPT ![l] = r] /\ UNCHANGED <<wants, map, call, ending>>
    BY <1>13, <2>1 DEF Loses
  <2> QED
    BY <2>2, <2>3, <2>4, HubAssumption, LinkHubStep
<1>14. CASE UNCHANGED vars
  BY <1>14 DEF vars, HubInv, LinksOK, CallsOK
<1> QED
  BY <1>2, <1>4, <1>5, <1>6, <1>7, <1>8, <1>9, <1>10, <1>11, <1>12, <1>13, <1>14, TimerHub, CloseHub DEF Next

LEMMA HubInvariant == ASSUME OneCall PROVE Spec => []HubInv
<1>1. TableInv /\ TableInv' /\ HubInv /\ [Next]_vars => HubInv'
  BY StepHub
<1> QED
  BY <1>1, InitHub, TableInvariant, PTL DEF Spec

LEMMA HubImplies == TableInv /\ HubInv => NoOrphan /\ QuietAfterStop /\ BleProfilesExclusive
BY DEF HubInv, LinksOK, LinkOK, NoOrphan, QuietAfterStop, BleProfilesExclusive

\* While the calls come one at a time, every link that runs is the one the hub
\* knows under its key, through edits, removals, losses, restarts and shutdown.
THEOREM OrphanCorrect == ASSUME OneCall PROVE Spec => []NoOrphan
<1>1. TableInv /\ HubInv => NoOrphan
  BY HubImplies
<1> QED
  BY <1>1, TableInvariant, HubInvariant, PTL

\* Once stop() has begun no connection is open and no attempt is to come, whatever
\* close, restart or start was awaited.
THEOREM QuietCorrect == ASSUME OneCall PROVE Spec => []QuietAfterStop
<1>1. TableInv /\ HubInv => QuietAfterStop
  BY HubImplies
<1> QED
  BY <1>1, TableInvariant, HubInvariant, PTL

\* Of any number of profiles at most one holds the BLE adapter.
THEOREM ExclusiveCorrect == ASSUME OneCall PROVE Spec => []BleProfilesExclusive
<1>1. TableInv /\ HubInv => BleProfilesExclusive
  BY HubImplies
<1> QED
  BY <1>1, TableInvariant, HubInvariant, PTL
=============================================================================
