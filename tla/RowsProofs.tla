----------------------------- MODULE RowsProofs -----------------------------
(***************************************************************************)
(* Proofs about the two models of rows: SchemaMigrations, for any          *)
(* processes, any builds and any number of rows, and WebStore, for any     *)
(* messages, requests and events.                                          *)
(***************************************************************************)
EXTENDS SchemaMigrations, WebStore, WellFoundedInduction, TLAPS

---------------------------------------------------------------------------
(* The eighteen migrations as a ladder: each finds what it needs among     *)
(* what those before it have added, and none adds anything twice.          *)

Added(v) == UNION {MIGRATIONS[i].adds : i \in 1..v}

LEMMA LatestIs == Latest = 18 /\ Latest \in Nat
BY DEF Latest, MIGRATIONS

LEMMA HasNext == ASSUME NEW n \in 0..17 PROVE Added(n + 1) = Added(n) \cup MIGRATIONS[n + 1].adds
<1>1. 1..(n + 1) = (1..n) \cup {n + 1}
  OBVIOUS
<1> QED
  BY <1>1, Zenon DEF Added

LEMMA Contents ==
  /\ MIGRATIONS[1] = Initial /\ MIGRATIONS[2] = AuthorPrefix /\ MIGRATIONS[3] = FullText
  /\ MIGRATIONS[4] = RemoteTelemetry /\ MIGRATIONS[5] = SenderPrefixes /\ MIGRATIONS[6] = IngestionIds
  /\ MIGRATIONS[7] = Shapes /\ MIGRATIONS[8] = Sessions /\ MIGRATIONS[9] = OutboundQueue
  /\ MIGRATIONS[10] = Profiles /\ MIGRATIONS[11] = Isolation /\ MIGRATIONS[12] = Links
  /\ MIGRATIONS[13] = Monitoring /\ MIGRATIONS[14] = Timeline /\ MIGRATIONS[15] = Webhooks
  /\ MIGRATIONS[16] = EventScope /\ MIGRATIONS[17] = FailureStreak /\ MIGRATIONS[18] = PushSubscriptions
BY DEF MIGRATIONS

LEMMA Needs ==
  ASSUME NEW n \in 1..18, NEW old, \A i \in 1..(n - 1) : MIGRATIONS[i].adds \subseteq old
  PROVE  MIGRATIONS[n].needs \subseteq old
<1>1. CASE n \in {1, 10, 13, 15, 18}
  BY <1>1, Contents DEF Tables, Initial, Profiles, Monitoring, Webhooks, PushSubscriptions
<1>2. CASE n \in {2, 3, 4, 5, 6, 9}
  BY <1>2, Contents DEF Tables, On, Initial, AuthorPrefix, FullText, RemoteTelemetry, SenderPrefixes, IngestionIds, OutboundQueue
<1>3. CASE n = 7
  BY <1>3, Contents DEF Tables, On, Initial, SenderPrefixes, Shapes
<1>4. CASE n \in {8, 16}
  BY <1>4, Contents DEF Tables, On, Initial, Sessions, EventScope
<1>5. CASE n = 11
  BY <1>5, Contents DEF Tables, On, Initial, RemoteTelemetry, SenderPrefixes, OutboundQueue, Isolation
<1>6. CASE n = 12
  BY <1>6, Contents DEF Tables, On, Initial, Profiles, Links
<1>7. CASE n = 14
  BY <1>7, Contents DEF Tables, On, Isolation, Timeline
<1>8. CASE n = 17
  BY <1>8, Contents DEF Tables, On, Webhooks, FailureStreak
<1> QED
  BY <1>1, <1>2, <1>3, <1>4, <1>5, <1>6, <1>7, <1>8

LEMMA Fresh ==
  ASSUME NEW n \in 1..18, NEW i \in 1..(n - 1)
  PROVE  MIGRATIONS[n].adds \cap MIGRATIONS[i].adds = {}
<1> USE Contents DEF Tables, On, Initial, AuthorPrefix, FullText, RemoteTelemetry, SenderPrefixes, IngestionIds, Shapes, Sessions, OutboundQueue, Profiles, Isolation, Links, Monitoring, Timeline, Webhooks, EventScope, FailureStreak, PushSubscriptions
<1>1. CASE n \in 1..6
  BY <1>1
<1>2. CASE n \in 7..11
  BY <1>2
<1>3. CASE n \in 12..14
  BY <1>3
<1>4. CASE n \in 15..18
  BY <1>4
<1> QED
  BY <1>1, <1>2, <1>3, <1>4

\* The next step of the ladder fits a database that has all those before it.
LEMMA NextFits ==
  ASSUME NEW n \in 1..18, NEW d, d.has = Added(n - 1)
  PROVE  Fits(n, d)
<1>1. \A i \in 1..(n - 1) : MIGRATIONS[i].adds \subseteq Added(n - 1)
  BY DEF Added
<1>2. MIGRATIONS[n].needs \subseteq Added(n - 1)
  BY <1>1, Needs
<1>3. ASSUME NEW x \in MIGRATIONS[n].adds PROVE x \notin Added(n - 1)
  BY <1>3, Fresh DEF Added
<1> QED
  BY <1>2, <1>3, Zenon DEF Fits

---------------------------------------------------------------------------
(* The invariant: what the database has is the ladder up to its version,   *)
(* a process that has begun and is not overtaken stands at that version,   *)
(* and the rows are what the migrations so far have made of them.          *)

Objects == Added(Latest)
Names == {"full", "short", "padded", "none"}
MessageType == [kind : {"dm", "channel"}, was : Names, key : Names, prefix : Names, radio : {0, 1}]
SettingsType == [active : {"unset", "null", "profile"}, standby : BOOLEAN, radio : {0, 1}]
LinkType == [profile : {"default", "profile"}, standby : BOOLEAN, radio : {0, 1}]
DbType == [version : 0..18, has : SUBSET Objects, self : BOOLEAN, contacts : SUBSET {"padded"},
           messages : Seq(MessageType), radios : SUBSET {1}, settings : SettingsType, links : SUBSET LinkType]

LadderOK == db \in DbType /\ db.has = Added(db.version)

ProcessesOK ==
  /\ build \in [Processes -> 0..18] /\ at \in [Processes -> 0..18]
  /\ pc \in [Processes -> {"off", "open", "begun", "serving"}]
  /\ \A p \in Processes : /\ at[p] <= db.version /\ at[p] <= build[p]
                          /\ pc[p] = "begun" => at[p] < build[p] /\ (p \notin stale => at[p] = db.version)

\* A message in a schema of version v: by name before the prefixes, and with its
\* radio after the isolation.
MessageOK(m, v, contacts) ==
  /\ m.kind = "channel" => m.was = "none" /\ m.key = "none" /\ m.prefix = "none"
  /\ m.kind = "dm" => /\ m.was # "none"
                      /\ \/ m.key = m.was /\ m.prefix = "none"
                         \/ m.key = "none" /\ m.prefix = m.was
  /\ v < 5 => m.key = m.was
  /\ v >= 5 => m.key # "short" /\ (m.was = "full" => m.key = "full") /\ (m.key = "padded" => "padded" \in contacts)
  /\ v >= 11 => m.radio = 1

MessagesOK == \A i \in DOMAIN db.messages : MessageOK(db.messages[i], db.version, db.contacts)

RadioOK == IF db.version < 11 THEN db.radios = {} ELSE db.self <=> db.radios = {1}

\* Until links take over, the settings are those that were asked for.
ConnectionOK ==
  /\ asked \in SettingsType
  /\ db.version < 12 => db.settings = asked
  /\ OneConnection

SchemaInv == LadderOK /\ ProcessesOK /\ MessagesOK /\ RadioOK /\ ConnectionOK

LEMMA HasIsObjects == ASSUME NEW v \in 0..18 PROVE Added(v) \subseteq Objects
BY LatestIs DEF Added, Objects

LEMMA SchemaImplies == SchemaInv => StepsFit /\ HistoryKept /\ OneConnection
<1> SUFFICES ASSUME SchemaInv PROVE StepsFit /\ HistoryKept
  BY DEF SchemaInv, ConnectionOK
<1>1. ASSUME NEW p \in Processes, pc[p] = "begun", p \notin stale PROVE Fits(at[p] + 1, db)
  <2>1. at[p] + 1 \in 1..18 /\ at[p] = (at[p] + 1) - 1 /\ at[p] = db.version
    BY <1>1 DEF SchemaInv, ProcessesOK
  <2>2. db.has = Added((at[p] + 1) - 1)
    BY <2>1 DEF SchemaInv, LadderOK
  <2> QED
    BY <2>1, <2>2, NextFits
<1>2. HistoryKept
  <2> SUFFICES ASSUME NEW i \in DOMAIN db.messages
               PROVE  LET m == db.messages[i] IN
                        /\ m.kind = "dm" => {m.key, m.prefix} = {m.was, Nothing}
                        /\ m.was = "full" => m.key = "full"
                        /\ db.version >= 5 /\ m.was = "short" => m.prefix = "short"
                        /\ db.version >= 5 /\ m.key = "padded" => "padded" \in db.contacts
                        /\ db.version >= 11 => m.radio = 1 /\ (db.self <=> db.radios = {1})
    BY DEF HistoryKept
  <2>1. db.messages[i] \in MessageType /\ MessageOK(db.messages[i], db.version, db.contacts) /\ db.version \in 0..18
    BY DEF SchemaInv, LadderOK, DbType, MessagesOK
  <2>2. db.version >= 11 => (db.self <=> db.radios = {1})
    BY <2>1 DEF SchemaInv, RadioOK
  <2> QED
    BY <2>1, <2>2 DEF MessageOK, MessageType, Names, Nothing
<1> QED
  BY <1>1, <1>2 DEF StepsFit

LEMMA InitSchema == Init => SchemaInv
<1> SUFFICES ASSUME Init PROVE SchemaInv
  OBVIOUS
<1>1. Added(0) = {}
  BY DEF Added
<1>2. LadderOK
  <2>1. Unset \in SettingsType
    BY DEF Unset, SettingsType
  <2> QED
    BY <1>1, <2>1 DEF Init, LadderOK, DbType
<1> QED
  BY <1>2 DEF Init, SchemaInv, ProcessesOK, MessagesOK, RadioOK, ConnectionOK, OneConnection, Unset, SettingsType

---------------------------------------------------------------------------
(* What a migration makes of the rows.                                     *)

\* The migration of prefixes.
LEMMA SeparatedOK ==
  ASSUME NEW m \in MessageType, NEW d, MessageOK(m, 4, d.contacts)
  PROVE  Separated(d, m) \in MessageType /\ MessageOK(Separated(d, m), 5, d.contacts)
<1>1. CASE m.kind = "dm" /\ (m.key = "short" \/ (m.key = "padded" /\ "padded" \notin d.contacts))
  <2>1. Separated(d, m) = [m EXCEPT !.prefix = m.key, !.key = Nothing]
    BY <1>1 DEF Separated
  <2> QED
    <3>1. m.was = m.key /\ m.was \in Names /\ m.was # "none" /\ m.was # "full"
      BY <1>1 DEF MessageType, MessageOK
    <3>2. /\ Separated(d, m) \in MessageType /\ Separated(d, m).kind = "dm" /\ Separated(d, m).was = m.was
          /\ Separated(d, m).key = "none" /\ Separated(d, m).prefix = m.was
      BY <1>1, <2>1, <3>1 DEF MessageType, Nothing, Names
    <3> QED
      BY <3>1, <3>2 DEF MessageOK
<1>2. CASE ~(m.kind = "dm" /\ (m.key = "short" \/ (m.key = "padded" /\ "padded" \notin d.contacts)))
  <2>1. Separated(d, m) = m
    BY <1>2 DEF Separated
  <2> QED
    BY <1>2, <2>1 DEF MessageType, MessageOK, Names
<1> QED
  BY <1>1, <1>2

\* The migration to radios.
LEMMA ByRadioOK ==
  ASSUME NEW m \in MessageType, NEW c, MessageOK(m, 10, c)
  PROVE  [m EXCEPT !.radio = 1] \in MessageType /\ MessageOK([m EXCEPT !.radio = 1], 11, c)
BY DEF MessageType, MessageOK

\* A row that is not touched fits the next version, but for the two that move rows.
LEMMA OtherVersions ==
  ASSUME NEW m, NEW v \in 0..17, v \notin {4, 10}, NEW c, MessageOK(m, v, c)
  PROVE  MessageOK(m, v + 1, c)
BY DEF MessageOK

\* The version moves on with the objects that are added; the rows stay as d has them.
LEMMA VersionOK ==
  ASSUME NEW n \in 1..18, NEW d \in DbType, d.has = Added(n - 1),
         db' = [d EXCEPT !.has = @ \cup MIGRATIONS[n].adds, !.version = n]
  PROVE  /\ LadderOK' /\ db'.version = n
         /\ db'.self = d.self /\ db'.contacts = d.contacts /\ db'.messages = d.messages
         /\ db'.radios = d.radios /\ db'.settings = d.settings /\ db'.links = d.links
<1>1. db' = [version |-> n, has |-> d.has \cup MIGRATIONS[n].adds, self |-> d.self, contacts |-> d.contacts,
             messages |-> d.messages, radios |-> d.radios, settings |-> d.settings, links |-> d.links]
  BY DEF DbType
<1>2. Added(n) = d.has \cup MIGRATIONS[n].adds
  <2>1. n - 1 \in 0..17 /\ (n - 1) + 1 = n
    OBVIOUS
  <2> QED
    BY <2>1, HasNext
<1>3. Added(n) \subseteq Objects
  BY HasIsObjects
<1> HIDE DEF DbType
<1>4. db' \in DbType
  BY <1>1, <1>2, <1>3 DEF DbType
<1> QED
  BY <1>1, <1>2, <1>4 DEF LadderOK

\* What each step makes of the rows.
LEMMA RowsAre ==
  ASSUME NEW n \in 1..18, NEW d, NEW e, e = Rows(n, d)
  PROVE  /\ n = 5 => e = [d EXCEPT !.messages = [i \in DOMAIN d.messages |-> Separated(d, d.messages[i])]]
         /\ n = 11 => e = ByRadio(d)
         /\ n = 12 => e = Carried(d)
         /\ n \notin {5, 11, 12} => e = d
BY SMT DEF Rows

\* The rows as step n leaves them are those of a database of version n.
RowsFit(n, d) ==
  /\ d \in DbType /\ d.has = db.has /\ d.contacts = db.contacts
  /\ \A i \in DOMAIN d.messages : MessageOK(d.messages[i], n, db.contacts)
  /\ IF n < 11 THEN d.radios = {} ELSE d.self <=> d.radios = {1}
  /\ n < 12 => d.settings = asked
  /\ n >= 12 => d.links = {[profile |-> IF asked.active = "profile" THEN "profile" ELSE "default",
                            standby |-> asked.standby, radio |-> asked.radio]}

LEMMA RowsOK ==
  ASSUME SchemaInv, NEW n \in 1..18, db.version = n - 1, NEW d, d = Rows(n, db)
  PROVE  RowsFit(n, d)
<1>1. db \in DbType /\ asked \in SettingsType
  BY DEF SchemaInv, LadderOK, ConnectionOK
<1>2. CASE n = 5
  <2> DEFINE rows == [i \in DOMAIN db.messages |-> Separated(db, db.messages[i])]
  <2>1. d = [db EXCEPT !.messages = rows]
    BY <1>2, RowsAre
  <2>2. \A i \in DOMAIN db.messages : rows[i] \in MessageType /\ MessageOK(rows[i], 5, db.contacts)
    BY <1>1, <1>2, SeparatedOK DEF SchemaInv, MessagesOK, DbType
  <2>3. rows \in Seq(MessageType) /\ DOMAIN rows = DOMAIN db.messages
    BY <1>1, <2>2 DEF DbType
  <2> HIDE DEF rows
  <2>4. /\ d \in DbType /\ d.has = db.has /\ d.messages = rows /\ d.contacts = db.contacts
        /\ d.radios = db.radios /\ d.settings = db.settings
    BY <1>1, <2>1, <2>3 DEF DbType
  <2> QED
    BY <1>2, <2>2, <2>3, <2>4 DEF SchemaInv, RadioOK, ConnectionOK, RowsFit
<1>3. CASE n = 11
  <2> DEFINE rows == [i \in DOMAIN db.messages |-> [db.messages[i] EXCEPT !.radio = 1]]
  <2>1. d = [db EXCEPT !.radios = IF db.self THEN {1} ELSE {}, !.messages = rows]
    <3>1. d = ByRadio(db)
      BY <1>3, RowsAre
    <3> QED
      BY <3>1, Zenon DEF ByRadio
  <2>2. \A i \in DOMAIN db.messages : rows[i] \in MessageType /\ MessageOK(rows[i], 11, db.contacts)
    <3>1. \A i \in DOMAIN db.messages : db.messages[i] \in MessageType /\ MessageOK(db.messages[i], 10, db.contacts)
      BY <1>1, <1>3 DEF SchemaInv, MessagesOK, DbType
    <3> QED
      BY <3>1, ByRadioOK
  <2>3. rows \in Seq(MessageType) /\ DOMAIN rows = DOMAIN db.messages
    BY <1>1, <2>2 DEF DbType
  <2> HIDE DEF rows
  <2>4. /\ d \in DbType /\ d.has = db.has /\ d.messages = rows /\ d.contacts = db.contacts
        /\ d.radios = (IF db.self THEN {1} ELSE {}) /\ d.self = db.self /\ d.settings = db.settings
    BY <1>1, <2>1, <2>3 DEF DbType
  <2> QED
    <3>1. d.self <=> d.radios = {1}
      BY <1>1, <2>4 DEF DbType
    <3>2. db.settings = asked
      BY <1>3 DEF SchemaInv, ConnectionOK
    <3> QED
      BY <1>3, <2>2, <2>3, <2>4, <3>1, <3>2 DEF RowsFit
<1>4. CASE n = 12
  <2>1. d = Carried(db) /\ db.settings = asked
    BY <1>4, RowsAre DEF SchemaInv, ConnectionOK
  <2>2. Link(db) = [profile |-> IF asked.active = "profile" THEN "profile" ELSE "default",
                    standby |-> asked.standby, radio |-> asked.radio]
    BY <1>1, <2>1 DEF Link, Selected, SettingsType
  <2>3. d = [db EXCEPT !.links = {Link(db)}, !.settings = Unset]
    BY <1>1, <2>1 DEF Carried, Selected, SettingsType
  <2>4. Link(db) \in LinkType /\ Unset \in SettingsType
    BY <1>1, <2>2 DEF LinkType, SettingsType, Unset
  <2>5. /\ d \in DbType /\ d.has = db.has /\ d.messages = db.messages /\ d.contacts = db.contacts /\ d.self = db.self
        /\ d.radios = db.radios /\ d.links = {Link(db)}
    BY <1>1, <2>3, <2>4 DEF DbType
  <2>6. \A i \in DOMAIN d.messages : MessageOK(d.messages[i], n, db.contacts)
    BY <1>4, <2>5, OtherVersions DEF SchemaInv, MessagesOK
  <2> QED
    BY <1>4, <2>2, <2>5, <2>6 DEF SchemaInv, RadioOK, RowsFit
<1>5. CASE n \notin {5, 11, 12}
  <2>1. d = db
    BY <1>5, RowsAre
  <2>2. \A i \in DOMAIN d.messages : MessageOK(d.messages[i], n, db.contacts)
    <3>1. n - 1 \in 0..17 /\ n - 1 \notin {4, 10} /\ (n - 1) + 1 = n
      BY <1>5
    <3> QED
      BY <2>1, <3>1, OtherVersions DEF SchemaInv, MessagesOK
  <2> QED
    BY <1>1, <1>5, <2>1, <2>2 DEF SchemaInv, RadioOK, ConnectionOK, OneConnection, RowsFit
<1> QED
  BY <1>2, <1>3, <1>4, <1>5

LEMMA MigratedOK ==
  ASSUME SchemaInv, NEW n \in 1..18, db.version = n - 1, db' = Migrated(n, db), asked' = asked
  PROVE  LadderOK' /\ MessagesOK' /\ RadioOK' /\ ConnectionOK' /\ db'.version = n
<1>1. PICK d : d = Rows(n, db)
  OBVIOUS
<1>2. db' = [d EXCEPT !.has = @ \cup MIGRATIONS[n].adds, !.version = n]
  BY <1>1 DEF Migrated
<1>3. RowsFit(n, d)
  BY <1>1, RowsOK
<1>4. d \in DbType /\ d.has = Added(n - 1)
  BY <1>3 DEF RowsFit, SchemaInv, LadderOK
<1>5. /\ LadderOK' /\ db'.version = n
      /\ db'.self = d.self /\ db'.contacts = d.contacts /\ db'.messages = d.messages
      /\ db'.radios = d.radios /\ db'.settings = d.settings /\ db'.links = d.links
  BY <1>2, <1>4, VersionOK
<1>6. asked' \in SettingsType
  BY DEF SchemaInv, ConnectionOK
<1> QED
  BY <1>3, <1>5, <1>6 DEF RowsFit, MessagesOK, RadioOK, ConnectionOK, OneConnection

---------------------------------------------------------------------------
(* The steps.                                                              *)

DataOK == LadderOK /\ MessagesOK /\ RadioOK /\ ConnectionOK

LEMMA DataKept == ASSUME DataOK, db' = db, asked' = asked PROVE DataOK'
BY DEF DataOK, LadderOK, MessagesOK, RadioOK, ConnectionOK, OneConnection

\* Whoever dies, or is refused, leaves the others where they are.
LEMMA GoneOK ==
  ASSUME ProcessesOK, LadderOK, db' = db, NEW p \in Processes, Gone(p)
  PROVE  ProcessesOK'
<1>1. db.version \in 0..18
  BY DEF LadderOK, DbType
<1> QED
  BY <1>1 DEF ProcessesOK, Gone

\* After a commit of p the transactions of all others are overtaken.
LEMMA CommitOK ==
  ASSUME ProcessesOK, NEW p \in Processes, db.version \in 0..18, db'.version \in 0..18,
         db.version <= db'.version, stale' = Overtaken(p), build' = build,
         \/ pc' = pc /\ at' = at /\ pc[p] # "begun"
         \/ /\ pc[p] = "begun" /\ pc' = [pc EXCEPT ![p] = "open"]
            /\ at' = [at EXCEPT ![p] = @ + 1] /\ db'.version = at[p] + 1
  PROVE  ProcessesOK'
<1>1. CASE pc' = pc /\ at' = at /\ pc[p] # "begun"
  BY <1>1 DEF ProcessesOK, Overtaken
<1>2. CASE /\ pc[p] = "begun" /\ pc' = [pc EXCEPT ![p] = "open"]
           /\ at' = [at EXCEPT ![p] = @ + 1] /\ db'.version = at[p] + 1
  <2>1. at[p] \in 0..18 /\ build[p] \in 0..18 /\ at[p] < build[p]
    BY <1>2 DEF ProcessesOK
  <2>2. at' \in [Processes -> 0..18] /\ pc' \in [Processes -> {"off", "open", "begun", "serving"}]
    BY <1>2, <2>1 DEF ProcessesOK
  <2>3. ASSUME NEW q \in Processes
        PROVE  /\ at'[q] <= db'.version /\ at'[q] <= build[q]
               /\ pc'[q] = "begun" => at'[q] < build[q] /\ (q \notin stale' => at'[q] = db'.version)
    <3>1. CASE q = p
      BY <1>2, <2>1, <3>1 DEF ProcessesOK
    <3>2. CASE q # p
      BY <1>2, <3>2 DEF ProcessesOK, Overtaken
    <3> QED
      BY <3>1, <3>2
  <2> QED
    BY <2>2, <2>3 DEF ProcessesOK
<1> QED
  BY <1>1, <1>2

\* What a build writes in the schema of its version.
LEMMA WritesOK ==
  ASSUME SchemaInv, NEW p \in Processes, NEW d \in DbType, Writes(p, d), d.version = db.version, d.has = db.has
  PROVE  ProcessesOK' /\ LadderOK' /\ db' = d
<1>1. db' = d /\ db.version \in 0..18 /\ LadderOK'
  BY DEF Writes, SchemaInv, LadderOK, DbType
<1>2. ProcessesOK'
  BY <1>1, CommitOK DEF Writes, SchemaInv
<1> QED
  BY <1>1, <1>2

LEMMA MessageFits ==
  ASSUME db.version \in 0..18, NEW m \in {Message("dm", k) : k \in {"full", "short", "padded"}} \cup {Message("channel", Nothing)}
  PROVE  m \in MessageType /\ MessageOK(m, db.version, db.contacts)
<1> DEFINE r == IF db.version < 11 THEN 0 ELSE 1
<1>1. CASE m = Message("channel", Nothing)
  <2>1. m = [kind |-> "channel", was |-> "none", key |-> "none", prefix |-> "none",
             radio |-> r]
    BY <1>1 DEF Message, Nothing
  <2> QED
    BY <2>1 DEF MessageType, MessageOK, Names
<1>2. ASSUME NEW k \in {"full", "short", "padded"}, m = Message("dm", k)
      PROVE  m \in MessageType /\ MessageOK(m, db.version, db.contacts)
  <2>1. CASE db.version < 5 \/ k = "full"
    <3>1. m = [kind |-> "dm", was |-> k, key |-> k, prefix |-> "none", radio |-> r]
      BY <1>2, <2>1 DEF Message, Nothing
    <3> QED
      BY <2>1, <3>1 DEF MessageType, MessageOK, Names
  <2>2. CASE db.version >= 5 /\ k # "full"
    <3>1. m = [kind |-> "dm", was |-> k, key |-> "none", prefix |-> k, radio |-> r]
      BY <1>2, <2>2 DEF Message, Nothing
    <3> QED
      BY <2>2, <3>1 DEF MessageType, MessageOK, Names
  <2> QED
    BY <2>1, <2>2
<1> QED
  BY <1>1, <1>2

LEMMA StoresMessageStep == ASSUME SchemaInv, NEW p \in Processes, StoresMessage(p) PROVE SchemaInv'
<1>1. PICK m \in {Message("dm", k) : k \in {"full", "short", "padded"}} \cup {Message("channel", Nothing)} :
        Writes(p, [db EXCEPT !.messages = Append(@, m)])
  BY DEF StoresMessage
<1>2. db \in DbType /\ db.version \in 0..18 /\ db.messages \in Seq(MessageType)
  BY DEF SchemaInv, LadderOK, DbType
<1>3. m \in MessageType /\ MessageOK(m, db.version, db.contacts)
  BY <1>2, MessageFits
<1>4. PICK d : d = [db EXCEPT !.messages = Append(@, m)]
  OBVIOUS
<1>5. /\ d \in DbType /\ d.version = db.version /\ d.has = db.has /\ d.messages = Append(db.messages, m)
      /\ d.self = db.self /\ d.contacts = db.contacts /\ d.radios = db.radios
      /\ d.settings = db.settings /\ d.links = db.links
  <2>1. Append(db.messages, m) \in Seq(MessageType)
    BY <1>2, <1>3
  <2>2. PICK a : a = Append(db.messages, m)
    OBVIOUS
  <2>3. d = [db EXCEPT !.messages = a] /\ a \in Seq(MessageType)
    BY <1>4, <2>1, <2>2
  <2> QED
    BY <1>2, <2>2, <2>3 DEF DbType
<1>6. ProcessesOK' /\ LadderOK' /\ db' = d
  BY <1>1, <1>4, <1>5, WritesOK
<1>7. MessagesOK'
  BY <1>2, <1>3, <1>5, <1>6 DEF SchemaInv, MessagesOK
<1> QED
  BY <1>5, <1>6, <1>7 DEF SchemaInv, RadioOK, ConnectionOK, OneConnection, StoresMessage

LEMMA StoresContactStep == ASSUME SchemaInv, NEW p \in Processes, StoresContact(p) PROVE SchemaInv'
<1>1. db \in DbType /\ db.version \in 0..18
  BY DEF SchemaInv, LadderOK, DbType
<1>2. PICK d : d = [db EXCEPT !.contacts = {"padded"}]
  OBVIOUS
<1>3. /\ d \in DbType /\ d.version = db.version /\ d.has = db.has /\ d.messages = db.messages
      /\ d.self = db.self /\ d.contacts = {"padded"} /\ d.radios = db.radios
      /\ d.settings = db.settings /\ d.links = db.links
  BY <1>1, <1>2 DEF DbType
<1>4. ProcessesOK' /\ LadderOK' /\ db' = d
  BY <1>2, <1>3, WritesOK DEF StoresContact
<1>5. MessagesOK'
  BY <1>3, <1>4 DEF SchemaInv, MessagesOK, MessageOK
<1> QED
  BY <1>3, <1>4, <1>5 DEF SchemaInv, RadioOK, ConnectionOK, OneConnection, StoresContact

LEMMA IdentifiesStep == ASSUME SchemaInv, NEW p \in Processes, Identifies(p) PROVE SchemaInv'
<1>1. db \in DbType /\ db.version \in 0..18
  BY DEF SchemaInv, LadderOK, DbType
<1>2. PICK d : d = [db EXCEPT !.self = TRUE, !.radios = IF db.version < 11 THEN {} ELSE {1}]
  OBVIOUS
<1>3. /\ d \in DbType /\ d.version = db.version /\ d.has = db.has /\ d.messages = db.messages
      /\ d.self = TRUE /\ d.contacts = db.contacts /\ d.radios = (IF db.version < 11 THEN {} ELSE {1})
      /\ d.settings = db.settings /\ d.links = db.links
  BY <1>1, <1>2 DEF DbType
<1>4. ProcessesOK' /\ LadderOK' /\ db' = d
  BY <1>2, <1>3, WritesOK DEF Identifies
<1>5. MessagesOK'
  BY <1>3, <1>4 DEF SchemaInv, MessagesOK
<1> QED
  BY <1>3, <1>4, <1>5 DEF SchemaInv, RadioOK, ConnectionOK, OneConnection, Identifies

LEMMA SetsConnectionStep == ASSUME SchemaInv, NEW p \in Processes, SetsConnection(p) PROVE SchemaInv'
<1>1. db \in DbType /\ db.version \in 0..18
  BY DEF SchemaInv, LadderOK, DbType
<1>2. PICK a \in {"null", "profile"}, s \in BOOLEAN, r \in {0, 1} :
        asked' = [active |-> a, standby |-> s, radio |-> r] /\ Writes(p, [db EXCEPT !.settings = asked'])
  BY DEF SetsConnection
<1>3. asked' \in SettingsType
  BY <1>2 DEF SettingsType
<1>4. PICK d : d = [db EXCEPT !.settings = asked']
  OBVIOUS
<1>5. /\ d \in DbType /\ d.version = db.version /\ d.has = db.has /\ d.messages = db.messages
      /\ d.self = db.self /\ d.contacts = db.contacts /\ d.radios = db.radios
      /\ d.settings = asked' /\ d.links = db.links
  BY <1>1, <1>3, <1>4 DEF DbType
<1>6. ProcessesOK' /\ LadderOK' /\ db' = d
  BY <1>2, <1>4, <1>5, WritesOK
<1>7. MessagesOK'
  BY <1>5, <1>6 DEF SchemaInv, MessagesOK
<1> QED
  BY <1>1, <1>3, <1>5, <1>6, <1>7 DEF SchemaInv, RadioOK, ConnectionOK, OneConnection, SetsConnection

LEMMA AppliesStep == ASSUME SchemaInv, NEW p \in Processes, Applies(p) PROVE SchemaInv'
<1>1. /\ pc[p] = "begun" /\ p \notin stale /\ at[p] \in 0..17 /\ db.version = at[p]
      /\ at[p] + 1 \in 1..18 /\ asked' = asked
  BY DEF Applies, SchemaInv, ProcessesOK
<1>2. CASE Fits(at[p] + 1, db)
  <2>1. /\ db' = Migrated(at[p] + 1, db) /\ at' = [at EXCEPT ![p] = @ + 1]
        /\ pc' = [pc EXCEPT ![p] = "open"] /\ stale' = Overtaken(p) /\ build' = build
    BY <1>2 DEF Applies
  <2>2. LadderOK' /\ MessagesOK' /\ RadioOK' /\ ConnectionOK' /\ db'.version = at[p] + 1
    BY <1>1, <2>1, MigratedOK
  <2>3. ProcessesOK'
    <3>1. db.version \in 0..18 /\ db'.version \in 0..18 /\ db.version <= db'.version
      BY <1>1, <2>2
    <3>2. ProcessesOK
      BY DEF SchemaInv
    <3> QED
      BY <1>1, <2>1, <2>2, <3>1, <3>2, CommitOK
  <2> QED
    BY <2>2, <2>3 DEF SchemaInv
<1>3. CASE ~Fits(at[p] + 1, db)
  BY <1>1, <1>3, SchemaImplies DEF StepsFit
<1> QED
  BY <1>2, <1>3

LEMMA StepSchema == SchemaInv /\ [Next]_vars => SchemaInv'
<1> SUFFICES ASSUME SchemaInv, [Next]_vars PROVE SchemaInv'
  OBVIOUS
<1>1. DataOK /\ LadderOK /\ ProcessesOK /\ db.version \in 0..18
  BY DEF SchemaInv, DataOK, LadderOK, DbType
<1>2. ASSUME NEW p \in Processes, NEW b \in Builds, Starts(p, b) PROVE SchemaInv'
  <2>1. b \in 0..18
    BY SchemaAssumption, LatestIs
  <2>2. ProcessesOK'
    BY <1>1, <1>2, <2>1 DEF Starts, ProcessesOK
  <2> QED
    BY <1>1, <1>2, <2>2, DataKept DEF Starts, SchemaInv, DataOK
<1>3. ASSUME NEW p \in Processes, Begins(p) PROVE SchemaInv'
  <2>1. ProcessesOK'
    BY <1>1, <1>3 DEF Begins, Behind, ProcessesOK
  <2> QED
    BY <1>1, <1>3, <2>1, DataKept DEF Begins, SchemaInv, DataOK
<1>4. ASSUME NEW p \in Processes, Busy(p) \/ Dies(p) PROVE SchemaInv'
  <2>1. Gone(p) /\ db' = db /\ asked' = asked
    BY <1>4 DEF Busy, Dies
  <2>2. ProcessesOK'
    BY <1>1, <2>1, GoneOK
  <2> QED
    BY <1>1, <2>1, <2>2, DataKept DEF SchemaInv, DataOK
<1>5. ASSUME NEW p \in Processes, Opened(p) PROVE SchemaInv'
  <2>1. ProcessesOK'
    BY <1>1, <1>5 DEF Opened, ProcessesOK
  <2> QED
    BY <1>1, <1>5, <2>1, DataKept DEF Opened, SchemaInv, DataOK
<1>6. CASE UNCHANGED vars
  <2>1. ProcessesOK'
    BY <1>1, <1>6 DEF vars, ProcessesOK
  <2> QED
    BY <1>1, <1>6, <2>1, DataKept DEF vars, SchemaInv, DataOK
<1> QED
  BY <1>2, <1>3, <1>4, <1>5, <1>6, AppliesStep, StoresMessageStep, StoresContactStep, IdentifiesStep, SetsConnectionStep DEF Next

\* Whoever starts and dies when, the database holds the objects of its version and
\* rows that are in order for it, and a transaction that can still commit stands at
\* that version (migrate and its loop).
THEOREM SchemaInvariant == Spec => []SchemaInv
<1> QED
  BY InitSchema, StepSchema, PTL DEF Spec

\* For any number of processes, of any builds: a step about to be written finds
\* what it needs and nothing of what it adds ("re-checking user_version inside
\* every transaction").
THEOREM StepsCorrect == Spec => []StepsFit
<1>1. SchemaInv => StepsFit
  BY SchemaImplies
<1> QED
  BY <1>1, SchemaInvariant, PTL

\* For any number of messages, stored under any versions: none loses its key or its
\* prefix on the way through the migrations, and all come to the one radio.
THEOREM HistoryCorrect == Spec => []HistoryKept
<1>1. SchemaInv => HistoryKept
  BY SchemaImplies
<1> QED
  BY <1>1, SchemaInvariant, PTL

\* After migration 12 there is one link, and it is the connection that was last
\* asked for.
THEOREM ConnectionCorrect == Spec => []OneConnection
<1>1. SchemaInv => OneConnection
  BY SchemaImplies
<1> QED
  BY <1>1, SchemaInvariant, PTL

---------------------------------------------------------------------------
(* The message lists of a tab.  Rows under the prefix of the sender are    *)
(* those of received messages, and those never read anything but sent; so  *)
(* nothing is lost where a list under the prefix wins over another.        *)

\* What a list of the conversation k may hold.
RowList(list, k) ==
  \A m \in Messages : list[m] # "absent" => IF m \in Sends THEN k = "contact" ELSE list[m] = "sent"

ServerOK ==
  /\ stored \in Lists /\ owner \in [Messages -> Keys]
  /\ \A m \in Messages : stored[m] # "absent" => IF m \in Sends THEN owner[m] = "contact" ELSE stored[m] = "sent"

\* A request that changes a message is answered with its row.
CallOK(c) ==
  /\ c \in Calls /\ RowList(c.rows, c.conv) /\ RowList(c.held, c.conv)
  /\ c.kind \in {"retry", "cancel"} => c.msg \in Messages
  /\ c.kind \in {"send", "retry", "cancel"} => c.conv = "contact"
  /\ c.kind \in {"send", "retry", "cancel"} /\ c.served => c.msg \in Messages /\ c.rows[c.msg] # "absent"

EventType == [type : {"new", "status", "contact", "active"}, msg : Messages \cup {0}, status : Statuses \cup {"absent"},
              conv : Keys, radio : Radios]

EventOK(e) ==
  e.type \in {"new", "status"} =>
    /\ e.msg \in Messages /\ e.status # "absent"
    /\ IF e.msg \in Sends THEN e.conv = "contact" ELSE e.type = "new" /\ e.status = "sent"

ListsOK ==
  /\ shown \in [Keys -> Lists] /\ \A k \in Keys : RowList(shown[k], k)
  /\ viewing \in Radios \cup {None} /\ active \in Radios

FeedOK == feed \in Seq(EventType) /\ \A i \in DOMAIN feed : EventOK(feed[i])

WebInv == ServerOK /\ ListsOK /\ FeedOK /\ \A c \in calls : CallOK(c)

LEMMA KeysOfWeb == Keys = {"sender", "contact"} /\ Statuses = {"pending", "sent", "delivered", "failed"}
BY DEF Keys, Statuses

LEMMA EmptyList == Empty \in Lists /\ \A k \in Keys : RowList(Empty, k)
BY DEF Empty, Lists, RowList

LEMMA MergedList ==
  ASSUME NEW k \in Keys, NEW l \in Lists, NEW r \in Lists, RowList(l, k), RowList(r, k)
  PROVE  Merged(r, l) \in Lists /\ RowList(Merged(r, l), k)
BY DEF Merged, Lists, RowList

\* A row that is set, or updated, in the list it belongs to.
LEMMA SetList ==
  ASSUME NEW k \in Keys, NEW l \in Lists, RowList(l, k), NEW m \in Messages, NEW s \in Statuses,
         IF m \in Sends THEN k = "contact" ELSE s = "sent"
  PROVE  [l EXCEPT ![m] = s] \in Lists /\ RowList([l EXCEPT ![m] = s], k)
BY DEF Lists, RowList, Statuses

LEMMA RequestOK ==
  ASSUME NEW kind \in {"history", "page", "send", "retry", "cancel", "contacts", "unknowns"}, NEW r \in Radios, NEW k \in Keys,
         NEW m \in Messages \cup {0}, NEW b \in Messages \cup {0},
         kind \in {"retry", "cancel"} => m \in Messages, kind \in {"send", "retry", "cancel"} => k = "contact"
  PROVE  CallOK(Request(kind, r, k, m, b))
<1>1. PICK c : c = Request(kind, r, k, m, b)
  OBVIOUS
<1>2. /\ c \in Calls /\ c.rows = Empty /\ c.held = Empty /\ c.conv = k /\ c.kind = kind /\ c.msg = m /\ ~c.served
  BY <1>1, EmptyList DEF Request, Calls
<1> QED
  BY <1>1, <1>2, EmptyList DEF CallOK

\* Pages that keep the list they work on.
LEMMA DetachedOK ==
  ASSUME ListsOK, NEW cs, \A c \in cs : CallOK(c), NEW ks
  PROVE  \A d \in Detached(cs, ks) : CallOK(d)
<1> SUFFICES ASSUME NEW c \in cs,
                    NEW d, d = IF c.kind = "page" /\ c.attached /\ c.conv \in ks
                               THEN [c EXCEPT !.attached = FALSE, !.held = shown[c.conv]] ELSE c
             PROVE  CallOK(d)
  BY DEF Detached
<1>1. CallOK(c) /\ c \in Calls /\ c.conv \in Keys
  BY DEF CallOK, Calls
<1>2. shown[c.conv] \in Lists /\ RowList(shown[c.conv], c.conv)
  BY <1>1 DEF ListsOK
<1>3. ASSUME d = [c EXCEPT !.attached = FALSE, !.held = shown[c.conv]] PROVE CallOK(d)
  <2>1. /\ d \in Calls /\ d.kind = c.kind /\ d.conv = c.conv /\ d.msg = c.msg /\ d.rows = c.rows /\ d.served = c.served
        /\ d.held = shown[c.conv]
    BY <1>1, <1>2, <1>3 DEF Calls
  <2> QED
    BY <1>1, <1>2, <2>1 DEF CallOK
<1> QED
  BY <1>1, <1>3

LEMMA MinOf == ASSUME NEW S, S \subseteq Nat, S # {} PROVE Min(S) \in S
<1>1. \E x \in S : \A y \in S : <<y, x>> \notin OpToRel(<, Nat)
  BY NatLessThanWellFounded, WFMin
<1>2. PICK x \in S : \A y \in S : <<y, x>> \notin OpToRel(<, Nat)
  BY <1>1
<1>3. \A y \in S : ~(y < x)
  BY <1>2 DEF OpToRel
<1>4. \A y \in S : x <= y
  BY <1>3
<1> QED
  BY <1>4, Zenon DEF Min

LEMMA PagingOK ==
  ASSUME ListsOK, NEW k \in Keys, NEW m \in Messages \cup {0}, NEW l \in Lists
  PROVE  \A d \in Paging(k, m, l) : CallOK(d) /\ ~d.served
<1> SUFFICES ASSUME Listed(l) # {}, NEW d, d = Request("page", InView, k, m, Min(Listed(l)))
             PROVE  CallOK(d) /\ ~d.served
  BY DEF Paging
<1>1. Listed(l) \subseteq Messages /\ Listed(l) \subseteq Nat
  BY WebAssumption DEF Listed
<1>2. Min(Listed(l)) \in Messages \cup {0}
  BY <1>1, MinOf
<1>3. InView \in Radios
  BY DEF ListsOK, InView
<1>4. CallOK(d)
  BY <1>2, <1>3, RequestOK
<1> QED
  BY <1>4 DEF Request

---------------------------------------------------------------------------
(* The invariant, step by step.                                            *)

LEMMA WebInitially == WebInit => WebInv
<1> SUFFICES ASSUME WebInit PROVE WebInv
  OBVIOUS
<1>1. ServerOK
  BY EmptyList DEF WebInit, ServerOK, Empty, Keys
<1>2. ListsOK
  BY EmptyList DEF WebInit, ListsOK, Radios
<1>3. FeedOK
  BY DEF WebInit, FeedOK
<1> QED
  BY <1>1, <1>2, <1>3 DEF WebInv, WebInit

LEMMA EmitOK == ASSUME FeedOK, NEW e \in EventType, EventOK(e), Emit(e) PROVE FeedOK'
<1>1. feed \in Seq(EventType) /\ feed' = Append(feed, e)
  BY DEF FeedOK, Emit
<1>2. feed' \in Seq(EventType) /\ DOMAIN feed' = 1..(Len(feed) + 1) /\ DOMAIN feed = 1..Len(feed) /\ Len(feed) \in Nat
  BY <1>1
<1>3. ASSUME NEW i \in DOMAIN feed' PROVE EventOK(feed'[i])
  <2>1. CASE i = Len(feed) + 1
    BY <1>1, <2>1
  <2>2. CASE i # Len(feed) + 1
    <3>1. i \in DOMAIN feed /\ feed'[i] = feed[i]
      BY <1>1, <1>2, <2>2
    <3> QED
      BY <3>1 DEF FeedOK
  <2> QED
    BY <2>1, <2>2
<1> QED
  BY <1>2, <1>3 DEF FeedOK

\* What the tab holds is not touched by a step of the server.
LEMMA TabStays == ASSUME ListsOK, UNCHANGED tab PROVE ListsOK'
BY DEF ListsOK, tab

LEMMA ArrivesKeeps == ASSUME WebInv, NEW m \in Messages, Arrives(m) PROVE WebInv'
<1>1. /\ stored' = [stored EXCEPT ![m] = "sent"] /\ m \notin Sends
      /\ owner' = [owner EXCEPT ![m] = IF known THEN "contact" ELSE "sender"]
      /\ Emit(New(m, "sent", owner'[m])) /\ UNCHANGED <<calls, tab>>
  BY DEF Arrives
<1>2. ServerOK'
  BY <1>1 DEF WebInv, ServerOK, Lists, Statuses, Keys
<1>3. New(m, "sent", owner'[m]) \in EventType /\ EventOK(New(m, "sent", owner'[m]))
  BY <1>1, <1>2 DEF ServerOK, New, EventType, EventOK, Statuses, Radios
<1>4. FeedOK'
  BY <1>1, <1>3, EmitOK DEF WebInv
<1>5. ListsOK'
  BY <1>1, TabStays DEF WebInv
<1> QED
  BY <1>1, <1>2, <1>4, <1>5 DEF WebInv

\* The status of a message the user sends is set, and told.
LEMMA SetsStored ==
  ASSUME WebInv, NEW m \in Sends, NEW s \in Statuses, stored' = [stored EXCEPT ![m] = s],
         owner' = owner \/ owner' = [owner EXCEPT ![m] = "contact"], owner'[m] = "contact",
         NEW e, e \in {StatusOf(m, s), New(m, s, "contact")}, Emit(e)
  PROVE  ServerOK' /\ FeedOK'
<1>1. m \in Messages
  BY WebAssumption
<1>2. ServerOK'
  BY <1>1 DEF WebInv, ServerOK, Lists, Statuses, Keys
<1>3. e \in EventType /\ EventOK(e)
  BY <1>1 DEF New, StatusOf, EventType, EventOK, Statuses, Radios, Keys
<1>4. FeedOK'
  BY <1>3, EmitOK DEF WebInv
<1> QED
  BY <1>2, <1>4

LEMMA ProgressKeeps == ASSUME WebInv, NEW m \in Messages, NEW s \in Statuses, Progress(m, s) PROVE WebInv'
<1>1. /\ m \in Sends /\ stored[m] # "absent" /\ stored' = [stored EXCEPT ![m] = s] /\ Emit(StatusOf(m, s))
      /\ UNCHANGED <<owner, calls, tab>>
  BY DEF Progress
<1>2. owner'[m] = "contact"
  BY <1>1 DEF WebInv, ServerOK
<1>3. ServerOK' /\ FeedOK'
  BY <1>1, <1>2, SetsStored
<1>4. ListsOK'
  BY <1>1, TabStays DEF WebInv
<1> QED
  BY <1>1, <1>3, <1>4 DEF WebInv

LEMMA LearnKeeps == ASSUME WebInv, Learn PROVE WebInv'
<1>1. /\ Emit(ContactUpdated) /\ UNCHANGED <<stored, calls, tab>>
      /\ owner' = [m \in Messages |-> IF stored[m] # "absent" THEN "contact" ELSE owner[m]]
  BY DEF Learn
<1>2. ServerOK'
  BY <1>1 DEF WebInv, ServerOK, Keys
<1>3. ContactUpdated \in EventType /\ EventOK(ContactUpdated)
  BY DEF ContactUpdated, EventType, EventOK, Statuses, Radios, Keys
<1>4. FeedOK'
  BY <1>1, <1>3, EmitOK DEF WebInv
<1>5. ListsOK'
  BY <1>1, TabStays DEF WebInv
<1> QED
  BY <1>1, <1>2, <1>4, <1>5 DEF WebInv

LEMMA ActivateKeeps == ASSUME WebInv, NEW r \in Radios, Activate(r) PROVE WebInv'
<1>1. Emit(StatusChanged(r)) /\ UNCHANGED <<stored, owner, calls, tab>>
  BY DEF Activate
<1>2. ServerOK'
  BY <1>1 DEF WebInv, ServerOK
<1>3. StatusChanged(r) \in EventType /\ EventOK(StatusChanged(r))
  BY DEF StatusChanged, EventType, EventOK, Statuses, Keys
<1>4. FeedOK'
  BY <1>1, <1>3, EmitOK DEF WebInv
<1>5. ListsOK'
  BY <1>1, TabStays DEF WebInv
<1> QED
  BY <1>1, <1>2, <1>4, <1>5 DEF WebInv

LEMMA ConversationOK ==
  ASSUME ServerOK, NEW c, c.conv \in Keys
  PROVE  Conversation(c) \in Lists /\ RowList(Conversation(c), c.conv)
<1> DEFINE all    == {m \in Messages : /\ c.radio = Here /\ stored[m] # "absent" /\ owner[m] = c.conv
                                       /\ c.before # 0 => m < c.before}
           newest == {m \in all : Cardinality({n \in all : n > m}) < PageSize}
<1>1. Conversation(c) = [m \in Messages |-> IF m \in newest THEN stored[m] ELSE "absent"]
  BY DEF Conversation
<1>2. \A m \in newest : m \in Messages /\ stored[m] # "absent" /\ owner[m] = c.conv
  OBVIOUS
<1> HIDE DEF newest
<1> QED
  BY <1>1, <1>2 DEF ServerOK, Lists, RowList, Statuses

\* An answer of the server.
LEMMA AnsweredOK ==
  ASSUME \A d \in calls : CallOK(d), NEW c, CallOK(c), NEW rows \in Lists, RowList(rows, c.conv), NEW flag \in BOOLEAN,
         c.kind \in {"send", "retry", "cancel"} => c.msg \in Messages /\ rows[c.msg] # "absent",
         NEW a, a = [c EXCEPT !.served = TRUE, !.rows = rows, !.flag = flag], NEW o, calls' = (calls \ {o}) \cup {a}
  PROVE  \A d \in calls' : CallOK(d)
<1>1. /\ a \in Calls /\ a.kind = c.kind /\ a.conv = c.conv /\ a.msg = c.msg /\ a.rows = rows /\ a.held = c.held /\ a.served
  BY DEF CallOK, Calls
<1>2. CallOK(a)
  BY <1>1 DEF CallOK
<1> QED
  BY <1>2

LEMMA ServeKeeps == ASSUME WebInv, NEW c \in calls, Serve(c) PROVE WebInv'
<1>1. CallOK(c) /\ c \in Calls /\ c.conv \in Keys
  BY DEF WebInv, CallOK, Calls
<1>2. ListsOK' /\ UNCHANGED tab
  BY TabStays DEF Serve, WebInv
<1>3. CASE Reads(c)
  <2>1. /\ c.kind \in {"history", "page", "contacts", "unknowns"} /\ UNCHANGED <<stored, owner, feed>>
        /\ \E rows \in {Empty, Conversation(c)}, flag \in BOOLEAN : Answered(c, rows, flag)
    BY <1>3 DEF Reads, server
  <2>2. PICK rows \in {Empty, Conversation(c)}, flag \in BOOLEAN : Answered(c, rows, flag)
    BY <2>1
  <2>3. rows \in Lists /\ RowList(rows, c.conv)
    BY <1>1, ConversationOK, EmptyList DEF WebInv
  <2>4. \A d \in calls : CallOK(d)
    BY DEF WebInv
  <2>5. \A d \in calls' : CallOK(d)
    <3> PICK a : a = [c EXCEPT !.served = TRUE, !.rows = rows, !.flag = flag]
      OBVIOUS
    <3>1. calls' = (calls \ {c}) \cup {a}
      BY <2>2 DEF Answered
    <3>2. c.kind \notin {"send", "retry", "cancel"}
      BY <2>1
    <3> QED
      BY <1>1, <2>3, <2>4, <3>1, <3>2, AnsweredOK
  <2>6. ServerOK' /\ FeedOK'
    BY <2>1 DEF WebInv, ServerOK, FeedOK
  <2> QED
    BY <1>2, <2>5, <2>6 DEF WebInv
<1>4. ASSUME NEW m \in Sends, NEW s \in Statuses, NEW e \in {StatusOf(m, s), New(m, s, "contact")}, Sets(c, m, s, e),
             owner' = owner \/ owner' = [owner EXCEPT ![m] = "contact"], owner'[m] = "contact",
             c.kind \in {"send", "retry", "cancel"}
      PROVE  WebInv'
  <2>1. /\ stored' = [stored EXCEPT ![m] = s] /\ Emit(e)
        /\ Answered([c EXCEPT !.msg = m], [Empty EXCEPT ![m] = s], FALSE)
    BY <1>4 DEF Sets
  <2>2. ServerOK' /\ FeedOK'
    BY <1>4, <2>1, SetsStored
  <2>3. m \in Messages
    BY WebAssumption
  <2> PICK b : b = [c EXCEPT !.msg = m]
    OBVIOUS
  <2>4. b \in Calls /\ b.kind = c.kind /\ b.conv = c.conv /\ b.msg = m /\ b.rows = c.rows /\ b.held = c.held /\ b.served = c.served
    BY <1>1, <2>3 DEF Calls
  <2>5. c.conv = "contact" /\ RowList(c.rows, c.conv) /\ RowList(c.held, c.conv)
        /\ (c.served => c.msg \in Messages /\ c.rows[c.msg] # "absent")
    BY <1>1, <1>4 DEF CallOK
  <2> PICK rows : rows = [Empty EXCEPT ![m] = s]
    OBVIOUS
  <2>6. rows \in Lists /\ RowList(rows, "contact") /\ rows[m] # "absent"
    <3>1. [Empty EXCEPT ![m] = s] \in Lists /\ RowList([Empty EXCEPT ![m] = s], "contact")
      BY <2>3, EmptyList, SetList DEF Keys
    <3>2. [Empty EXCEPT ![m] = s][m] = s /\ s # "absent"
      BY <2>3 DEF Empty, Statuses
    <3> QED
      BY <3>1, <3>2
  <2>7. \A d \in calls' : CallOK(d)
    <3> PICK a : a = [b EXCEPT !.served = TRUE, !.rows = rows, !.flag = FALSE]
      OBVIOUS
    <3>1. calls' = (calls \ {b}) \cup {a}
      BY <2>1 DEF Answered
    <3>2. /\ a \in Calls /\ a.kind = b.kind /\ a.conv = b.conv /\ a.msg = b.msg /\ a.rows = rows /\ a.held = b.held /\ a.served
      BY <2>4, <2>6 DEF Calls
    <3>3. CallOK(a)
      BY <1>4, <2>3, <2>4, <2>5, <2>6, <3>2 DEF CallOK
    <3> QED
      BY <3>1, <3>3 DEF WebInv
  <2> QED
    BY <1>2, <2>2, <2>7 DEF WebInv
<1>5. CASE Stores(c)
  <2>1. PICK m \in Sends : /\ owner' = [owner EXCEPT ![m] = "contact"]
                           /\ Sets(c, m, "pending", New(m, "pending", "contact"))
    BY <1>5 DEF Stores
  <2>2. owner'[m] = "contact" /\ "pending" \in Statuses
    BY <2>1, WebAssumption DEF WebInv, ServerOK, Statuses
  <2>3. c.kind = "send"
    BY <1>5 DEF Stores
  <2> QED
    BY <1>4, <2>1, <2>2, <2>3
<1>6. ASSUME NEW s \in Statuses, stored[c.msg] \in {"pending", "failed"}, Sets(c, c.msg, s, StatusOf(c.msg, s)),
             UNCHANGED owner, c.kind \in {"retry", "cancel"}
      PROVE  WebInv'
  <2>1. c.msg \in Messages
    BY <1>1, <1>6 DEF CallOK
  <2>2. c.msg \in Sends /\ owner'[c.msg] = "contact"
    BY <1>6, <2>1 DEF WebInv, ServerOK
  <2> QED
    BY <1>4, <1>6, <2>2
<1>7. CASE Retries(c)
  BY <1>6, <1>7 DEF Retries, Statuses
<1>8. CASE Cancels(c)
  BY <1>6, <1>8 DEF Cancels, Statuses
<1>9. CASE Refuses(c)
  <2>1. UNCHANGED <<stored, owner, feed>> /\ calls' \subseteq calls
    BY <1>9 DEF Refuses, server
  <2>2. ServerOK' /\ FeedOK'
    BY <2>1 DEF WebInv, ServerOK, FeedOK
  <2> QED
    BY <1>2, <2>1, <2>2 DEF WebInv
<1> QED
  BY <1>3, <1>5, <1>7, <1>8, <1>9 DEF Serve

---------------------------------------------------------------------------
(* The user.                                                               *)

LEMMA AsksKeeps == ASSUME WebInv, NEW d, CallOK(d), Asks(d) PROVE WebInv'
<1>1. calls' = calls \cup {d} /\ UNCHANGED <<stored, owner, feed, tab>>
  BY DEF Asks, server
<1>2. ListsOK'
  BY <1>1, TabStays DEF WebInv
<1> QED
  BY <1>1, <1>2 DEF WebInv, ServerOK, FeedOK

LEMMA OpenKeeps ==
  ASSUME WebInv, NEW k \in Keys, NEW t \in Messages \cup {0}, OpenConversation(k, t)
  PROVE  WebInv'
<1>1. InView \in Radios
  BY DEF WebInv, ListsOK, InView
<1>2. CallOK(Request("history", InView, k, t, 0))
  BY <1>1, RequestOK
<1> QED
  BY <1>2, AsksKeeps DEF OpenConversation

LEMMA SendKeeps == ASSUME WebInv, SendMessage PROVE WebInv'
<1>1. CallOK(Request("send", Here, "contact", 0, 0))
  BY RequestOK DEF Radios, Keys
<1> QED
  BY <1>1, AsksKeeps DEF SendMessage

LEMMA ChangeKeeps == ASSUME WebInv, NEW m \in Messages, RetryMessage(m) \/ CancelMessage(m) PROVE WebInv'
<1>1. ASSUME NEW kind \in {"retry", "cancel"} PROVE CallOK(Request(kind, Here, "contact", m, 0))
  BY RequestOK DEF Radios, Keys
<1>2. CallOK(Request("retry", Here, "contact", m, 0)) /\ CallOK(Request("cancel", Here, "contact", m, 0))
  BY <1>1
<1> QED
  BY <1>2, AsksKeeps DEF RetryMessage, CancelMessage

\* What Reload leaves.
LEMMA ReloadOK ==
  ASSUME ListsOK, NEW cs, \A c \in cs : CallOK(c), NEW r \in Radios, Reload(cs, r), viewing' \in Radios \cup {None}, active' \in Radios
  PROVE  ListsOK' /\ \A c \in calls' : CallOK(c)
<1>1. shown' = [k \in Keys |-> Empty]
      /\ calls' = Detached(cs, Keys) \cup {Request("contacts", r, "contact", 0, 0), Request("unknowns", r, "contact", 0, 0)}
  BY DEF Reload
<1>2. ListsOK'
  BY <1>1, EmptyList DEF ListsOK
<1>3. \A d \in Detached(cs, Keys) : CallOK(d)
  BY DetachedOK
<1>4. ASSUME NEW kind \in {"contacts", "unknowns"} PROVE CallOK(Request(kind, r, "contact", 0, 0))
  BY RequestOK DEF Keys
<1> QED
  BY <1>1, <1>2, <1>3, <1>4

LEMMA SwitchKeeps == ASSUME WebInv, NEW r \in Radios, SwitchRadio(r) PROVE WebInv'
<1>1. Reload(calls, r) /\ UNCHANGED <<stored, owner, feed, active>> /\ viewing' \in {None, r}
  BY DEF SwitchRadio, server
<1>2. ListsOK' /\ \A c \in calls' : CallOK(c)
  BY <1>1, ReloadOK DEF WebInv, ListsOK
<1> QED
  BY <1>1, <1>2 DEF WebInv, ServerOK, FeedOK

---------------------------------------------------------------------------
(* What replaces the lists, and what it keeps of them.                     *)

Kept ==
  \A m \in Messages : /\ (\A k \in Keys : shown'[k][m] = "absent") => \A k \in Keys : shown[k][m] = "absent"
                      /\ Has(shown, m, "delivered") => Has(shown', m, "delivered")

\* The list of one conversation is replaced.
LEMMA OneList ==
  ASSUME ListsOK, UNCHANGED <<active, viewing>>, NEW k \in Keys, NEW l \in Lists, RowList(l, k), shown' = [shown EXCEPT ![k] = l]
  PROVE  ListsOK'
BY DEF ListsOK

\* l lists what old lists.
Covers(l, old) ==
  \A m \in Messages : /\ old[m] # "absent" => l[m] # "absent"
                      /\ old[m] = "delivered" => l[m] = "delivered"

LEMMA OneListKept ==
  ASSUME ListsOK, NEW k \in Keys, shown' = [shown EXCEPT ![k] = shown'[k]], Covers(shown'[k], shown[k])
  PROVE  Kept
<1>1. \A j \in Keys \ {k} : shown'[j] = shown[j]
  BY DEF ListsOK
<1>2. ASSUME NEW m \in Messages, \A j \in Keys : shown'[j][m] = "absent" PROVE \A j \in Keys : shown[j][m] = "absent"
  BY <1>1, <1>2 DEF Covers
<1>3. ASSUME NEW m \in Messages, Has(shown, m, "delivered") PROVE Has(shown', m, "delivered")
  <2>1. PICK j \in Keys : shown[j][m] = "delivered"
    BY <1>3 DEF Has
  <2>2. shown'[j][m] = "delivered"
    BY <1>1, <2>1 DEF Covers
  <2> QED
    BY <2>2 DEF Has
<1> QED
  BY <1>2, <1>3 DEF Kept

LEMMA MergedKept ==
  ASSUME ListsOK, NEW k \in Keys, NEW rows, shown' = [shown EXCEPT ![k] = Merged(rows, shown[k])]
  PROVE  Kept
<1>1. shown'[k] = Merged(rows, shown[k]) /\ shown' = [shown EXCEPT ![k] = shown'[k]]
  BY DEF ListsOK
<1>2. Covers(shown'[k], shown[k])
  BY <1>1 DEF Merged, Covers
<1> QED
  BY <1>1, <1>2, OneListKept

LEMMA StaysKept == ASSUME UNCHANGED shown PROVE Kept
BY DEF Kept

\* A row is added or updated.
LEMMA SetKept ==
  ASSUME ListsOK, UNCHANGED <<active, viewing>>, NEW k \in Keys, NEW m \in Messages, NEW s \in Statuses,
         IF m \in Sends THEN k = "contact" ELSE s = "sent",
         shown[k][m] = "delivered" => s = "delivered",
         shown' = [shown EXCEPT ![k] = [shown[k] EXCEPT ![m] = s]]
  PROVE  ListsOK' /\ Kept
<1> PICK l : l = [shown[k] EXCEPT ![m] = s]
  OBVIOUS
<1>1. shown[k] \in Lists /\ RowList(shown[k], k)
  BY DEF ListsOK
<1>2. l \in Lists /\ RowList(l, k)
  BY <1>1, SetList
<1>3. shown' = [shown EXCEPT ![k] = l]
  OBVIOUS
<1>4. Covers(l, shown[k])
  BY <1>1 DEF Lists, Statuses, Covers
<1>5. ListsOK'
  BY <1>2, <1>3, OneList
<1>6. Kept
  <2>1. shown'[k] = l /\ shown' = [shown EXCEPT ![k] = shown'[k]]
    BY <1>3 DEF ListsOK
  <2> QED
    BY <1>4, <2>1, OneListKept
<1> QED
  BY <1>5, <1>6

LEMMA AppendKept ==
  ASSUME ListsOK, UNCHANGED <<active, viewing>>, NEW k \in Keys, NEW m \in Messages, NEW s \in Statuses,
         IF m \in Sends THEN k = "contact" ELSE s = "sent", Append1(m, s, k)
  PROVE  ListsOK' /\ Kept
<1> DEFINE prior == {j \in Keys : shown[j][m] # "absent"}
<1>1. CASE prior = {}
  <2>1. shown' = [shown EXCEPT ![k] = [shown[k] EXCEPT ![m] = s]] /\ shown[k][m] = "absent"
    BY <1>1 DEF Append1, ListsOK
  <2> QED
    BY <2>1, SetKept
<1>2. CASE prior # {}
  <2> DEFINE j == CHOOSE j \in prior : TRUE
  <2>1. j \in prior
    BY <1>2
  <2>2. shown' = [shown EXCEPT ![j] = [shown[j] EXCEPT ![m] = FinalStatus(shown[j][m], s)]]
    BY <1>2, <2>1 DEF Append1, ListsOK, Lists
  <2> HIDE DEF j
  <2>3. j \in Keys /\ shown[j] \in Lists /\ RowList(shown[j], j) /\ shown[j][m] # "absent"
    BY <2>1 DEF ListsOK
  <2> PICK t : t = FinalStatus(shown[j][m], s)
    OBVIOUS
  <2>4. t \in Statuses /\ (IF m \in Sends THEN j = "contact" ELSE t = "sent") /\ (shown[j][m] = "delivered" => t = "delivered")
    BY <2>3 DEF FinalStatus, Statuses, RowList
  <2>5. shown' = [shown EXCEPT ![j] = [shown[j] EXCEPT ![m] = t]]
    BY <2>2
  <2> QED
    BY <2>3, <2>4, <2>5, SetKept
<1> QED
  BY <1>1, <1>2

LEMMA UpdateKept ==
  ASSUME ListsOK, UNCHANGED <<active, viewing>>, NEW m \in Messages, NEW s \in Statuses, m \in Sends \/ s = "sent",
         UpdateMessageStatus(m, s)
  PROVE  ListsOK' /\ Kept
<1>1. ASSUME NEW k \in Keys
      PROVE  /\ shown'[k] \in Lists /\ RowList(shown'[k], k)
             /\ \A n \in Messages : /\ shown[k][n] # "absent" => shown'[k][n] # "absent"
                                    /\ shown[k][n] = "delivered" => shown'[k][n] = "delivered"
  <2>1. shown[k] \in Lists /\ RowList(shown[k], k)
    BY DEF ListsOK
  <2>2. CASE shown[k][m] = "absent"
    BY <2>1, <2>2 DEF UpdateMessageStatus
  <2>3. CASE shown[k][m] # "absent"
    <3> PICK t : t = FinalStatus(shown[k][m], s)
      OBVIOUS
    <3>1. shown'[k] = [shown[k] EXCEPT ![m] = t]
      BY <2>1, <2>3 DEF UpdateMessageStatus, Lists
    <3>2. t \in Statuses /\ (IF m \in Sends THEN k = "contact" ELSE t = "sent") /\ (shown[k][m] = "delivered" => t = "delivered")
      BY <2>1, <2>3 DEF FinalStatus, Statuses, RowList
    <3>3. [shown[k] EXCEPT ![m] = t] \in Lists /\ RowList([shown[k] EXCEPT ![m] = t], k)
      BY <2>1, <3>2, SetList
    <3>4. \A n \in Messages : /\ shown[k][n] # "absent" => shown'[k][n] # "absent"
                              /\ shown[k][n] = "delivered" => shown'[k][n] = "delivered"
      BY <2>1, <3>1, <3>2 DEF Lists, Statuses
    <3> QED
      BY <3>1, <3>3, <3>4
  <2> QED
    BY <2>2, <2>3
<1>2. shown' = [k \in Keys |-> shown'[k]]
  BY DEF UpdateMessageStatus
<1>3. ListsOK'
  BY <1>1, <1>2 DEF ListsOK
<1>4. Kept
  BY <1>1 DEF Kept, Has
<1> QED
  BY <1>3, <1>4

\* What moves under the contact is received, and wins over nothing that reads
\* delivered.
LEMMA ReconciledKept ==
  ASSUME ListsOK, UNCHANGED <<active, viewing>>, NEW f, NEW cs, \A c \in cs : CallOK(c), Reconciled(f, cs)
  PROVE  ListsOK' /\ Kept /\ \A c \in calls' : CallOK(c)
<1>1. CASE shown' = shown /\ calls' = cs
  BY <1>1, StaysKept DEF ListsOK
<1>2. CASE /\ shown' = [k \in Keys |-> IF k = "sender" THEN Empty ELSE Merged(shown["contact"], shown["sender"])]
           /\ calls' = Detached(cs, Keys)
  <2>1. "sender" \in Keys /\ "contact" \in Keys /\ \A k \in Keys : k = "sender" \/ k = "contact"
    BY DEF Keys
  <2> PICK l : l = Merged(shown["contact"], shown["sender"])
    OBVIOUS
  <2>2. shown'["sender"] = Empty /\ shown'["contact"] = l /\ shown' = [k \in Keys |-> IF k = "sender" THEN Empty ELSE l]
    BY <1>2, <2>1
  <2>3. /\ shown["sender"] \in Lists /\ RowList(shown["sender"], "sender")
        /\ shown["contact"] \in Lists /\ RowList(shown["contact"], "contact")
    BY <2>1 DEF ListsOK
  <2>4. \A m \in Messages : l[m] = IF shown["sender"][m] # "absent" THEN shown["sender"][m] ELSE shown["contact"][m]
    BY DEF Merged
  <2>5. l \in Lists /\ RowList(l, "contact")
    <3>1. l = [m \in Messages |-> l[m]]
      BY DEF Merged
    <3>2. \A m \in Messages : l[m] \in Statuses \cup {"absent"}
      BY <2>3, <2>4 DEF Lists
    <3>3. RowList(l, "contact")
      BY <2>3, <2>4 DEF RowList
    <3> QED
      BY <3>1, <3>2, <3>3 DEF Lists
  <2>6. ListsOK'
    BY <2>1, <2>2, <2>5, EmptyList DEF ListsOK
  <2>7. ASSUME NEW m \in Messages, \A k \in Keys : shown'[k][m] = "absent" PROVE \A k \in Keys : shown[k][m] = "absent"
    BY <2>1, <2>2, <2>4, <2>7
  <2>8. ASSUME NEW m \in Messages, Has(shown, m, "delivered") PROVE Has(shown', m, "delivered")
    <3>1. shown["sender"][m] = "delivered" \/ shown["contact"][m] = "delivered"
      BY <2>1, <2>8 DEF Has
    <3>2. shown["sender"][m] # "absent" => m \notin Sends /\ shown["sender"][m] = "sent"
      BY <2>3 DEF RowList
    <3>3. shown["contact"][m] = "delivered" => m \in Sends
      BY <2>3 DEF RowList
    <3>4. shown'["contact"][m] = "delivered"
      BY <2>2, <2>4, <3>1, <3>2, <3>3
    <3> QED
      BY <2>1, <3>4 DEF Has
  <2>9. \A c \in calls' : CallOK(c)
    BY <1>2, DetachedOK
  <2> QED
    BY <2>6, <2>7, <2>8, <2>9 DEF Kept
<1> QED
  BY <1>1, <1>2 DEF Reconciled

---------------------------------------------------------------------------
(* Answers.                                                                *)

LEMMA HistoryAnswered ==
  ASSUME WebInv, NEW c \in calls, HistoryAnswers(c), UNCHANGED <<active, viewing>>
  PROVE  ListsOK' /\ Kept /\ \A d \in calls' : CallOK(d)
<1>1. /\ c.conv \in Keys /\ c.rows \in Lists /\ RowList(c.rows, c.conv) /\ c.msg \in Messages \cup {0}
  BY DEF WebInv, CallOK, Calls
<1> PICK l : l = Merged(c.rows, shown[c.conv])
  OBVIOUS
<1>2. l \in Lists /\ RowList(l, c.conv)
  BY <1>1, MergedList DEF WebInv, ListsOK
<1>3. shown' = [shown EXCEPT ![c.conv] = l]
      /\ calls' = Detached(calls \ {c}, {c.conv}) \cup Paging(c.conv, c.msg, l)
  BY DEF HistoryAnswers
<1>4. ListsOK'
  BY <1>1, <1>2, <1>3, OneList DEF WebInv
<1>5. Kept
  BY <1>1, MergedKept DEF WebInv, HistoryAnswers
<1>6. \A d \in Detached(calls \ {c}, {c.conv}) : CallOK(d)
  BY DetachedOK DEF WebInv
<1>7. \A d \in Paging(c.conv, c.msg, l) : CallOK(d)
  BY <1>1, <1>2, PagingOK DEF WebInv
<1> QED
  BY <1>3, <1>4, <1>5, <1>6, <1>7

\* A page that is not attached leaves the calls, unless the list it holds is the
\* one that is shown.
LEMMA PageAnswered ==
  ASSUME WebInv, NEW c \in calls, PageAnswers(c), UNCHANGED <<active, viewing>>, c.served
  PROVE  /\ ListsOK' /\ \A d \in calls' : CallOK(d)
         /\ Kept \/ (c.kind = "page" /\ ~c.attached /\ c \notin calls')
<1>1. /\ c.conv \in Keys /\ c.rows \in Lists /\ RowList(c.rows, c.conv) /\ c.msg \in Messages \cup {0}
      /\ c.held \in Lists /\ RowList(c.held, c.conv) /\ c.kind = "page"
  BY DEF WebInv, CallOK, Calls, PageAnswers
<1>2. CASE c.rows = Empty
  BY <1>2, StaysKept DEF PageAnswers, WebInv, ListsOK
<1>3. CASE c.rows # Empty
  <2> PICK old : old = IF c.attached THEN shown[c.conv] ELSE c.held
    OBVIOUS
  <2> PICK l : l = Merged(c.rows, old)
    OBVIOUS
  <2>1. old \in Lists /\ RowList(old, c.conv)
    BY <1>1 DEF WebInv, ListsOK
  <2>2. l \in Lists /\ RowList(l, c.conv)
    BY <1>1, <2>1, MergedList
  <2>3. shown' = [shown EXCEPT ![c.conv] = l]
        /\ calls' = Detached(calls \ {c}, {c.conv}) \cup Paging(c.conv, c.msg, l)
    BY <1>3 DEF PageAnswers
  <2>4. ListsOK'
    BY <1>1, <2>2, <2>3, OneList DEF WebInv
  <2>5. \A d \in Detached(calls \ {c}, {c.conv}) : CallOK(d)
    BY DetachedOK DEF WebInv
  <2>6. \A d \in Paging(c.conv, c.msg, l) : CallOK(d) /\ ~d.served
    BY <1>1, <2>2, PagingOK DEF WebInv
  <2>7. old = shown[c.conv] => Kept
    <3> SUFFICES ASSUME old = shown[c.conv] PROVE Kept
      OBVIOUS
    <3>1. shown' = [shown EXCEPT ![c.conv] = Merged(c.rows, shown[c.conv])]
      BY <2>3
    <3> QED
      BY <1>1, <3>1, MergedKept DEF WebInv
  <2>8. ASSUME c \in calls', ~c.attached PROVE c.held = shown[c.conv]
    <3>1. c \in Detached(calls \ {c}, {c.conv})
      BY <2>3, <2>6, <2>8
    <3>2. PICK d \in calls \ {c} : c = IF d.kind = "page" /\ d.attached /\ d.conv \in {c.conv}
                                       THEN [d EXCEPT !.attached = FALSE, !.held = shown[d.conv]] ELSE d
      BY <3>1 DEF Detached
    <3>3. d \in Calls /\ d.conv = c.conv /\ c = [d EXCEPT !.attached = FALSE, !.held = shown[d.conv]]
      BY <3>2 DEF WebInv, CallOK
    <3> QED
      BY <3>3 DEF Calls
  <2> QED
    BY <1>1, <2>3, <2>4, <2>5, <2>6, <2>7, <2>8
<1> QED
  BY <1>2, <1>3

LEMMA AnswerKept ==
  ASSUME WebInv, NEW c \in calls, Answer(c)
  PROVE  WebInv' /\ (Kept \/ \E d \in calls \ calls' : d.kind = "page" /\ ~d.attached)
<1>1. UNCHANGED <<stored, owner, feed, active, viewing>> /\ c.served
  BY DEF Answer, server
<1>2. ServerOK' /\ FeedOK'
  BY <1>1 DEF WebInv, ServerOK, FeedOK
<1>3. CallOK(c) /\ c \in Calls /\ RowList(c.rows, c.conv) /\ c.rows \in Lists
  BY DEF WebInv, CallOK, Calls
<1>4. CASE HistoryAnswers(c)
  BY <1>1, <1>2, <1>4, HistoryAnswered DEF WebInv
<1>5. CASE PageAnswers(c)
  <2>1. /\ ListsOK' /\ \A d \in calls' : CallOK(d)
        /\ Kept \/ (c.kind = "page" /\ ~c.attached /\ c \notin calls')
    BY <1>1, <1>5, PageAnswered
  <2> QED
    BY <1>2, <2>1 DEF WebInv
<1>6. ASSUME c.kind \in {"send", "retry", "cancel"}
      PROVE  /\ c.msg \in Messages /\ c.conv = "contact" /\ c.rows[c.msg] \in Statuses
             /\ c.msg \in Sends \/ c.rows[c.msg] = "sent"
  BY <1>1, <1>3, <1>6 DEF CallOK, RowList, Lists
<1>7. CASE SendAnswers(c)
  <2>1. c.kind = "send" /\ Append1(c.msg, c.rows[c.msg], "contact") /\ calls' = calls \ {c}
    BY <1>7 DEF SendAnswers
  <2>2. ListsOK' /\ Kept
    BY <1>1, <1>6, <2>1, AppendKept DEF WebInv, Keys
  <2> QED
    BY <1>2, <2>1, <2>2 DEF WebInv
<1>8. CASE ChangeAnswers(c)
  <2>1. c.kind \in {"retry", "cancel"} /\ UpdateMessageStatus(c.msg, c.rows[c.msg]) /\ calls' = calls \ {c}
    BY <1>8 DEF ChangeAnswers
  <2>2. ListsOK' /\ Kept
    BY <1>1, <1>6, <2>1, UpdateKept DEF WebInv
  <2> QED
    BY <1>2, <2>1, <2>2 DEF WebInv
<1>9. CASE LoadAnswers(c)
  <2>1. CASE Reconciled(c.flag, calls \ {c})
    BY <1>1, <1>2, <2>1, ReconciledKept DEF WebInv
  <2>2. CASE calls' = calls \ {c} /\ UNCHANGED <<shown, contact>>
    BY <1>1, <1>2, <2>2, StaysKept DEF WebInv, ListsOK
  <2> QED
    BY <1>9, <2>1, <2>2 DEF LoadAnswers
<1> QED
  BY <1>4, <1>5, <1>7, <1>8, <1>9 DEF Answer

---------------------------------------------------------------------------
(* The event feed.                                                         *)

LEMMA EventKept ==
  ASSUME ListsOK, \A c \in calls : CallOK(c), NEW e \in EventType, EventOK(e), OnMessage(e), UNCHANGED <<active, viewing>>
  PROVE  ListsOK' /\ Kept /\ \A c \in calls' : CallOK(c)
<1>1. ASSUME e.type \in {"new", "status"}
      PROVE  e.msg \in Messages /\ e.status \in Statuses /\ e.conv \in Keys
  BY <1>1 DEF EventOK, EventType
<1>2. CASE e.type = "new"
  <2>1. Append1(e.msg, e.status, e.conv) /\ UNCHANGED calls
    BY <1>2 DEF OnMessage
  <2>2. IF e.msg \in Sends THEN e.conv = "contact" ELSE e.status = "sent"
    BY <1>2 DEF EventOK
  <2>3. ListsOK' /\ Kept
    BY <1>1, <1>2, <2>1, <2>2, AppendKept
  <2> QED
    BY <2>1, <2>3
<1>3. CASE e.type = "status"
  <2>1. UpdateMessageStatus(e.msg, e.status) /\ UNCHANGED calls
    BY <1>3 DEF OnMessage
  <2>2. e.msg \in Sends
    BY <1>3 DEF EventOK
  <2>3. ListsOK' /\ Kept
    BY <1>1, <1>3, <2>1, <2>2, UpdateKept
  <2> QED
    BY <2>1, <2>3
<1>4. CASE e.type = "contact"
  <2>1. Reconciled(TRUE, calls)
    BY <1>4 DEF OnMessage
  <2> QED
    BY <2>1, ReconciledKept
<1> QED
  BY <1>2, <1>3, <1>4 DEF OnMessage

LEMMA FeedKept ==
  ASSUME WebInv, FeedDelivers
  PROVE  WebInv' /\ (active' # active \/ Kept)
<1>1. feed # <<>> /\ feed' = Tail(feed) /\ UNCHANGED <<stored, owner>>
  BY DEF FeedDelivers, server
<1>2. ServerOK'
  BY <1>1 DEF WebInv, ServerOK
<1>3. feed \in Seq(EventType) /\ \A i \in DOMAIN feed : EventOK(feed[i])
  BY DEF WebInv, FeedOK
<1> PICK e : e = Head(feed)
  OBVIOUS
<1>4. e \in EventType /\ EventOK(e)
  <2>1. e = feed[1] /\ 1 \in DOMAIN feed
    BY <1>1, <1>3
  <2> QED
    BY <1>3, <2>1
<1>5. FeedOK'
  <2>1. Tail(feed) \in Seq(EventType) /\ DOMAIN Tail(feed) = 1..(Len(feed) - 1) /\ DOMAIN feed = 1..Len(feed) /\ Len(feed) \in Nat
    BY <1>1, <1>3
  <2>2. \A i \in DOMAIN Tail(feed) : Tail(feed)[i] = feed[i + 1] /\ i + 1 \in DOMAIN feed
    BY <1>1, <1>3, <2>1
  <2> QED
    BY <1>1, <1>3, <2>1, <2>2 DEF FeedOK
<1>6. CASE UNCHANGED <<calls, shown, contact, unknown, viewing>> /\ active' \in Radios
  BY <1>2, <1>5, <1>6, StaysKept DEF WebInv, ListsOK
<1>7. CASE OnRadioEvent(e)
  <2>1. CASE e.radio # InView
    BY <1>6, <1>7, <2>1 DEF OnRadioEvent, WebInv, ListsOK
  <2>2. CASE e.radio = InView
    <3>1. OnMessage(e) /\ UNCHANGED <<active, viewing>>
      BY <1>7, <2>2 DEF OnRadioEvent
    <3>2. ListsOK' /\ Kept /\ \A c \in calls' : CallOK(c)
      BY <1>4, <3>1, EventKept DEF WebInv
    <3> QED
      BY <1>2, <1>5, <3>2 DEF WebInv
  <2> QED
    BY <2>1, <2>2
<1>8. CASE OnStatusChanged(e)
  <2>1. active' = e.radio /\ viewing' = viewing /\ e.radio \in Radios
    BY <1>4, <1>8 DEF OnStatusChanged, EventType
  <2>2. CASE viewing = None /\ e.radio # active
    <3>1. Reload(calls, e.radio)
      BY <1>8, <2>2 DEF OnStatusChanged
    <3>2. ListsOK' /\ \A c \in calls' : CallOK(c)
      BY <2>1, <3>1, ReloadOK DEF WebInv, ListsOK
    <3> QED
      BY <1>2, <1>5, <2>1, <2>2, <3>2 DEF WebInv
  <2>3. CASE ~(viewing = None /\ e.radio # active)
    BY <1>6, <1>8, <2>1, <2>3 DEF OnStatusChanged
  <2> QED
    BY <2>2, <2>3
<1> QED
  BY <1>7, <1>8 DEF FeedDelivers

---------------------------------------------------------------------------
(* Every step.                                                             *)

RowsStep ==
  \/ active' # active \/ viewing' # viewing
  \/ \E c \in calls \ calls' : c.kind = "page" /\ ~c.attached
  \/ Kept

LEMMA WebStep == WebInv /\ [WebNext]_webVars => WebInv' /\ RowsStep
<1> SUFFICES ASSUME WebInv, [WebNext]_webVars PROVE WebInv' /\ RowsStep
  OBVIOUS
<1>1. ASSUME WebInv', UNCHANGED shown PROVE WebInv' /\ RowsStep
  BY <1>1, StaysKept DEF RowsStep
<1>2. ASSUME NEW m \in Messages, Arrives(m) PROVE WebInv' /\ RowsStep
  BY <1>1, <1>2, ArrivesKeeps DEF Arrives, tab
<1>3. ASSUME NEW m \in Messages, RetryMessage(m) \/ CancelMessage(m) PROVE WebInv' /\ RowsStep
  BY <1>1, <1>3, ChangeKeeps DEF RetryMessage, CancelMessage, Asks, tab
<1>4. ASSUME NEW m \in Messages, NEW s \in Statuses, Progress(m, s) PROVE WebInv' /\ RowsStep
  BY <1>1, <1>4, ProgressKeeps DEF Progress, tab
<1>5. CASE Learn
  BY <1>1, <1>5, LearnKeeps DEF Learn, tab
<1>6. ASSUME NEW r \in Radios, Activate(r) PROVE WebInv' /\ RowsStep
  BY <1>1, <1>6, ActivateKeeps DEF Activate, tab
<1>7. ASSUME NEW r \in Radios, SwitchRadio(r) PROVE WebInv' /\ RowsStep
  BY <1>7, SwitchKeeps DEF SwitchRadio, RowsStep
<1>8. ASSUME NEW k \in Keys, NEW t \in Messages \cup {0}, OpenConversation(k, t) PROVE WebInv' /\ RowsStep
  BY <1>1, <1>8, OpenKeeps DEF OpenConversation, Asks, tab
<1>9. CASE SendMessage
  BY <1>1, <1>9, SendKeeps DEF SendMessage, Asks, tab
<1>10. ASSUME NEW c \in calls, Serve(c) PROVE WebInv' /\ RowsStep
  BY <1>1, <1>10, ServeKeeps DEF Serve, tab
<1>11. ASSUME NEW c \in calls, Answer(c) PROVE WebInv' /\ RowsStep
  BY <1>11, AnswerKept DEF RowsStep
<1>12. CASE FeedDelivers
  BY <1>12, FeedKept DEF RowsStep
<1>13. CASE FeedReopens
  <2>1. feed' = <<>> /\ UNCHANGED <<stored, owner, calls, active, viewing, shown>>
    BY <1>13 DEF FeedReopens, server, tab
  <2> QED
    BY <1>1, <2>1 DEF WebInv, ServerOK, ListsOK, FeedOK
<1>14. CASE UNCHANGED webVars
  BY <1>1, <1>14 DEF webVars, WebInv, ServerOK, ListsOK, FeedOK
<1> QED
  BY <1>2, <1>3, <1>4, <1>5, <1>6, <1>7, <1>8, <1>9, <1>10, <1>11, <1>12, <1>13, <1>14 DEF WebNext

\* A row that is listed stays listed, and one that reads delivered goes on to,
\* until the radio in view changes or a page brings an older list back
\* (stores/app.ts: openConversation, openConversationAt, appendMessage,
\* updateMessageStatus, reconcileUnknownConversations).
THEOREM RowsCorrect == WebSpec => RowsKept
<1>1. WebInit => WebInv
  BY WebInitially
<1>2. WebInv /\ [WebNext]_webVars => WebInv'
  BY WebStep
<1>3. WebInv /\ [WebNext]_webVars =>
        [ \/ active' # active \/ viewing' # viewing
          \/ \E c \in calls \ calls' : c.kind = "page" /\ ~c.attached
          \/ \A m \in Messages : /\ (\A k \in Keys : shown'[k][m] = "absent") => \A k \in Keys : shown[k][m] = "absent"
                                 /\ Has(shown, m, "delivered") => Has(shown', m, "delivered") ]_webVars
  BY WebStep DEF RowsStep, Kept
<1> QED
  BY <1>1, <1>2, <1>3, PTL DEF WebSpec, RowsKept
=============================================================================
