-------------------------- MODULE SchemaMigrations --------------------------
(***************************************************************************)
(* The database from one release to the next (db/index.ts): MIGRATIONS,    *)
(* the loop that applies them, and processes that start at the same time   *)
(* or die in the middle.                                                   *)
(*                                                                         *)
(* A migration is what it needs and adds, and what it makes of the rows.   *)
(* Rows are kept where a migration moves them: the identity of the sender  *)
(* and the radio of a message, contacts, the radio's own row and the       *)
(* connection settings.  A column is an object like a table:               *)
(* "messages.radio_id".                                                    *)
(***************************************************************************)
EXTENDS Integers, FiniteSets, Sequences

CONSTANTS
  Processes, Builds,
  MaxRows      \* bound: rows written to a table

VARIABLES
  db,      \* what is committed
  asked,   \* the connection settings as they were last written
  build,   \* the number of migrations each process knows, 0 if it does not run
  pc,      \* "off", "open", "begun" (in a transaction) or "serving"
  at,      \* version in migrate()
  stale    \* processes whose transaction reads a state that has been overtaken

vars == <<db, asked, build, pc, at, stale>>

---------------------------------------------------------------------------
(* What each migration needs, and the tables, columns, indexes and triggers *)
(* it adds.                                                                 *)

Tables(names) == [needs |-> {}, adds |-> names]
On(tables, names) == [needs |-> tables, adds |-> names]

Initial == Tables({"self", "contacts", "channels", "messages", "telemetry", "settings", "api_tokens",
                   "idx_messages_contact", "idx_messages_channel"})
AuthorPrefix == On({"messages"}, {"messages.author_prefix"})
FullText == On({"messages"}, {"messages_fts", "messages_fts_ai", "messages_fts_ad", "messages_fts_au"})
RemoteTelemetry == On({"telemetry"}, {"telemetry.contact_key", "idx_telemetry_contact"})
SenderPrefixes == On({"messages", "contacts"}, {"messages.contact_prefix", "idx_messages_contact_prefix"})
IngestionIds == On({"messages"}, {"messages.ingestion_id", "idx_messages_ingestion_id"})
Shapes == On({"messages", "messages.contact_prefix"}, {"messages_shape_bi", "messages_shape_bu"})
Sessions == On({"api_tokens"}, {"sessions", "api_tokens.scope", "api_tokens.expires_at"})
OutboundQueue == On({"messages"}, {"outbound_queue", "idx_outbound_queue_due"})
Profiles == Tables({"radio_profiles"})

\* Tables and indexes that are dropped are there again at the end, with the radio.
Isolation ==
  On({"self", "contacts", "channels", "messages", "messages.contact_prefix", "telemetry", "telemetry.contact_key",
      "outbound_queue", "idx_messages_contact", "idx_messages_channel", "idx_messages_contact_prefix",
      "idx_telemetry_contact", "idx_outbound_queue_due"},
     {"radios", "self.radio_id", "contacts.radio_id", "channels.radio_id", "messages.radio_id",
      "telemetry.radio_id", "outbound_queue.radio_id"})

Links == On({"radio_profiles", "settings"}, {"radio_links"})
Monitoring == Tables({"telemetry_monitors", "telemetry_alert_rules", "telemetry_alert_events",
                      "idx_telemetry_alert_rules_lookup", "idx_telemetry_alert_events_radio"})
Timeline == On({"messages.radio_id"}, {"timeline_events", "idx_timeline_events_radio", "idx_messages_radio_time"})
Webhooks == Tables({"webhook_subscriptions", "webhook_keys", "webhook_events", "webhook_events_immutable_bu",
                    "webhook_deliveries", "idx_webhook_deliveries_due", "idx_webhook_deliveries_subscription_history",
                    "idx_webhook_deliveries_retention", "idx_webhook_events_retention"})
EventScope == On({"api_tokens", "api_tokens.scope", "api_tokens.expires_at"}, {"api_tokens.events"})
FailureStreak == On({"webhook_subscriptions"}, {"webhook_subscriptions.consecutive_failures"})
PushSubscriptions == Tables({"push_subscriptions", "idx_push_subscriptions_session"})

MIGRATIONS ==
  <<Initial, AuthorPrefix, FullText, RemoteTelemetry, SenderPrefixes, IngestionIds, Shapes, Sessions, OutboundQueue,
    Profiles, Isolation, Links, Monitoring, Timeline, Webhooks, EventScope, FailureStreak, PushSubscriptions>>

Latest == Len(MIGRATIONS)

\* A build knows the migrations up to one of them.
ASSUME SchemaAssumption == Builds \subseteq 1..Latest /\ MaxRows \in Nat

---------------------------------------------------------------------------
(* What the migrations make of the rows of a database d.  A message is     *)
(* [kind, was, key, prefix, radio]: "was" is the key it was written with,  *)
(* which before the migration of prefixes may be "full", "short" or        *)
(* "padded"; the contact there may be has a key that looks padded.        *)

Nothing == "none"
Unset == [active |-> "unset", standby |-> FALSE, radio |-> 0]

\* Faulty variant: a padded key is taken away, and no prefix made of it.
SeparatedShort(d, m) ==
  IF m.kind = "dm" /\ (m.key = "short" \/ (m.key = "padded" /\ "padded" \notin d.contacts))
  THEN [m EXCEPT !.prefix = IF m.key = "short" THEN m.key ELSE Nothing, !.key = Nothing] ELSE m

\* A key that is short, or padded and of no contact, is a prefix.
Separated(d, m) ==
  IF m.kind = "dm" /\ (m.key = "short" \/ (m.key = "padded" /\ "padded" \notin d.contacts))
  THEN [m EXCEPT !.prefix = m.key, !.key = Nothing] ELSE m

\* Faulty variant: a setting that was cleared counts as one that is there.
SelectedEver(d) == d.settings.active # "unset"

Selected(d) == d.settings.active \notin {"unset", "null"}

\* The connection goes on: as the link of its profile, or as the default link.
Link(d) == [profile |-> IF Selected(d) THEN d.settings.active ELSE "default",
            standby |-> d.settings.standby, radio |-> d.settings.radio]

Carried(d) ==
  LET default == IF Selected(d) THEN {} ELSE {Link(d)}
      profile == IF d.settings.active = "profile" THEN {Link(d)} ELSE {}
  IN  [d EXCEPT !.links = default \cup profile, !.settings = Unset]

ByRadio(d) ==
  [d EXCEPT !.radios = IF d.self THEN {1} ELSE {},
             !.messages = [i \in DOMAIN d.messages |-> [d.messages[i] EXCEPT !.radio = 1]]]

Rows(n, d) ==
  CASE n = 5  -> [d EXCEPT !.messages = [i \in DOMAIN d.messages |-> Separated(d, d.messages[i])]]
    [] n = 11 -> ByRadio(d)
    [] n = 12 -> Carried(d)
    [] OTHER  -> d

Fits(n, d) == MIGRATIONS[n].needs \subseteq d.has /\ MIGRATIONS[n].adds \cap d.has = {}

Migrated(n, d) == [Rows(n, d) EXCEPT !.has = @ \cup MIGRATIONS[n].adds, !.version = n]

---------------------------------------------------------------------------
Init ==
  /\ db = [version |-> 0, has |-> {}, self |-> FALSE, contacts |-> {}, messages |-> <<>>, radios |-> {},
           settings |-> Unset, links |-> {}]
  /\ asked = Unset
  /\ build = [p \in Processes |-> 0] /\ pc = [p \in Processes |-> "off"]
  /\ at = [p \in Processes |-> 0] /\ stale = {}

\* An older build must not run against a database that is further on.
Starts(p, b) ==
  /\ pc[p] = "off" /\ db.version <= b
  /\ build' = [build EXCEPT ![p] = b] /\ pc' = [pc EXCEPT ![p] = "open"]
  /\ UNCHANGED <<db, asked, at, stale>>

\* Faulty variant: one step too far back.
BehindByOne(version, step) == version <= step + 1

\* current <= version: the step has not been applied.
Behind(version, step) == version <= step

\* The transaction begins by reading user_version, and with it a snapshot.  A step
\* that is not needed writes nothing.
Begins(p) ==
  /\ pc[p] = "open" /\ at[p] < build[p]
  /\ IF Behind(db.version, at[p])
     THEN pc' = [pc EXCEPT ![p] = "begun"] /\ UNCHANGED at
     ELSE at' = [at EXCEPT ![p] = @ + 1] /\ UNCHANGED pc
  /\ UNCHANGED <<db, asked, build, stale>>

\* The process is gone; what it had not committed leaves nothing.
Gone(p) ==
  /\ pc' = [pc EXCEPT ![p] = "off"] /\ build' = [build EXCEPT ![p] = 0] /\ at' = [at EXCEPT ![p] = 0]
  /\ stale' = stale \ {p}

Overtaken(p) == stale \cup {q \in Processes \ {p} : pc[q] = "begun"}

\* The step is written and committed, if nobody has committed anything meanwhile.
Applies(p) ==
  /\ pc[p] = "begun" /\ p \notin stale
  /\ IF Fits(at[p] + 1, db)
     THEN /\ db' = Migrated(at[p] + 1, db) /\ at' = [at EXCEPT ![p] = @ + 1]
          /\ pc' = [pc EXCEPT ![p] = "open"] /\ stale' = Overtaken(p) /\ UNCHANGED build
     ELSE Gone(p) /\ UNCHANGED db
  /\ UNCHANGED asked

\* A snapshot that has been overtaken cannot be written on: SQLite refuses, and
\* openDb closes the database and throws.
Busy(p) ==
  /\ pc[p] = "begun" /\ p \in stale /\ Gone(p)
  /\ UNCHANGED <<db, asked>>

Opened(p) ==
  /\ pc[p] = "open" /\ at[p] = build[p] /\ pc' = [pc EXCEPT ![p] = "serving"]
  /\ UNCHANGED <<db, asked, build, at, stale>>

Dies(p) ==
  /\ pc[p] # "off" /\ Gone(p)
  /\ UNCHANGED <<db, asked>>

---------------------------------------------------------------------------
(* What the builds write, in the schema of their version.                  *)

Writes(p, d) ==
  /\ pc[p] = "serving" /\ build[p] = db.version
  /\ db' = d /\ stale' = Overtaken(p)
  /\ UNCHANGED <<build, pc, at>>

Message(kind, key) ==
  LET named == db.version < 5 \/ key \notin {"short", "padded"} IN
  [kind |-> kind, was |-> key, key |-> IF named THEN key ELSE Nothing,
   prefix |-> IF named THEN Nothing ELSE key, radio |-> IF db.version < 11 THEN 0 ELSE 1]

\* Once rows belong to radios there must be one (a radio that has not said who it
\* is gets a placeholder: InboundMessages.tla).
StoresMessage(p) ==
  /\ Len(db.messages) < MaxRows
  /\ db.version >= 11 => db.radios = {1}
  /\ \E m \in {Message("dm", k) : k \in {"full", "short", "padded"}} \cup {Message("channel", Nothing)} :
       Writes(p, [db EXCEPT !.messages = Append(@, m)])
  /\ UNCHANGED asked

StoresContact(p) ==
  /\ Writes(p, [db EXCEPT !.contacts = {"padded"}])
  /\ UNCHANGED asked

\* The radio says who it is.
Identifies(p) ==
  /\ Writes(p, [db EXCEPT !.self = TRUE, !.radios = IF db.version < 11 THEN {} ELSE {1}])
  /\ UNCHANGED asked

\* The connection before there were links: a selection that may be cleared again.
SetsConnection(p) ==
  /\ db.version \in {10, 11}
  /\ \E a \in {"null", "profile"}, s \in BOOLEAN, r \in {0, 1} :
       /\ r \in db.radios \cup {0}
       /\ asked' = [active |-> a, standby |-> s, radio |-> r]
       /\ Writes(p, [db EXCEPT !.settings = asked'])

---------------------------------------------------------------------------
Next ==
  \E p \in Processes :
    \/ \E b \in Builds : Starts(p, b)
    \/ Begins(p) \/ Applies(p) \/ Busy(p) \/ Opened(p) \/ Dies(p)
    \/ StoresMessage(p) \/ StoresContact(p) \/ Identifies(p) \/ SetsConnection(p)

Spec == Init /\ [][Next]_vars

---------------------------------------------------------------------------
(* What is promised.                                                       *)

\* "Re-checking user_version inside every transaction": whoever starts and dies
\* when, a step that is about to be written finds what it needs, and nothing of
\* what it adds (migrate).
StepsFit == \A p \in Processes : pc[p] = "begun" /\ p \notin stale => Fits(at[p] + 1, db)

\* Through all migrations, whatever rows there were at each: a direct message has
\* a key or a prefix and not both, one with a full key keeps it, one with a short
\* key has it as its prefix, and all rows are those of the one radio.
HistoryKept ==
  \A i \in DOMAIN db.messages : LET m == db.messages[i] IN
    /\ m.kind = "dm" => {m.key, m.prefix} = {m.was, Nothing}
    /\ m.was = "full" => m.key = "full"
    /\ db.version >= 5 /\ m.was = "short" => m.prefix = "short"
    /\ db.version >= 5 /\ m.key = "padded" => "padded" \in db.contacts
    /\ db.version >= 11 => m.radio = 1 /\ (db.self <=> db.radios = {1})

\* "An upgrading single-radio deployment keeps its one connection unchanged": there
\* is one link, of the profile that was selected if one was, in the standby and
\* with the radio it had (migration 12).
OneConnection ==
  db.version >= 12 =>
    db.links = {[profile |-> IF asked.active = "profile" THEN "profile" ELSE "default",
                 standby |-> asked.standby, radio |-> asked.radio]}
=============================================================================
