# MeshKeep in TLA+

MeshKeep keeps a MeshCore radio connected to a server, stores what it hears, and
lets several browsers talk through it. This directory holds TLA+ specifications of
the parts of it that are hard to test - queues, links and workers whose handlers
interleave at every `await` - with TLC configurations that model-check them and
TLAPS proofs of the most important invariants.

Paths below are relative to `packages/server/src/` unless they say otherwise.

## Running it

    tlasany M.tla                        # parse
    tlc -workers 2 -config X.cfg M       # one of the runs of section 3
    tlapm P.tla                          # P is one of OutboundQueueProofs, RadioLinkProofs,
                                         # WebhookProofs, InboundProofs, BackgroundProofs,
                                         # RowsProofs, HubProofs, TabProofs

## 1. The system

JavaScript runs one handler at a time, up to its next `await`. Everything hard in
this program follows from that: what a handler read before an `await` may have been
changed by any other handler when it goes on, and a callback finds the state of
that moment, not of the moment it was registered. The specifications therefore use
one grain throughout: **an action is what runs from one `await` to the next**, with
every synchronous call it makes included.

| Component | State | Operations | Talks to |
|---|---|---|---|
| Outbound message queue (`radio/link.ts` 700-815, 1041-1098; `radio/manager.ts` 337-419; `db/store.ts` 992-1093) | tables `outbound_queue` and `messages`; per link: `outboundRunning`, `outboundKickAgain`, `outboundTimer`, `pendingDirectDelivery`, `directSendQueue` | enqueue, retry, cancel, the worker loop, send and its response, acknowledgement push, acknowledgement timeout, backoff, restart | the link's state and connection; the radio |
| Radio link (`radio/link.ts` 186-450; `radio/reconnect-policy.ts`) | `state`, `connection`, `standby`, `stopped`, `reconnectTimer`, generation | start, connect, sync, loss, failure, reconnect, release, claim, stop | the transport library; the hub; the outbound worker |
| Link hub (`radio/manager.ts`; table `radio_links`) | map of running links, table of active ones, profiles, override | activate, deactivate one or all, edit, override, delete, start, stop, BLE check | every link; the API |
| Webhook deliveries (`webhooks/worker.ts`, `db/store.ts` 2063-2660, `api/routes.ts` 1090-1160) | subscriptions, keys, delivery rows with leases, the worker's drain | create, pause, resume, delete, rotate, queue, claim, deliver, fail, expire, restart | events of the store; receivers |
| Inbound messages and contacts (`radio/link.ts` 453-695, `db/store.ts` 544-664, 853-958) | tables `messages`, `contacts`; per link: `draining`, `drainAgain`, `radioId` | pushes, drain loop, deduplication, contact scans, adverts, attribution by prefix | the radio; browser ingest |
| Radio identity (`db/store.ts` 405-527, `radio/manager.ts` 107) | tables `radios`, `radio_links.last_radio_id` | placeholders, `resolveRadio`, `forgetRadio` | links, ingest, the queue's rows |
| Radio commands (`radio/link.ts` 499-619, 817-1225) | what the radio keeps and the tables that follow it; the queue of uncorrelated commands | set and delete channels, settings, contacts, refreshes, the sync | the radio; the API |
| Telemetry monitors and alerts (`db/store.ts` 1401-1725, `radio/link.ts` 961-1034) | monitors, samples, rules and their state | round-robin polling, battery reads, requests of users, breach and recovery | webhooks, push |
| Retention and queries (`db/store.ts` 1401-1533, 1787-2018, 2447-2720) | - | pages, exports, overviews, pruning by age | the worker, the API |
| Webhook policy (`api/routes.ts` 96-144, 1089-1221, `webhooks/worker.ts` 122-249, 302-338, `packages/shared`) | - | what a destination may be, who is sent what, delays, keys | the queue of deliveries |
| Conversations (`db/store.ts` 1105-1382, `packages/web/src/stores/app.ts`, `notifications.ts`) | read marks; badges, unknown senders | history, search, unread summaries, arrival, removal, opening | the web store |
| Browser radio (`packages/web/src/sources/`) and ingest (`api/ingest.ts`) | an IndexedDB queue of records; a session's drain and its pending delivery | connect, drain, send, acknowledge, post, queue, flush | the server's ingest routes |
| Web store (`packages/web/src/stores/app.ts`) | the lists of one radio | open, page, send, retry, cancel, select, apply events | REST and WebSocket |
| Timeline (`packages/web/src/views/TimelineView.vue`, `timeline.ts`) | the window, the page and live events | load, follow, zoom, pan, select | the queries, the feed |
| Channel secrets (`packages/shared/src/channels.ts`, `ChatView.vue` 434-490) | a form | normalise, share, paste, save | the API |
| Sessions, push, WebSocket hub (`api/auth.ts`, `push/worker.ts`, `api/ws.ts`) | sessions, subscriptions with failure streaks, clients with a heartbeat | login, logout, subscribe, send, beat | browsers, push services |
| Database schema (`db/index.ts`) | `user_version`, the tables | open, migrate | every process |
| Shutdown, tile cache, transports, configuration | - | - | - |

### What is hard, and what makes each part correct

*Outbound queue.* The worker reads an entry, waits in a chain of direct sends for
the acknowledgement of an earlier message, then waits for the radio's response; the
user may retry or cancel meanwhile, the link may drop, the process may restart, and
an acknowledgement may come before the response it belongs to or long after its
timeout. Correct means: no message is lost, none is handed over again once the
radio has answered for it, the queue row and the message row agree, *delivered*
means the recipient acknowledged, the chain cannot jam and the queue cannot fall
asleep with work in it.

*Radio link.* `teardown()` awaits `connection.close()`, and five different callers go
on after it, each in whatever state the others have made. Correct means: a released
link stays released and holds no connection, no connection is forgotten, a loss is
always followed by another attempt.

*Link hub.* Removing a link awaits its close and then deletes whatever the map holds
under the key. Correct means: no running link is forgotten, what runs is what the
database lists, nothing runs after a shutdown, and the one BLE adapter is used once.

*Webhooks.* Leases outlive the process that took them; requests are open while their
subscription is paused, deleted or given a new key. Correct means: one request per
subscription, bounded leases and queue, attempts bounded but for crashes, nothing left
to send for a disabled subscription, and every delivery ends.

*Inbound.* Messages are pulled one at a time from a radio that forgets each as it hands it out, on a push that
may come at any moment of a drain. They name their sender by a prefix, which contacts that come and go - from scans, adverts
and browser sessions, in the radio's order - explain sooner or later, and they are filed under an identity that was
found on some connection, not necessarily this one. Correct means: the radio is emptied, history has each frame once and under its
radio, an attribution is made when it can be made and kept once made.

*Commands.* A radio answers without saying to what, so answers go to whoever listens. Correct means: however calls,
refreshes and the sync overlap, the database ends with what the radio keeps, and a command that fails does not stop those behind it.

*Monitors and alerts.* Samples come from three sources. Correct means: who is monitored is asked again and again, and a rule reports
each change of its state once.

*Browsers.* A session, a subscription and a socket each end in several ways, with sends and heartbeats under way. Correct
means: nothing outlives a logout, and what is dead is given up.

*A tab.* It sends requests whose answers come in any order, beside a feed of events that are also in those answers; and when
it drives a radio itself, records reach it as local rows, answers and events, and outlive the session they belong to. Correct means: a row is there
once and stays, private sessions leave no trace, sends end, a view at rest shows what is stored, and a badge can be opened.

*The schema.* Eighteen migrations, written over time, meet rows of every age, and processes that start together. Correct
means: each finds what it needs, and history is carried over.

## 2. Modules

| Module | What it is |
|---|---|
| `MessageLifecycle` | the abstract promise: what may happen to one message |
| `OutboundQueue` | the queue, the worker and the send chain; implements `MessageLifecycle` |
| `OutboundQueueProofs` | theorems about its invariants, and that it implements `MessageLifecycle` |
| `RadioLink` | one link's lifecycle with overlapping closes |
| `RadioLinkProofs` | theorems about it, and about `RadioCommands` |
| `LinkHub` | the hub, several links of a simpler kind |
| `HubProofs` | theorems about it |
| `WebhookQueue` | subscriptions, keys, deliveries and the worker |
| `WebhookProofs` | theorems about it |
| `InboundMessages` | radios, contacts and incoming messages of one link, next to browser sessions |
| `InboundProofs` | theorems about it |
| `RadioCommands` | commands over one link, the radio and the database |
| `TelemetryMonitors` | monitors, polls and alert rules of one radio |
| `BrowserAccess` | sessions, push subscriptions and feed clients of one browser |
| `BackgroundProofs` | theorems about these two |
| `BrowserRadio` | a radio driven by a tab, its queue and its rows, next to the server |
| `TimelineView` | the timeline of a tab; extends `TimelineQueries` |
| `TabProofs` | theorems about these two |
| `WebStore` | the message lists of a tab |
| `Attention` | badges and sidebar of a tab step by step; extends `Conversations` |
| `SchemaMigrations` | the database from release to release |
| `RowsProofs` | theorems about it and about `WebStore` |
| `WebhookPolicy`, `Conversations`, `Retention`, `TimelineQueries`, `ChannelSecrets` | functions, see below |
| `MC*` | constants and initial conditions for TLC; those of the function modules evaluate what is asked of the functions |

The detailed modules have operators that no action of `Next` uses, marked *Faulty variant*
and standing before the definition they resemble. Each is that definition with a
plausible mistake in it (a missing guard, a reset that was forgotten). They document
what each property is sensitive to: put the variant in the definition's place and TLC
finds the property violated.

### How the outbound model corresponds to the code

| Model | Code |
|---|---|
| `status`, `entry`, `attempts` | `messages.status`, `outbound_queue.state`, `.attempts`; `"none"` is the absence of the row |
| `due`, `before` | `next_attempt_at`: which entries are due, and the order `takeDueOutbound` serves them in. An entry that becomes due comes after those that are due already |
| `linkState`, `open`, `standby` | `this.state`, `this.connection !== null`, `this.standby` |
| `worker`, `job`, `jobAttempts`, `via` | the frames of `processOutboundQueue`, `runDirectSend` and the send: what they captured before their `await`s. `via` is the fate of the captured connection |
| `pending`, `early` | `pendingDirectDelivery`, `earlyAckCode` |
| `aired`, `acked`, `handed` | the world, for the properties only |
| `ServeNext` | the worker loop from where it goes on to its next `await` or its end, evaluated in the state the handler leaves; this is why it is a part of every action that kicks or resumes the worker and never an action of its own |
| `Teardown`, `CloseDone` | `teardown()` before and after it awaits `connection.close()`: between the two the state still reads `connected` |

CRCs are model values, `Crc` gives the radio's code for each message, and codes
could collide. The link of this module opens one connection at a time and has no
overlapping closes; those are `RadioLink`'s subject.

### How the link model corresponds to the code

`state`, `connection`, `standby`, `stopped`, `timer` are the fields of `RadioLink`;
`settings` is what `getEffectiveSettings()` answers at this moment, which changes under the
default link when profiles are activated. Each connection object has a `phase`, and
`after[c]` says which caller of `teardown()` waits for its close. The code's generation counter and its comparison with
the current connection coincide: both change exactly in `teardown()` and when a
connection is opened, so `connection = c` stands for `isCurrent`. `Continue` is the
rest of each caller after the await, with the checks it makes, and with those it does not.
`ConnectFails` stands for a refused or timed-out attempt and for an error in the sync.

### How the hub model corresponds to the code

`active` is `radio_links`, `map` is `this.links`, `wants` the profiles' transports (and,
for the key 0, env and override). A link object remembers on whose behalf its
connection is being closed. `RemoveLink` and `Proceed` are the two sides of the await in
`removeLink`; `Effective` is `connectionSettings()`, with the default link following the active
profile of lowest id. `StartNext` is an iteration of `start()`'s loop, which awaits each
link's first attempt. A link that is stopped a second time while it closes awaits nothing,
as in the code. Link objects are taken again once nothing refers to them.

### How the webhook model corresponds to the code

Timestamps are kept as distances from now and stop where no comparison can tell
them apart any more; `Tick` moves them together. Its unit stands for no
particular time: what matters is the order in which windows, leases and delays end, and the constants give them small lengths. `Drain` is the
synchronous part of `drain()` - sweep, requeue, claim, and the start of each delivery, which picks
its key - and the outcomes of the requests are actions of their own. `signs` and `old` are
what a delivery read when it began: whether its key may sign, and whether its time was up.
`restarts` counts the process's deaths and is bounded.

### How the inbound model corresponds to the code

`rows`, `owner` and `created` are the table `radios`, whose ids are never used twice; an owner `NoRadio` is a NULL
`public_key`. `contacts` and `messages` are kept by the id of the radio; a message's `id` is its `ingestion_id`, the hash of
radio, prefix and contents, as the tuple of these. `radioId` is the link's field and `last_radio_id`, which are written together.
`device` is what is really at the other end. `conn` counts how far `connect()` and `initialSync()` are: `open` is from the moment the
listeners are attached until `getSelfInfo` has answered.

`drain` says where `drainConnection` is: about to ask, waiting (`coming`), or with its answer `here`, before the continuation of the
`await`. `wire` carries pushes and answers in the order the radio sent them, so that a push may fall on either side of an answer.
`scan` holds contact lists between the answer and `applyContactScan`, one for the sync and one for adverts and path
updates together. What a radio lists is arbitrary each time.

`Reconcile` is the effect of storing contacts one by one: `reconcileContactMessages` runs after each upsert and counts the contacts
stored so far, so of several with one prefix only the first can ever be the only one. `Orders` chooses that first contact for
each prefix.

### How the commands model corresponds to the code

A job is a call of the API or the sync, with the commands it still has to give (`Commands`); `pc` says whether it waits for its turn in
`uncorrelatedCommandQueue` (`Queued`), listens for an answer, or is about to go on. `air` holds answers on their way, each
marked with the job that asked, which the code cannot see: `Deliver` gives it to every job that listens for its kind. `radio` and `store` are functions
from channel slots, contacts and settings to values. `clean` is history: it is true while every answer of the connection went to the
job that asked. `Mirrors` is conditional on it, because commands outside the queue (settings, removals) do share their Ok and Err with
channel commands, as section 5 describes; for the queued ones the queue itself must keep it true, which is what its mutant breaks and section 4 proves.

### How the telemetry model corresponds to the code

Time passes in poll intervals. `newest` is the age of a contact's newest row, which is all `nextDueMonitor` sorts by; ages beyond
`Retention` are one. `asked` are requests under way, of the poll timer or of users, cancelled by `Lost`. `EvaluateAlerts` is the loop
over the rules inside the insert of a sample; `v` and `w` are two values of one metric in one answer. `events` is what each rule
has fired, the oldest forgotten, and `heard` the last value recorded for it: both for the properties only.

### How the access model corresponds to the code

`session`, `bound` and `streak` are the tables `web_sessions` and `push_subscriptions` (an endpoint bound to `NoSession` has no row);
`cookie` is what the browser sends. `service` is the push service's view of an endpoint. `Publish` starts the sends that the rate
limit allows, and each `SendEnds` later, against whatever row is there by then. `client` and `ponged` are the set of feed clients and the liveness flag of
the heartbeat, `silent` being a peer that is gone without a close.

### How the browser radio corresponds to the code

A record is named by its ingestion id, and the server keeps at most one row for each. A task is what the tab
waits for outside the radio: a POST, a put, or a take. A put and a take each read the stored queue in one transaction and write it back
in another (`served` marks the moment between the two). `session` numbers the sessions, and a task of an earlier one goes on
after it. `ack` and `localId` belong to the pending acknowledgement: `taken` once it has been settled or timed out. `listing` has the
rows of the tab, with the id each goes by.

### How the timeline corresponds to the code

The unit of time is a minute or more, so the 250 ms of `scheduleFetch` pass within it. A live event is in `shown` under a synthetic id until a page
brings the stored one. `calls` has the request whose `seq` is the latest; `StillShown` is what survives when a page arrives.
`blank` and `skipped` are history and name the two cases in which the view at rest lacks something (section 5).

### How the web store corresponds to the code

`stored`, `owner`, `known` and `running` are the server; `feed` carries events in order and loses those of a socket that is closed. `calls` are
requests under way, each with what it captured: the list it will write to (`attached` says whether that list is still the one in
`conversations`), the radio it asked about, and its answer once the server has read it. `shown` has the lists: the status of each row, in each of the two conversations
a sender's messages may be listed in.

### How the schema corresponds to the code

Each of the eighteen migrations is an operator that says which objects must be there, which it adds, and what it makes of the rows. `Begins`,
`Applies` and `Dies` are the steps of `migrate()`; a process that waited for the lock reads `user_version` again inside its
transaction, and one whose snapshot was overtaken is `stale` and fails as busy. `asked` is what the connection settings said
when they were last written, for comparison with the link that migration 12 makes of them.

### Functions

Where a part of the system has no steps of its own it is a module of functions, and its MC module states as assumptions what
the functions owe each other; TLC evaluates them over all small inputs before the run they are part of begins:

| Functions | What is asked of them | Evaluated with |
|---|---|---|
| `WebhookPolicy` | addresses are classified alike in every spelling, an accepted name stays acceptable and reaches what was accepted, nothing is sent that was not asked for or consented to, every subscriber is served, delays are bounded and growing, a key that was replaced retires | `webhook`, `webhook_one` |
| `TimelineQueries` | a page has exactly the newest of what was asked, an overview counts each event once, windows stay legal, clusters lie apart | `tab` |
| `Conversations` | a tab that takes in an arrival, a removal or a resolution shows what a reload would; totals agree; badges can be opened; pages cover a history; search, counts, notifications and preferences are consistent | `tab` |
| `ChannelSecrets` | a secret reads back from every text, a shared link saves the channel that was shared | `tab` |
| `Retention` | an export is what the graphs show, trimming takes nothing still asked for, pruning takes the rest and no more, pages show each delivery once | `rows` |

## 3. Runs

| Run | What it asks | Bounds |
|---|---|---|
| `outbound` | the invariants of the queue, and that it implements `MessageLifecycle` | two direct messages and one for a channel, distinct CRCs, two attempts |
| `outbound_live` | every queued message settles once the link stays up | two direct messages |
| `outbound_strand` (violated) | operations.md: pending until handed over | as `outbound` |
| `link` | quiet when released, no leak, losses retried; the database mirrors the radio, channel commands end | three connections: a current one and two in their close; two channel slots, one contact, two calls beside the sync, one reconnection |
| `hub` | no orphan, table and map agree, quiet after stop, profiles share BLE | two profiles and the default link, three link objects, one removal at a time |
| `webhook` | capacity and queue limit | three subscriptions competing for one lease and two places in the queue, a restart |
| `webhook_one` | one subscription's bookkeeping, leases and that deliveries end | two deliveries, two keys, a window of 2, a restart |
| `inbound` | the identity of a connected link, each frame once, attributions kept and completed, the radio emptied | two radios, two rows, two contacts with the same prefix, one frame that arrives twice |
| `background` | alerts alternate and tell the last sample, monitors are served; nothing outlives a logout, what is dead is given up | three contacts of which one is out of reach, two values, one rule, one request of a user at a time; two endpoints, a tab, two logins, two failures in a row |
| `tab` | private sessions, one row for a record, sends end; a timeline at rest is complete and does not load for ever | one frame, one send, two sessions, a queue of one, one failing request; a sample and an advert, a window of one or two, pages of one, one move |
| `rows` | migrations fit, history and the connection are kept; listed rows stay listed | two processes of three releases, one message; three messages of which the user sends one, pages of one, two requests at a time, two events on their way |
| `badge_rows` (violated) | app.ts: no unrenderable count | two senders, three messages |

Four runs check two models each (`link`: `RadioLink` and `RadioCommands`; `background`: `TelemetryMonitors` and
`BrowserAccess`; `tab`: `BrowserRadio` and `TimelineView`; `rows`: `SchemaMigrations` and `WebStore`). The two share no variable: the
initial state chooses one of them in `part`, it moves while the other stands still, and the fairness assumed is that of the one that moves. The state space is therefore
the sum of the two and not their product, and nothing is claimed about their interplay.

The type invariants are theorems of section 4 where a module has proofs, and no run repeats them; that of `WebStore` documents the shape of its variables.

**Why the bounds are enough.** *Outbound*: the chain has one holder and one waiter at a
time, so two direct messages make every relation of a waiter to a holder (and two codes make a late
acknowledgement of the one hit the other), the channel message is what passes the chain; two
attempts give a retry and a last attempt. *Link*: two closes in progress
and a third connection in use is the most that one more actor can still interfere with; a fourth
connection only repeats the continuations. Two calls and the sync are enough for an answer to find a listener it was not for. *Hub*: with one profile the
default link's settings could not follow *another* profile than the one at hand; three link objects
are as many as there are keys. *Webhook*: limits of one and two are reached and left again
in a few steps, and a window of 2 with a lease of 1 lets a lease end before, with and after the window.

*Inbound*: two contacts with one prefix are what makes an attribution
ambiguous; a frame that arrives twice makes both a duplicate and a second push for a drain; with two rows a placeholder can be
claimed by either radio, be forgotten, and leave its id behind in the link.

*Background*: two contacts that answer are what an unfair order can favour, the third keeps one place of the poller busy. Two logins and two
endpoints let a subscription pass from a session to the next while a send of the first is under way. *Tab*: two sessions let the tasks
of a private one and of another overlap, and a queue of one overflows at once. A page of one is cut as soon as there are two events. *Rows*: releases before, between
and after the migrations that move rows, on one database. One sender with two conversations, three messages, and two requests give every
overlap of a history with a page, a send and an event.

**Deadlock** is checked in all runs but four, where the program may really stop: `hub` (stopped, and every profile deleted), `link`
(stopped, its connections closed; or the bounded number of connections and calls used up), `tab` and `rows` (the bounded sessions, moves, requests
and switches used up; every process dead).

**Symmetry** is used for link objects (`hub`), subscriptions (`webhook`) and processes (`rows`), in runs with
invariants and action properties only; the runs with liveness properties use none.

**Fairness.** Every fairness condition is on something the runtime or a timeout does, and none on a user, a
receiver's goodwill, the mesh, or a connection's staying up:

- `OutboundQueue!Scheduling`: armed timers fire, a backoff elapses, the acknowledgement timeout fires. That the link comes
  up is not assumed: the property speaks of links that stay connected. `FairSpec` also assumes that the library settles every send
  promise - an assumption about `meshcore.js` the code relies on: `link.ts` 756 awaits the
  promise without `awaitCurrent`, so a response that never comes would stop the queue (see section 5).
- `RadioLink!FairSpec`: a link is started, an attempt ends one way or another because it has a
  timeout, a close resolves, the reconnect timer fires. A connection that is open may stay so for ever.
- `WebhookQueue!FairSpec`: the drain timer ticks, time passes, and a request ends because it has a timeout. Which way it ends is not assumed.
- `InboundMessages!FairSpec`: a connection that is up carries requests, answers and pushes, and a settled promise goes on. Its liveness
  property speaks of links that stay synced and of drains that do not fail.
- `RadioCommands!CommandsFair`: continuations go on and the timeout of a command fires; that the radio answers is not assumed. That a
  sync ends is: its commands have timeouts, and their failure ends it.
- `TelemetryMonitors!FairSpec`: the poll timer fires and a request is answered or times out. The property is conditional on the link's staying up.
- `BrowserAccess!AccessFair`: there is always something to publish, a send ends, timers fire. Without the first a dead endpoint is never found out, in the program too.
- `BrowserRadio!FairSpec`: the library answers or rejects, requests and transactions end in one way or another, timers fire.
- `TimelineView!TimelineFair`: the bootstrap answers, and requests are answered or fail.

## 4. Proofs

`OutboundQueueProofs` proves, for any sets of messages and codes and any limit of attempts, that
`IInv` is inductive and that it implies the safety invariants of the run `outbound`, and three more:
`TypeCorrect`, `LedgerCorrect`, `NoLoss`, `FreshSnapshot`, `NoSecondHandover`, `ChainMoves`,
`DeliveredCorrect`. The only assumptions are `OutboundAssumption`; `DeliveredCorrect` adds
that CRCs are distinct, and it is false without that.
The invariants are not inductive one by one. That nothing is handed over twice needs `HandedLeft`: a
message the radio has answered for has no entry left for the loop to take. A retry must not bring such an
entry back, which needs the ledger. That a waiter has a holder needs the last conjunct of `WorkerOK`: the
pending delivery was handed over, or is the one the worker is sending at this moment. `IInv` consists
of what the database holds (`DbOK`), what the link reports (`LinkOK`) and what the worker and the chain
remember of the database (`WorkerOK`); each action has a lemma that treats the part it can disturb. `ServeNext`
occurs in six actions and is dealt with once, in `ServeNextOK` and `KickOK`.

`RadioLinkProofs` proves `TypeCorrect`, `StaysQuiet` and `NothingLeaks` for any set of connections.
There the invariants the run checks are inductive together: a continuation that runs late can do
harm only through the connection and the timer, and both are guarded by `stopped` and `standby`.
Of `RadioCommands` it proves `CommandsTypeCorrect` and `MirrorsCorrect` (`Mirrors`), for any channels, contacts, values and calls at a time, from
`CommandsAssumption`: slots, contacts and settings are different things, and there are some. `Mirrors` speaks of the moments at which nothing is under way,
and `CommandsInv` says what holds until then. `Base`, which always holds, says what a job of each kind still has to send (`Shape`) and that each channel command
under way is in the queue once, of which only the first is heard. `CleanOK` is the rest, on a connection that is clean. There every frame on its way has the job that
asked among its listeners, and a job that waits has one frame on its way that ends its wait (`Settled`), so an answer that is taken for
another's shows at once, in `clean`. What frames say is what the radio keeps, and what the database has is that too, or else a job under way will save it: `SettingsOK`, `ChannelsOK` and
`ContactsOK`. The last of these is not inductive by itself, for two reasons. A removal may be answered after a scan has listed what it removed: the scan then saves the
contact, and the removal takes it out when its turn to save comes, which is what `Behind` says. And when two scans, or two writes, wait for one kind of
answer, a list can be older than the radio; but then the first answer is heard by both, and the connection will not stay clean. That state is `Doomed`, and it lasts
until `clean` is lost (`DoomedStays`). Whether the settings are the radio's needs to know that no two jobs are about settings (`Alone`), which `clean` sees to.

It also proves `Implements`: every step of the queue is, for the phases of the messages and
the one the worker holds, a step of `MessageLifecycle` or a stutter. `ServeNext` is a part of the
handlers that resume the worker, so one step may settle a message and take up another; the abstract
steps say so with `PickUp`. Beyond `IInv` the argument needs
`AnswerOK`: a message that reads sent or delivered has been answered for by the radio, and the one whose
acknowledgement is awaited reads as sent.

`WebhookProofs` proves, for any subscriptions, deliveries, keys and limits, `TypeCorrect`, `OneRequest`
(`LeasesExclusive`), `NoBacklog` (`DisabledHasNoBacklog`), `ShortOfBurst` (`StreakBelowBurst`) and
`AttemptsCorrect` (`AttemptsBoundedByCrashes`). Its invariant has a part for subscriptions (`SubsOK`), for what a
delivery read (`FlagsOK`) and for the rows (`RowsOK`). The bound on attempts is not inductive: a claim
raises the count, so one needs to know that a row that may be claimed is below it. That is `MayTry`: a queued row has been tried fewer
times than the limit plus the restarts, and so has a leased one that nobody is delivering, since it
was the restart that left it behind. That an active subscription is short of its burst needs to know that one not created yet has no streak.

`InboundProofs` proves, for any radios, contacts, prefixes, frames and numbers of rows, `TypeCorrect`, `OneRowCorrect`
(`OneRowPerRadio`), `IdentityCorrect` (`IdentityHolds`), `StoredOnceCorrect` (`StoredOnce`) and `AttributionCorrect` (`AttributionKept`). The
assumptions are `InboundAssumption`. `StoredOnce` is not inductive: that a frame is not stored again needs to know that a stored message still has
the identity a new copy would be given (`MessagesOK`), which is why the identity may depend on the prefix in the frame and not on the
contact it stands for. `IdentityHolds` needs `ResolveOK`: naming a radio takes no row from another. That no drain goes on without a
connection needs a wire that is empty when there is none (`DrainOK`), and that the sync goes on only from where it asked needs `ScanOK`.

`CapacityCorrect` (`CapacityKept`) and `QueueBoundCorrect` (`QueueBounded`) count rows. The argument is that every step but an
event of the store and a turn of the worker adds no waiting row and no lease (`NoneAdded`), that an event looks at the length before it adds one, and that a turn
takes as many as there is room for. Both are proved beside `IInv`, for finite sets of subscriptions and rows, with the library's facts on cardinality.

`BackgroundProofs` proves, for any contacts, rules, values and retention, `TypeCorrect`, `AlternationCorrect` (`AlertsAlternate`) and
`LastSampleCorrect` (`RuleTellsLastSample`), from `MonitorAssumption`. That alerts alternate is a fact about one rule held against one value (`HeldOK`),
also when the oldest event is forgotten (`FiredOK`), and every recorded sample is two of those (`EvaluateOK`). A rule that is added needs
`Unheard`: nothing was heard for it before. Of `BrowserAccess` it proves, for any endpoints, tabs, logins and limits, `AccessTypeCorrect` and
`LogoutCorrect` (`LoggedOutGone`), which are inductive
together: the deletion in `logout` is by session, and a subscription is only ever bound to a session that is valid. The bound on the clients of the feed, which is part of the
types, takes the library's facts on cardinality too.

`HubProofs` proves `TypeCorrect` and `TableCorrect` (`RunningMatchesTable`) for any profiles, links, transports and any number of calls at once, and
`OrphanCorrect` (`NoOrphan`), `QuietCorrect` (`QuietAfterStop`) and `ExclusiveCorrect` (`BleProfilesExclusive`) for one call at a time (`OneCall`). The condition
is the run's too and is needed: removals of one key that overlap leave a link behind that the hub does not know (section 5). `HubInv` says
where a link may be that is not in the map - in the hands of the one call that waits for its close - and what that call has left to do.

`RowsProofs` proves `StepsCorrect` (`StepsFit`), `HistoryCorrect` (`HistoryKept`) and `ConnectionCorrect` (`OneConnection`) for any processes, releases and
messages. `Added(v)` is what migrations 1 to v have made, and `Needs` and `Fresh` say of each migration that what it needs is made by earlier ones and what it adds by none;
they are evaluated migration by migration. The rest of the first theorem is about processes: a transaction that can still commit stands at the version of the database. The other two
follow from what each migration does to a message (`MessageOK`) and to the connection's settings (`ConnectionOK`).
Of `WebStore` it proves `RowsCorrect`, the action property `RowsKept`, for any messages, page length, requests and events: `WebInv` says that a list under a sender's
prefix has only messages that were received, which only ever read sent, that an answer under way repeats what the server had, and that a page whose list
was replaced writes to nothing that is shown - the exception that the property makes.

`TabProofs` proves of `BrowserRadio`, for any frames, sends, lengths of the queue, sessions and failures, `TypeCorrect`, `PrivacyCorrect` (`PrivateStaysPrivate`) and `RowOnceCorrect` (`RowOnce`).
`PrivateInv` follows a record: it is still on the radio, or in private hands only, or gone. `Public` is what a server may come to have - its rows, the stored queue, the tasks, the batch of
a session that is not private - and a record of a private session is not in it; a send not made yet is nowhere. `RowOnce` speaks of lists built by
recursive functions; a duplicate would have a first place, which is how induction over them is avoided.
Of `TimelineView` it proves `SettledCorrect` (`Settled`), for any happenings, radios, kinds, windows, moves and failures. Its invariant is about `Old`, the events that were
stored before the tab came and are not on their way to it or lost, a set that never grows: a request under way asks for the window in view, unless a timer or a skipped
load says that another will (`FlightOK`), and a page that was not cut has all of `Old` that it was asked for (`PageOK`), which `PageWhole` derives from `GetTimeline`.

Model-checked only: liveness (`QueuedMessagesSettle`, `LossIsRetried`, `CommandsEnd`, `EveryDeliverySettles`, `QueueDrained`, `MonitorsServed`, `GoneAreRemoved`,
`SendsSettle`, `LoadingEnds`), because it is out of reach of the prover; `ScanResolves`; and what is
asked of the functions, which are checked over small inputs, and which are recursive or speak of all sequences.

## 5. Where the code and what it says of itself disagree

The runs marked *violated* show two, and `PROJECT.json` quotes the lines:

1. an early acknowledgement and a teardown leave a message pending for ever with no entry (`outbound_strand`);
2. when a removed contact with unread messages writes again, its entry in the sidebar is replaced and its badge can no longer be opened (`badge_rows`).

The following were met while modelling and are kept as observations, without a run of their own.

*Links and hub*

- a claim during the close that a release awaits finds the state still connected and does not connect; release then sets standby, and nothing reconnects the link (`link.ts` 256; 252 says "Re-claim the radio after a release.");
- the BLE check asks every link for the transport its settings name now; the default link's settings become those of an activated profile without a restart (`manager.ts` 144-156), so one that holds BLE reports serial and a second BLE link is let through (`manager.ts` 591; 583 says at most one may run);
- `removeLink` deletes the map entry of its key when the close has resolved, whichever link is in it: a profile edited while it is being deactivated ends with a link that runs and is forgotten (`manager.ts` 541);
- a release during the close of an earlier loss reports standby while the old connection is open (`link.ts` 249);
- the late continuation of an old loss can take a live link out of `connected` (`link.ts` 446);
- a claim on a link with transport none leaves it `connecting` with no connection and no error (`link.ts` 419);
- while `start()` has not reached it, an active profile can be deleted (`manager.ts` 233);
- the forced path of a shutdown closes SQLite while `manager.stop()` may still run (`shutdown.ts` 60);
- `scanBleRadios` (`detect.ts` 82) does without `attachBusErrorGuard`, which `ble-bus.ts` 5-14 asks for, and `close()` detaches the guard before its awaits (`ble-connection.ts` 116).

*Commands*

- two overlapping contact scans share their listeners, the second may end with a part of the list, and the stored list drops a contact the radio has (`link.ts` 575-579 says that it mirrors the radio exactly);
- settings and removals are not in the queue of uncorrelated commands, and share Ok and Err with channel commands (`link.ts` 165);
- overlapping PATCHes of the device start from the same stored values, and one update is lost; one that fails half way leaves the database behind the radio (`link.ts` 855-890);
- a command that timed out may still be performed; `requireRadio()` after the await may name another radio;
- `awaitCurrent` throws before it has attached handlers to a promise it was given, whose rejection is then unhandled (`link.ts` 1126).

*Outbound*

- a send rejected because its connection is being closed burns an attempt, since the state still reads connected (`link.ts` 736; `docs/operations.md` 190 says an offline radio burns none);
- a send whose response is lost with its connection, if the library leaves the promise pending, stops the link's worker for good (`link.ts` 756);
- a message cancelled while it waits in the chain of direct sends is transmitted and then reads as sent (`link.ts` 754; `MessageLifecycle!HandOver` allows it);
- there is one slot for an early acknowledgement: a late one of an earlier message overwrites it, and the message reads as sent for good (`link.ts` 1046);
- a due entry and a link that is closing re-arm the timer with 0 ms until the close resolves (`link.ts` 808).

*Inbound*

- the listeners are attached before `getSelfInfo` has answered, so a message pushed while a link is still connecting is stored under the radio that was there before (`link.ts` 372, 455; 531 says "before persisting anything else");
- `syncContacts` stores one by one, so the first of two contacts with the same prefix is given the messages that name it (`store.ts` 590), while `http.test.ts` 597 keeps a prefix unresolved that both contacts had before the message;
- a message pulled before the link has ever identified a radio is lost, since `handleIncoming` throws after it was taken off the radio (`link.ts` 662), and a read that fails leaves the rest until the next push or connection (`link.ts` 648);
- a path update before the identification applies the contacts of one radio to the row of another (`link.ts` 493);
- when one of two contacts with a prefix is removed, messages of that prefix wait for the next scan (`store.ts` 666);
- a radio can be forgotten while `start()` has not created the link that remembers it, which then files under an id without a row until it is identified (`manager.ts` 109).

*Webhooks*

- a row queued in the very second of a key rotation is begun without a key 24 hours later, because the sweep and the key's retirement fall on different sides of that second (`store.ts` 2651; 2269 says a retired key strands nothing);
- a crash in the middle of the last attempt leads to an eleventh (`store.ts` 2528), hence `AttemptsBoundedByCrashes` and not a plain bound;
- resuming a subscription does not count the active ones (`api/routes.ts` 1147), and the rate of a subscription counts rows that were refused (`store.ts` 2384);
- where a partial schema fills in defaults, as zod's current version does, a PATCH that does not mention `includeSensitive` withdraws it (`api/routes.ts` 105-108, against 1141);
- an event whose envelope does not parse - coordinates out of range, for one - makes `enqueue` throw before the remaining subscriptions are served (`worker.ts` 302-310).

*Telemetry*

- a monitored contact that never answers is polled before all others for ever ("round-robin", `store.ts` 1537): hence the condition of `MonitorsServed`;
- a contact whose samples were trimmed counts as never polled again.

*Browsers*

- a socket is authorised when it is opened and outlives the logout of its session (`ws.ts` 21-45); an expired session that another login purges leaves its subscription (`auth.ts` 93, 111); a late 410 removes a row that has been subscribed anew (`push/worker.ts` 131-142);
- a put and a take of the stored queue are two transactions each, and overlapping ones lose entries (`browser-radio.ts` 648-671); a failed POST that ends late refills a queue that was cleared at the end of a session (`app.ts` 697-706; `pwa-feasibility.md` 82);
- an acknowledgement while the send is being recorded leaves the record as sent on the server (`browser-radio.ts` 483, 528);
- an event about a row that is in no list yet is lost when it comes while the history loads (`app.ts` 453); a page that comes after its list was replaced brings the old list back (`app.ts` 512-523); a socket that is reopened does not load again what it missed (`client.ts` 41-44; `ws.ts` 82 says the app does);
- clearing the search does not discard the answer under way (`ChatView.vue` 236-251); messages that arrive in the open conversation are not marked as read on the server (`app.ts` 399); an export from the chat does not name the radio in view (`ChatView.vue` 335-341);
- live events keep their synthetic rows beside the stored ones after a later page (`timeline.ts` 48-49, `TimelineView.vue` 216); deselecting and reselecting the only radio leaves its lane empty (`TimelineView.vue` 193-198, 270-276); a forgotten radio stays selected and every load fails (463-480);
- a share link whose secret is base64 with a "+" is refused, since the "+" is read as a blank (`channels.ts` 85); a link of a "#" channel saves the digest of its name whatever its secret says, and so does editing one (`ChatView.vue` 479).

*Schema*

- a process whose snapshot was overtaken fails to open the database instead of waiting (`db/index.ts` 543; `operations.md` 167), and a release older than the schema starts on it without a word;
- migration 12 makes no link when the selected profile is gone, and migration 11 gives all rows to the first radio when there is no row of the radio's own.

## 6. Not modelled

`PROJECT.json` lists every component with its reason. In short: drivers, cryptography, parsing, forms, drawing and configuration keep no state over
time that the models could add to; the delays between reconnects are abstracted to "a timer that
fires". `InboundMessages` has one link, counts channel messages as frames without contacts, leaves
out the timeline and last-seen times, takes `removeContact` as one step although it awaits the radio, and has at most one pending refresh of contacts besides the sync's. The hub leaves release and claim of a link to `RadioLink`,
and `RadioLink` leaves the hub's decisions to its environment. `BrowserRadio` leaves out channel sends, contacts and settings, the 24 hours and the bytes of the stored queue; `WebStore`
has one sender and no profiles; `BrowserAccess` has no API tokens and no throttling of logins; `TimelineView` has no overview and no popovers.

## 7. Plan

Done: the modules of section 2 with the proofs of section 4.

Next, in this order:

1. the queue rows that follow a placeholder to its radio, and two links that meet the same radio: `InboundMessages` and `OutboundQueue` together;
2. the order of a shutdown, and the tile cache with its one request at a time;
3. the composition of `RadioLink` and `RadioCommands`, which now share a run and no state: commands whose connection is closed by a release;
4. the views that are left: the device's settings and the map.

Theorems: those of the composed modules above. Every safety invariant that a run checks of the modules there are is proved.
