---------------------------- MODULE BrowserRadio ----------------------------
(***************************************************************************)
(* A radio driven by a browser tab (browser-radio.ts): sessions, the drain *)
(* of the radio's inbox, direct sends with their acknowledgements, and the *)
(* sync-back of both to the server, through a queue in IndexedDB when the  *)
(* server does not answer.                                                 *)
(*                                                                         *)
(* Everything the tab waits for outside the radio is a task: a POST, a     *)
(* put, which reads the stored queue and writes it back in a transaction   *)
(* of its own, and the take of a flush, which does the same.  A task       *)
(* outlives the session it belongs to and knows whether that one is still  *)
(* the current one.  A record is named by its ingestion id.                *)
(***************************************************************************)
EXTENDS Naturals, Sequences, SequencesExt

CONSTANTS Incoming, Outgoing,  \* records: frames of the radio, sends of the user
          MaxQueue,            \* INGEST_QUEUE_MAX_RECORDS
          MaxSessions,         \* bound: sessions that are started
          MaxFailures          \* bound: POSTs that fail

ASSUME BrowserAssumption ==
  /\ IsFiniteSet(Incoming) /\ Incoming \cap Outgoing = {}
  /\ MaxQueue \in Nat \ {0} /\ MaxSessions \in Nat /\ MaxFailures \in Nat

Items == Incoming \cup Outgoing

VARIABLES
  session,   \* number of the session that was started last
  link,      \* "off"; "syncing", "draining" and "on"; "lost" after a disconnect
  private,   \* privateSession
  inbox,     \* frames waiting on the radio
  drain,     \* "idle", "reading" or "posting"
  again,     \* drainAgain
  batch,     \* what the drain has read
  send,      \* what has become of each send
  ack,       \* of the send in hand: "none", "early", or "taken" (pendingAck is null)
  localId,   \* of the send in hand: the id of the row it was recorded as
  tasks,     \* POSTs, puts and takes under way
  queue,     \* the object store ingest-queue
  rows,      \* the server: the status of each record, or none
  feed,      \* WebSocket events on their way to the tab
  listing,   \* the rows the tab shows
  secret,    \* history: records that belong to a private session
  failures   \* history: POSTs that have failed

vars == <<session, link, private, inbox, drain, again, batch, send, ack, localId,
          tasks, queue, rows, feed, listing, secret, failures>>
radio    == <<session, link, private, inbox>>
draining == <<drain, again, batch>>
sending  == <<send, ack, localId>>
history  == <<secret, failures>>

Rec(i, s)    == [item |-> i, status |-> s]
Jobs         == {"drain", "send", "ack", "flush"}
\* A POST is served once the server has stored it, with the rows of its answer
\* in seen; a put or a take once it has seen the queue.  rest is left to a flush.
Task(kind, job, what) ==
  [kind |-> kind, job |-> job, session |-> session, what |-> what,
   rest |-> <<>>, served |-> FALSE, seen |-> <<>>]
Follow(t, kind, what, rest) ==
  [t EXCEPT !.kind = kind, !.what = what, !.rest = rest, !.served = FALSE, !.seen = <<>>]
Active  == {"syncing", "draining", "on"}
Waiting == {"onair", "recording", "awaiting", "confirming"}

TypeOK ==
  /\ session \in 0..MaxSessions /\ link \in {"off", "lost"} \cup Active
  /\ private \in BOOLEAN
  /\ drain \in {"idle", "reading", "posting"} /\ again \in BOOLEAN
  /\ send \in [Outgoing -> {"new", "done", "failed"} \cup Waiting]
  /\ ack \in {"none", "early", "taken"}
  /\ localId \in {"none", "local", "server"}
  /\ rows \in [Items -> {"none", "sent", "delivered"}]
  /\ Len(queue) <= MaxQueue
  /\ \A t \in tasks : t.kind \in {"post", "put", "take"} /\ t.job \in Jobs /\ t.session \in 1..session
  /\ link \in {"off", "lost"} => drain = "idle" /\ \A o \in Outgoing : send[o] \notin Waiting
  /\ \A o, p \in Outgoing : send[o] \in Waiting /\ send[p] \in Waiting => o = p

\* An earlier visit may have left records in the queue.
Init ==
  /\ session = 0 /\ link = "off" /\ private = FALSE
  /\ \E left \in SUBSET Incoming :
       /\ inbox = SetToSeq(Incoming \ left)
       /\ queue = IF left = {} THEN <<>> ELSE <<SetToSeq({Rec(i, "sent") : i \in left})>>
  /\ drain = "idle" /\ again = FALSE /\ batch = <<>>
  /\ send = [o \in Outgoing |-> "new"] /\ ack = "none" /\ localId = "none"
  /\ tasks = {} /\ rows = [i \in Items |-> "none"] /\ feed = <<>> /\ listing = {}
  /\ secret = {} /\ failures = 0

---------------------------------------------------------------------------
(* What the tab shows: appendMessage and updateMessageStatus of the store. *)

FinalStatus(old, new) == IF old = "delivered" THEN old ELSE new

\* Faulty variant: rows are recognised by their id alone.
PriorById(v, r) == {x \in v : x.item = r.item /\ x.id = r.id}

\* The row a message is merged with has its ingestion id, whatever its own id.
Prior(v, r) == {x \in v : x.item = r.item}

Shown(v, r) ==
  IF Prior(v, r) = {} THEN v \cup {r}
  ELSE LET x == CHOOSE x \in Prior(v, r) : TRUE
       IN  (v \ {x}) \cup {[r EXCEPT !.status = FinalStatus(x.status, @)]}

ShownAll(v, rs) ==
  LET shown[k \in 0..Len(rs)] == IF k = 0 THEN v ELSE Shown(shown[k - 1], rs[k])
  IN  shown[Len(rs)]

Updated(v, i, id, s) ==
  {IF x.item = i /\ x.id = id THEN [x EXCEPT !.status = FinalStatus(@, s)] ELSE x : x \in v}

LocalRow(r)  == [item |-> r.item, id |-> "local", status |-> r.status]
LocalRows(w) == [k \in DOMAIN w |-> LocalRow(w[k])]
ServerRow(i, s) == [item |-> i, id |-> "server", status |-> s]

---------------------------------------------------------------------------
(* The server: ingestMessages.                                             *)

Known(i) == rows[i] # "none"

\* A record is inserted once; posted again it can only become delivered.
Kept(r) == ~Known(r.item) \/ (rows[r.item] = "sent" /\ r.status = "delivered")

WithKept(l, r) == IF Kept(r) THEN Append(l, r) ELSE l

\* The records of a POST that are kept, in their order.
KeptOf(w) ==
  LET kept[k \in 0..Len(w)] == IF k = 0 THEN <<>> ELSE WithKept(kept[k - 1], w[k])
  IN  kept[Len(w)]

Stored(w) == [i \in Items |-> IF \E k \in DOMAIN w : w[k].item = i
                              THEN w[CHOOSE k \in DOMAIN w : w[k].item = i].status ELSE rows[i]]

\* What a POST of w makes of the server.  A record occurs once in a POST.
Ingest(w) ==
  LET kept == KeptOf(w) IN
  /\ rows' = Stored(kept)
  /\ feed' = feed \o [k \in DOMAIN kept |->
                [type |-> IF Known(kept[k].item) THEN "status" ELSE "new",
                 row |-> ServerRow(kept[k].item, kept[k].status)]]

\* The server answers a POST with the rows it inserted or changed.
ServerStores(t) ==
  /\ t \in tasks /\ t.kind = "post" /\ ~t.served
  /\ Ingest(t.what)
  /\ tasks' = (tasks \ {t}) \cup {[t EXCEPT !.served = TRUE,
                 !.seen = LET kept == KeptOf(t.what)
                          IN  [k \in DOMAIN kept |-> ServerRow(kept[k].item, kept[k].status)]]}
  /\ UNCHANGED <<radio, draining, sending, queue, listing, history>>

FeedDelivers ==
  /\ feed # <<>> /\ feed' = Tail(feed)
  /\ LET e == Head(feed) IN
     listing' = IF e.type = "new" THEN Shown(listing, e.row) ELSE Updated(listing, e.row.item, "server", e.row.status)
  /\ UNCHANGED <<radio, draining, sending, tasks, queue, rows, history>>

---------------------------------------------------------------------------
(* The chain of direct sends.                                              *)

\* The send in hand is over.
Settles(o, how) == send' = [send EXCEPT ![o] = how] /\ ack' = "none" /\ localId' = "none"

Tells(o) == Task("post", "ack", <<Rec(o, "delivered")>>)

\* Faulty variant: also a private session tells the server.
ConfirmToAll(o) ==
  /\ listing' = Updated(listing, o, localId, "delivered")
  /\ send' = [send EXCEPT ![o] = "confirming"] /\ tasks' = tasks \cup {Tells(o)} /\ UNCHANGED <<ack, localId>>

\* finishPendingAck(pending, true) with the message recorded: the row it was
\* recorded as is marked, and the server is told before the chain moves on.
Confirmed(o) ==
  /\ listing' = Updated(listing, o, localId, "delivered")
  /\ IF private THEN Settles(o, "done") /\ tasks' = tasks
     ELSE send' = [send EXCEPT ![o] = "confirming"] /\ tasks' = tasks \cup {Tells(o)} /\ UNCHANGED <<ack, localId>>

\* A send waits in directSendQueue until the one before it has settled: here it
\* is made then.
UserSends(o) ==
  /\ link = "on" /\ send[o] = "new"
  /\ \A p \in Outgoing : send[p] \notin Waiting
  /\ send' = [send EXCEPT ![o] = "onair"]
  /\ secret' = IF private THEN secret \cup {o} ELSE secret
  /\ UNCHANGED <<failures, radio, draining, ack, localId, tasks, queue, rows, feed, listing>>

\* A private send ends here or waits for its acknowledgement; others are posted.
Accepted(o) ==
  /\ send[o] = "onair"
  /\ IF private THEN /\ listing' = Shown(listing, LocalRow(Rec(o, IF ack = "early" THEN "delivered" ELSE "sent")))
                     /\ tasks' = tasks
                     /\ IF ack = "early" THEN Settles(o, "done")
                        ELSE send' = [send EXCEPT ![o] = "awaiting"] /\ ack' = ack /\ localId' = "local"
     ELSE /\ send' = [send EXCEPT ![o] = "recording"] /\ UNCHANGED <<ack, localId, listing>>
          /\ tasks' = tasks \cup {Task("post", "send", <<Rec(o, "sent")>>)}
  /\ UNCHANGED <<radio, draining, queue, rows, feed, history>>

Refused(o) ==
  /\ send[o] = "onair" /\ Settles(o, "failed")
  /\ UNCHANGED <<radio, draining, tasks, queue, rows, feed, listing, history>>

\* handleSendConfirmed: before the response, while the message is recorded (then
\* pendingAck is given up with nothing to mark), or while it is awaited.
SendConfirmed(o) ==
  /\ \/ /\ send[o] = "onair" /\ ack' = "early"
        /\ UNCHANGED <<send, localId, tasks, listing>>
     \/ /\ send[o] = "recording" /\ ack = "none" /\ ack' = "taken"
        /\ UNCHANGED <<send, localId, tasks, listing>>
     \/ send[o] = "awaiting" /\ Confirmed(o)
  /\ UNCHANGED <<radio, draining, queue, rows, feed, history>>

AckTimeout(o) ==
  /\ send[o] = "awaiting" /\ Settles(o, "done")
  /\ UNCHANGED <<radio, draining, tasks, queue, rows, feed, listing, history>>

---------------------------------------------------------------------------
(* The drain of the radio's inbox.                                         *)

DrainMessages ==
  /\ IF drain = "idle" THEN drain' = "reading" /\ again' = again
     ELSE drain' = drain /\ again' = TRUE

MsgWaiting ==
  /\ link \in Active /\ DrainMessages
  /\ UNCHANGED <<radio, batch, sending, tasks, queue, rows, feed, listing, history>>

\* The initial sync awaits its drain, unless a push has begun one already.
SyncDrains ==
  /\ link = "syncing" /\ DrainMessages
  /\ link' = IF drain = "idle" THEN "draining" ELSE "on"
  /\ UNCHANGED <<session, private, inbox, batch, sending, tasks, queue, rows, feed, listing, history>>

DrainEnds ==
  /\ drain' = IF again THEN "reading" ELSE "idle"
  /\ again' = FALSE /\ batch' = <<>>
  /\ link' = IF link = "draining" THEN "on" ELSE link

\* The radio forgets a frame it has handed out.
ReadOne ==
  /\ drain = "reading" /\ inbox # <<>>
  /\ batch' = Append(batch, Rec(Head(inbox), "sent")) /\ inbox' = Tail(inbox)
  /\ secret' = IF private THEN secret \cup {Head(inbox)} ELSE secret
  /\ UNCHANGED <<failures, session, link, private, drain, again, sending, tasks, queue, rows, feed, listing>>

ReadEmpty ==
  /\ drain = "reading" /\ inbox = <<>>
  /\ IF batch = <<>> \/ private
     THEN DrainEnds /\ listing' = ShownAll(listing, LocalRows(batch)) /\ tasks' = tasks
     ELSE /\ drain' = "posting" /\ listing' = listing
          /\ tasks' = tasks \cup {Task("post", "drain", batch)}
          /\ UNCHANGED <<link, again, batch>>
  /\ UNCHANGED <<session, private, inbox, sending, queue, rows, feed, history>>

---------------------------------------------------------------------------
(* The tasks.                                                              *)

Current(t) == t.session = session /\ link \in Active
ItemOf(t)  == t.what[1].item

\* Faulty variant: an acknowledgement that found nothing to mark does not end the send.
RecordedUnfinished(o, id, ts, v) ==
  IF ack = "early"
  THEN /\ listing' = Updated(v, o, id, "delivered") /\ send' = [send EXCEPT ![o] = "confirming"]
       /\ ack' = ack /\ localId' = id /\ tasks' = ts \cup {Tells(o)}
  ELSE /\ listing' = v /\ tasks' = ts
       /\ IF ack = "taken" THEN UNCHANGED sending
          ELSE send' = [send EXCEPT ![o] = "awaiting"] /\ ack' = ack /\ localId' = id

\* The send o is recorded as the row id.  An acknowledgement that came before the
\* response is told to the server now; one that came while the send was recorded
\* has ended it.
Recorded(o, id, ts, v) ==
  IF ack = "early"
  THEN /\ listing' = Updated(v, o, id, "delivered") /\ send' = [send EXCEPT ![o] = "confirming"]
       /\ ack' = ack /\ localId' = id /\ tasks' = ts \cup {Tells(o)}
  ELSE /\ listing' = v /\ tasks' = ts
       /\ IF ack = "taken" THEN Settles(o, "done")
          ELSE send' = [send EXCEPT ![o] = "awaiting"] /\ ack' = ack /\ localId' = id

\* The session goes on where it waited for t; ts are the tasks without it.
\* v is what the tab shows by then.
Resume(t, ts, v) ==
  CASE t.job = "drain" /\ Current(t) ->
         DrainEnds /\ tasks' = ts /\ listing' = v /\ UNCHANGED <<session, private, inbox, sending>>
    [] t.job = "send" /\ Current(t) /\ send[ItemOf(t)] = "recording" ->
         Recorded(ItemOf(t), IF t.kind = "post" /\ t.seen # <<>> THEN "server" ELSE "local", ts, v) /\ UNCHANGED <<radio, draining>>
    [] t.job = "ack" /\ Current(t) /\ send[ItemOf(t)] = "confirming" ->
         /\ Settles(ItemOf(t), "done") /\ tasks' = ts /\ UNCHANGED <<radio, draining>>
         /\ listing' = IF ack = "early" THEN Shown(v, [item |-> ItemOf(t), id |-> localId, status |-> "delivered"]) ELSE v
    [] OTHER -> tasks' = ts /\ listing' = v /\ UNCHANGED <<radio, draining, sending>>

Posting(t, rest) == Follow(t, "post", Head(rest), Tail(rest))

\* The response: its rows are shown, and the task's caller goes on.
PostSucceeds(t) ==
  /\ t \in tasks /\ t.kind = "post" /\ t.served
  /\ LET v  == ShownAll(listing, t.seen)
         lv == IF t.job = "send" /\ t.seen = <<>> THEN Shown(v, LocalRow(t.what[1])) ELSE v
     IN  IF t.job = "flush" /\ t.rest # <<>>
         THEN tasks' = (tasks \ {t}) \cup {Posting(t, t.rest)} /\ listing' = v /\ UNCHANGED <<radio, draining, sending>>
         ELSE Resume(t, tasks \ {t}, lv)
  /\ UNCHANGED <<queue, rows, feed, history>>

\* The server is out of reach, or its answer is lost.  Incoming records are
\* shown at once; what was posted is put into the queue, of a flush all the rest.
PostFails(t) ==
  /\ t \in tasks /\ t.kind = "post"
  /\ failures < MaxFailures /\ failures' = failures + 1
  /\ tasks' = (tasks \ {t}) \cup {Follow(t, "put", t.what, t.rest)}
  /\ listing' = IF t.job = "drain" THEN ShownAll(listing, LocalRows(t.what)) ELSE listing
  /\ UNCHANGED <<radio, draining, sending, queue, rows, feed, secret>>

\* The first transaction of a put or of a take.
QueueReads(t) ==
  /\ t \in tasks /\ t.kind \in {"put", "take"} /\ ~t.served
  /\ tasks' = (tasks \ {t}) \cup {[t EXCEPT !.served = TRUE, !.seen = queue]}
  /\ UNCHANGED <<radio, draining, sending, queue, rows, feed, listing, history>>

\* The oldest entries are evicted beyond the limit.
PruneQueue(q) == IF Len(q) > MaxQueue THEN Tail(q) ELSE q

\* The second transaction of a put: the queue as it was read, and the entry.
PutWrites(t) ==
  /\ t \in tasks /\ t.kind = "put" /\ t.served
  /\ queue' = PruneQueue(Append(t.seen, t.what))
  /\ IF t.job = "flush" /\ t.rest # <<>>
     THEN tasks' = (tasks \ {t}) \cup {Follow(t, "put", Head(t.rest), Tail(t.rest))} /\ UNCHANGED <<listing, radio, draining, sending>>
     ELSE Resume(t, tasks \ {t}, IF t.job = "send" THEN Shown(listing, LocalRow(t.what[1])) ELSE listing)
  /\ UNCHANGED <<rows, feed, history>>

\* The second transaction of a take: the store is emptied.
TakeWrites(t) ==
  /\ t \in tasks /\ t.kind = "take" /\ t.served /\ queue' = <<>>
  /\ tasks' = IF t.seen = <<>> THEN tasks \ {t}
              ELSE (tasks \ {t}) \cup {Posting(t, t.seen)}
  /\ UNCHANGED <<radio, draining, sending, rows, feed, listing, history>>

\* The flush timer of a session that is not private.
FlushQueue ==
  /\ link = "on" /\ ~private
  /\ ~\E t \in tasks : t.job = "flush"
  /\ tasks' = tasks \cup {Task("take", "flush", <<>>)}
  /\ UNCHANGED <<radio, draining, sending, queue, rows, feed, listing, history>>

---------------------------------------------------------------------------
(* Sessions.                                                               *)

\* stop(): timers are cleared and the connection closed; what waits for the
\* radio fails, what waits for the server goes on.
Stopped ==
  /\ drain' = "idle" /\ again' = FALSE /\ batch' = <<>> /\ ack' = "none" /\ localId' = "none"
  /\ send' = [o \in Outgoing |-> IF send[o] \in Waiting THEN "failed" ELSE send[o]]

\* A previous session is stopped first, and the queue cleared with it.  A new
\* tab has none.
StartBrowserRadio(p) ==
  /\ session < MaxSessions
  /\ session' = session + 1 /\ link' = "syncing" /\ private' = p
  /\ queue' = IF link = "off" THEN queue ELSE <<>>
  /\ Stopped
  /\ UNCHANGED <<inbox, tasks, rows, feed, listing, history>>

StopBrowserRadio ==
  /\ link # "off" /\ link' = "off" /\ queue' = <<>> /\ Stopped
  /\ UNCHANGED <<session, private, inbox, tasks, rows, feed, listing, history>>

\* The connection is lost, or start() fails, which also forgets the source.
Disconnected ==
  /\ link \in Active /\ link' = IF link = "on" THEN "lost" ELSE "off"
  /\ Stopped
  /\ UNCHANGED <<session, private, inbox, tasks, queue, rows, feed, listing, history>>

\* The tab is closed or loaded again: IndexedDB stays.
Reload ==
  /\ link # "off" /\ link' = "off" /\ Stopped
  /\ tasks' = {} /\ feed' = <<>> /\ listing' = {}
  /\ UNCHANGED <<session, private, inbox, queue, rows, history>>

---------------------------------------------------------------------------
TaskEnds(t) == ServerStores(t) \/ PostSucceeds(t) \/ PostFails(t) \/ QueueReads(t) \/ PutWrites(t) \/ TakeWrites(t)

Next ==
  \/ MsgWaiting \/ SyncDrains \/ ReadOne \/ ReadEmpty \/ FeedDelivers \/ FlushQueue
  \/ \E o \in Outgoing : UserSends(o) \/ Accepted(o) \/ Refused(o) \/ SendConfirmed(o) \/ AckTimeout(o)
  \/ \E t \in tasks : TaskEnds(t)
  \/ \E p \in BOOLEAN : StartBrowserRadio(p)
  \/ StopBrowserRadio \/ Disconnected \/ Reload

Spec == Init /\ [][Next]_vars

\* The library answers or rejects each request, the requests and transactions
\* of each part of the tab end, and timers fire.  Nothing says that the radio
\* confirms a send, that the feed delivers, or that a request succeeds.
FairSpec ==
  /\ Spec /\ WF_vars(SyncDrains) /\ WF_vars(ReadOne \/ ReadEmpty)
  /\ \A o \in Outgoing : WF_vars(Accepted(o) \/ Refused(o)) /\ WF_vars(AckTimeout(o))
  /\ \A j \in Jobs : WF_vars(\E t \in tasks : t.job = j /\ TaskEnds(t))

---------------------------------------------------------------------------
(* What is promised.                                                       *)

\* A private session skips sync-back entirely (browser-radio.ts): none of its
\* records ever reaches the server or the stored queue, whatever sessions come
\* before and after it and whatever of them is still under way.
PrivateStaysPrivate ==
  \A i \in secret :
    /\ rows[i] = "none"
    /\ \A k \in DOMAIN queue : \A n \in DOMAIN queue[k] : queue[k][n].item # i

\* A record has one row in the tab, though it may come as a local row, as an
\* answer, over the feed and out of the queue, in any order (ingestIncoming).
RowOnce == \A x, y \in listing : x.item = y.item => x = y

\* Every send comes to an end, so that the chain of direct sends moves on,
\* whatever the radio and the server do and whenever the acknowledgement comes.
SendsSettle == \A o \in Outgoing : send[o] \in Waiting ~> send[o] \in {"done", "failed"}
=============================================================================
