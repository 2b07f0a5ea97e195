------------------------------ MODULE WebStore ------------------------------
(***************************************************************************)
(* The message lists of a tab (stores/app.ts): histories and pages, the    *)
(* event feed, sends, retries and cancels, the sender that becomes a       *)
(* contact, and the radio in view, with requests that are answered in any  *)
(* order and after anything else.                                          *)
(*                                                                         *)
(* All messages belong to the radio Here and to one sender, whose messages *)
(* are listed under its prefix until the sender is a contact.  A list is a *)
(* function from messages to what their rows read.  The tab has just been  *)
(* loaded, and its radio is driven by the server.                          *)
(***************************************************************************)
EXTENDS Naturals, Sequences, FiniteSetsExt

CONSTANTS Messages,      \* ids, in the order they are given
          Sends,         \* those the user sends; the others are received
          Here, There,   \* radios
          None,
          PageSize,      \* limit of a history and of a page
          MaxCalls,      \* bound: requests under way
          MaxSwitches,   \* bound: changes of the radio in view or in use
          MaxFeed        \* bound: events on their way

ASSUME WebAssumption ==
  /\ Messages \subseteq Nat \ {0} /\ IsFiniteSet(Messages) /\ Sends \subseteq Messages
  /\ Here # There /\ None \notin {Here, There}
  /\ PageSize \in Nat \ {0} /\ MaxCalls \in Nat /\ MaxSwitches \in Nat /\ MaxFeed \in Nat

Radios   == {Here, There}
Statuses == {"pending", "sent", "delivered", "failed"}
Keys     == {"sender", "contact"}          \* the two conversations
Lists    == [Messages -> Statuses \cup {"absent"}]
Empty    == [m \in Messages |-> "absent"]

VARIABLES
  stored,     \* server: the status of each message, or "absent"
  owner,      \* server: the conversation of each message
  known,      \* server: the sender is a contact
  running,    \* server: the active radio
  feed,       \* events on their way
  calls,      \* requests under way
  active,     \* status.activeRadioId
  viewing,    \* viewingRadioId
  shown,      \* conversations
  contact,    \* contacts has the sender
  unknown,    \* unknownSenders has the sender
  switches

webVars == <<stored, owner, known, running, feed, calls, active, viewing, shown, contact, unknown, switches>>
server  == <<stored, owner, known, running>>
tab     == <<active, viewing, shown, contact, unknown>>

\* A page works on the list it began with: held is that list once it has been
\* replaced.  rows is what the server answers.
Calls == [kind : {"history", "page", "send", "retry", "cancel", "contacts", "unknowns"},
          radio : Radios, conv : Keys, msg : Messages \cup {0}, before : Messages \cup {0},
          served : BOOLEAN, rows : Lists, flag : BOOLEAN, attached : BOOLEAN, held : Lists]

TypeOK ==
  /\ stored \in Lists /\ owner \in [Messages -> Keys] /\ known \in BOOLEAN /\ running \in Radios
  /\ calls \subseteq Calls
  /\ active \in Radios /\ viewing \in Radios \cup {None}
  /\ shown \in [Keys -> Lists] /\ contact \in BOOLEAN /\ unknown \in BOOLEAN
  /\ \A c \in calls : c.kind = "page" /\ c.attached => shown[c.conv][c.before] # "absent"

WebInit ==
  /\ stored = Empty /\ owner = [m \in Messages |-> "sender"] /\ known = FALSE /\ running = Here
  /\ feed = <<>> /\ calls = {}
  /\ active = Here /\ viewing = None
  /\ shown = [k \in Keys |-> Empty] /\ contact = FALSE /\ unknown = FALSE
  /\ switches = 0

---------------------------------------------------------------------------
(* The server.                                                             *)

Emit(e) == Len(feed) < MaxFeed /\ feed' = Append(feed, e)
New(m, s, k)      == [type |-> "new", msg |-> m, status |-> s, conv |-> k, radio |-> Here]
StatusOf(m, s)    == [type |-> "status", msg |-> m, status |-> s, conv |-> "contact", radio |-> Here]
ContactUpdated    == [type |-> "contact", msg |-> 0, status |-> "absent", conv |-> "contact", radio |-> Here]
StatusChanged(r)  == [type |-> "active", msg |-> 0, status |-> "absent", conv |-> "contact", radio |-> r]

Next1(m) == \A n \in Messages : (n < m) => stored[n] # "absent"

\* A message is received.
Arrives(m) ==
  /\ m \notin Sends /\ stored[m] = "absent" /\ Next1(m)
  /\ stored' = [stored EXCEPT ![m] = "sent"] /\ owner' = [owner EXCEPT ![m] = IF known THEN "contact" ELSE "sender"]
  /\ Emit(New(m, "sent", owner'[m]))
  /\ UNCHANGED <<known, running, calls, tab, switches>>

\* Delivery goes on, or fails; pending stands for retrying as well.
Progress(m, s) ==
  /\ m \in Sends /\ <<stored[m], s>> \in {<<"pending", "sent">>, <<"sent", "delivered">>, <<"pending", "failed">>}
  /\ stored' = [stored EXCEPT ![m] = s] /\ Emit(StatusOf(m, s))
  /\ UNCHANGED <<owner, known, running, calls, tab, switches>>

\* The sender is heard, and its messages are attributed to it.
Learn ==
  /\ ~known /\ known' = TRUE /\ Emit(ContactUpdated)
  /\ owner' = [m \in Messages |-> IF stored[m] # "absent" THEN "contact" ELSE owner[m]]
  /\ UNCHANGED <<stored, running, calls, tab, switches>>

Activate(r) ==
  /\ r # running /\ switches < MaxSwitches
  /\ running' = r /\ switches' = switches + 1 /\ Emit(StatusChanged(r))
  /\ UNCHANGED <<stored, owner, known, calls, tab>>

\* The newest rows of a conversation, before the given one if there is one.
Conversation(c) ==
  LET all    == {m \in Messages : /\ c.radio = Here /\ stored[m] # "absent" /\ owner[m] = c.conv
                                  /\ c.before # 0 => m < c.before}
      newest == {m \in all : Cardinality({n \in all : n > m}) < PageSize}
  IN  [m \in Messages |-> IF m \in newest THEN stored[m] ELSE "absent"]

Answered(c, rows, flag) == calls' = (calls \ {c}) \cup {[c EXCEPT !.served = TRUE, !.rows = rows, !.flag = flag]}

\* What each request does at the server.
Reads(c) ==
  /\ c.kind \in {"history", "page", "contacts", "unknowns"}
  /\ Answered(c, IF c.kind \in {"history", "page"} THEN Conversation(c) ELSE Empty,
              c.radio = Here /\ IF c.kind = "contacts" THEN known
                                ELSE \E m \in Messages : stored[m] # "absent" /\ owner[m] = "sender")
  /\ UNCHANGED <<server, feed>>

Sets(c, m, s, e) ==
  /\ stored' = [stored EXCEPT ![m] = s] /\ Emit(e)
  /\ Answered([c EXCEPT !.msg = m], [Empty EXCEPT ![m] = s], FALSE)
  /\ UNCHANGED <<known, running>>

Stores(c) ==
  /\ c.kind = "send"
  /\ \E m \in Sends : /\ stored[m] = "absent" /\ Next1(m) /\ owner' = [owner EXCEPT ![m] = "contact"]
                      /\ Sets(c, m, "pending", New(m, "pending", "contact"))

Retries(c) ==
  /\ c.kind = "retry" /\ stored[c.msg] = "failed" /\ Sets(c, c.msg, "pending", StatusOf(c.msg, "pending"))
  /\ UNCHANGED owner

Cancels(c) ==
  /\ c.kind = "cancel" /\ stored[c.msg] \in {"pending", "failed"} /\ Sets(c, c.msg, "failed", StatusOf(c.msg, "failed"))
  /\ UNCHANGED owner

\* Delivery has gone on in the meantime.
Refuses(c) ==
  /\ \/ c.kind = "retry" /\ stored[c.msg] # "failed"
     \/ c.kind = "cancel" /\ stored[c.msg] \notin {"pending", "failed"}
  /\ calls' = calls \ {c} /\ UNCHANGED <<server, feed>>

Serve(c) ==
  /\ c \in calls /\ ~c.served
  /\ Reads(c) \/ Stores(c) \/ Retries(c) \/ Cancels(c) \/ Refuses(c)
  /\ UNCHANGED <<tab, switches>>

---------------------------------------------------------------------------
(* Lists and what replaces them.                                           *)

InView == IF viewing # None THEN viewing ELSE active

FinalStatus(old, new) == IF old = "delivered" THEN old ELSE new

\* Faulty variant: what the server answers with replaces the list.
MergedAll(rows, list) == rows

\* The rows of a list win over those the server answers with.
Merged(rows, list) == [m \in Messages |-> IF list[m] # "absent" THEN list[m] ELSE rows[m]]

Listed(list) == {m \in Messages : list[m] # "absent"}

Request(kind, radio, conv, msg, before) ==
  [kind |-> kind, radio |-> radio, conv |-> conv, msg |-> msg, before |-> before, served |-> FALSE,
   rows |-> Empty, flag |-> FALSE, attached |-> kind = "page", held |-> Empty]

\* The lists of the conversations ks are replaced: pages keep the old ones.
Detached(cs, ks) ==
  {IF c.kind = "page" /\ c.attached /\ c.conv \in ks
   THEN [c EXCEPT !.attached = FALSE, !.held = shown[c.conv]] ELSE c : c \in cs}

\* openConversationAt goes on: a page is asked for unless the message is listed
\* or cannot be in an older one.
Paging(conv, target, list) ==
  IF target = 0 \/ list[target] # "absent" \/ Listed(list) = {} \/ Min(Listed(list)) <= target THEN {}
  ELSE {Request("page", InView, conv, target, Min(Listed(list)))}

\* reloadRadioSnapshot: what is shown is dropped, and loaded for the radio r.
Reload(cs, r) ==
  /\ shown' = [k \in Keys |-> Empty] /\ unknown' = FALSE /\ contact' = contact
  /\ calls' = Detached(cs, Keys) \cup {Request("contacts", r, "contact", 0, 0), Request("unknowns", r, "contact", 0, 0)}

\* reconcileUnknownConversations: the rows under the prefix move to the contact.
Reconciled(contacts, cs) ==
  /\ contact' = contacts
  /\ IF contacts /\ unknown
     THEN /\ unknown' = FALSE
          /\ IF Listed(shown["sender"]) = {} THEN shown' = shown /\ calls' = cs
             ELSE /\ shown' = [k \in Keys |-> IF k = "sender" THEN Empty ELSE Merged(shown["contact"], shown["sender"])]
                  /\ calls' = Detached(cs, Keys)
     ELSE UNCHANGED <<shown, unknown>> /\ calls' = cs

\* appendMessage: a row that is listed, in whichever conversation, is merged.
Append1(m, s, k) ==
  LET prior == {j \in Keys : shown[j][m] # "absent"} IN
  /\ shown' = IF prior = {} THEN [shown EXCEPT ![k][m] = s]
              ELSE LET j == CHOOSE j \in prior : TRUE IN [shown EXCEPT ![j][m] = FinalStatus(@, s)]
  /\ unknown' = (unknown \/ (prior = {} /\ k = "sender"))

UpdateMessageStatus(m, s) ==
  shown' = [k \in Keys |-> IF shown[k][m] = "absent" THEN shown[k]
                           ELSE [shown[k] EXCEPT ![m] = FinalStatus(@, s)]]

---------------------------------------------------------------------------
(* The user.                                                               *)

Asks(c) ==
  /\ Cardinality(calls) < MaxCalls /\ calls' = calls \cup {c}
  /\ UNCHANGED <<server, feed, tab, switches>>

\* A conversation is opened, at a message that was searched for if t is one.
OpenConversation(k, t) ==
  /\ t # 0 => stored[t] # "absent" /\ owner[t] = k
  /\ Asks(Request("history", InView, k, t, 0))

SendMessage == InView = Here /\ (\E m \in Sends : stored[m] = "absent") /\ Asks(Request("send", Here, "contact", 0, 0))

RetryMessage(m)  == shown["contact"][m] = "failed" /\ Asks(Request("retry", Here, "contact", m, 0))
CancelMessage(m) == shown["contact"][m] \in {"pending", "failed"} /\ Asks(Request("cancel", Here, "contact", m, 0))

SwitchRadio(r) ==
  LET target == IF r = active THEN None ELSE r IN
  /\ switches < MaxSwitches /\ target # viewing
  /\ viewing' = target /\ switches' = switches + 1 /\ Reload(calls, r)
  /\ UNCHANGED <<server, feed, active>>

---------------------------------------------------------------------------
(* Answers.  A request that fails is one that is never answered.           *)

\* The list is merged with the one there is by now.
HistoryAnswers(c) ==
  LET list == Merged(c.rows, shown[c.conv]) IN
  /\ c.kind = "history"
  /\ shown' = [shown EXCEPT ![c.conv] = list]
  /\ calls' = Detached(calls \ {c}, {c.conv}) \cup Paging(c.conv, c.msg, list)
  /\ UNCHANGED <<contact, unknown>>

\* The page is merged with the list the paging began with.
PageAnswers(c) ==
  LET list == Merged(c.rows, IF c.attached THEN shown[c.conv] ELSE c.held) IN
  /\ c.kind = "page" /\ UNCHANGED <<contact, unknown>>
  /\ IF c.rows = Empty THEN shown' = shown /\ calls' = calls \ {c}
     ELSE /\ shown' = [shown EXCEPT ![c.conv] = list]
          /\ calls' = Detached(calls \ {c}, {c.conv}) \cup Paging(c.conv, c.msg, list)

SendAnswers(c) ==
  /\ c.kind = "send" /\ Append1(c.msg, c.rows[c.msg], "contact")
  /\ calls' = calls \ {c} /\ contact' = contact

ChangeAnswers(c) ==
  /\ c.kind \in {"retry", "cancel"} /\ UpdateMessageStatus(c.msg, c.rows[c.msg])
  /\ calls' = calls \ {c} /\ UNCHANGED <<contact, unknown>>

LoadAnswers(c) ==
  \/ c.kind = "contacts" /\ Reconciled(c.flag, calls \ {c})
  \/ c.kind = "unknowns" /\ unknown' = c.flag /\ calls' = calls \ {c} /\ UNCHANGED <<shown, contact>>

Answer(c) ==
  /\ c \in calls /\ c.served
  /\ HistoryAnswers(c) \/ PageAnswers(c) \/ SendAnswers(c) \/ ChangeAnswers(c) \/ LoadAnswers(c)
  /\ UNCHANGED <<server, feed, active, viewing, switches>>

---------------------------------------------------------------------------
(* The event feed: onEvent, and the connection below it.                   *)

OnMessage(e) ==
  \/ e.type = "new" /\ Append1(e.msg, e.status, e.conv) /\ UNCHANGED <<calls, contact>>
  \/ e.type = "status" /\ UpdateMessageStatus(e.msg, e.status) /\ UNCHANGED <<calls, contact, unknown>>
  \/ e.type = "contact" /\ Reconciled(TRUE, calls)

\* Events of another radio leave the lists alone.
OnRadioEvent(e) ==
  /\ e.type # "active" /\ UNCHANGED <<active, viewing>>
  /\ IF e.radio # InView THEN UNCHANGED <<calls, shown, contact, unknown>> ELSE OnMessage(e)

OnStatusChanged(e) ==
  /\ e.type = "active" /\ active' = e.radio /\ viewing' = viewing
  /\ IF viewing = None /\ e.radio # active THEN Reload(calls, e.radio)
     ELSE UNCHANGED <<calls, shown, contact, unknown>>

FeedDelivers ==
  /\ feed # <<>> /\ feed' = Tail(feed)
  /\ OnRadioEvent(Head(feed)) \/ OnStatusChanged(Head(feed))
  /\ UNCHANGED <<server, switches>>

\* The connection is lost, and opened again: what was on its way is lost, and
\* so is, by more of these steps, what is published until then.
FeedReopens ==
  /\ feed # <<>> /\ feed' = <<>>
  /\ UNCHANGED <<server, calls, tab, switches>>

---------------------------------------------------------------------------
WebNext ==
  \/ \E m \in Messages : Arrives(m) \/ RetryMessage(m) \/ CancelMessage(m)
                         \/ \E s \in Statuses : Progress(m, s)
  \/ Learn \/ \E r \in Radios : Activate(r) \/ SwitchRadio(r)
  \/ \E k \in Keys, t \in Messages \cup {0} : OpenConversation(k, t)
  \/ SendMessage
  \/ \E c \in calls : Serve(c) \/ Answer(c)
  \/ FeedDelivers \/ FeedReopens

WebSpec == WebInit /\ [][WebNext]_webVars

---------------------------------------------------------------------------
(* What is promised.                                                       *)

Has(rows, m, s) == \E k \in Keys : rows[k][m] = s

\* A row that is listed stays listed, and one that reads delivered goes on to,
\* until the radio in view changes: whatever histories, pages, answers and
\* events are merged, and in whatever order they come ("Preserve those newer
\* objects when merging").  A page of a list that was replaced while the page was
\* loading is excepted: it brings the old list back.
RowsKept ==
  [][ \/ active' # active \/ viewing' # viewing
      \/ \E c \in calls \ calls' : c.kind = "page" /\ ~c.attached
      \/ \A m \in Messages : /\ (\A k \in Keys : shown'[k][m] = "absent") => \A k \in Keys : shown[k][m] = "absent"
                             /\ Has(shown, m, "delivered") => Has(shown', m, "delivered") ]_webVars
=============================================================================
