-------------------------- MODULE MCConversations --------------------------
(* What ties the queries of the server to the accounting of a tab,         *)
(* evaluated over every small history.                                     *)
EXTENDS Conversations

KeyA == <<1, 1>>
KeyB == <<1, 2>>
KeyC == <<2, 1>>
Self == <<3, 1>>
Keys == {KeyA, KeyB, KeyC}

ARow(id, kind, key, prefix, channel, dir, read) ==
  [id |-> id, radio |-> 1, kind |-> kind, key |-> key, prefix |-> prefix, channel |-> channel,
   dir |-> dir, read |-> read, words |-> {}]

\* A direct message under its prefix or resolved, to oneself, out; a channel message.
Shapes(id, read) ==
  {ARow(id, "dm", NoKey, p, -1, "in", read) : p \in {1, 2}} \cup
  {ARow(id, "dm", k, k[1], -1, "in", read) : k \in Keys \cup {Self}} \cup
  {ARow(id, "dm", KeyA, 0, -1, "out", TRUE), ARow(id, "channel", NoKey, 0, 0, "in", read)}

Histories == {{a, b} : a \in Shapes(1, FALSE) \cup Shapes(1, TRUE), b \in Shapes(2, FALSE)}

\* No message waits under a prefix that is the prefix of exactly one contact.
Settled0(rows, contacts) ==
  \A m \in rows : m.kind = "dm" /\ m.key = NoKey => FindUniqueContactByPrefix(contacts, m.prefix) = NoKey

Loaded(rows, contacts, active) ==
  [contacts |-> contacts, active |-> active,
   unknown  |-> GetUnknownDirectMessages(rows, 1, contacts, Self),
   unread   |-> Without(GetUnreadSummary(rows, 1, Self), active)]

Same(t, u) ==
  /\ \A c \in DOMAIN t.unread \cup DOMAIN u.unread : Badge(t, c) = Badge(u, c)
  /\ {ConversationOf(m) : m \in t.unknown} = {ConversationOf(m) : m \in u.unknown}
  /\ t.contacts = u.contacts /\ t.active = u.active

Actives(rows) == {NoKey} \cup {ConversationOf(m) : m \in rows}

\* An arriving message changes badges and rows as a reload would, unless it takes
\* the place of the row of a removed contact with the same prefix.
ASSUME ArrivalAsReloaded ==
  \A rows \in Histories, contacts \in SUBSET Keys : Settled0(rows, contacts) =>
    \A m \in Shapes(3, FALSE), active \in Actives(rows) :
      /\ Settled0({m}, contacts) /\ m.key \in contacts \cup {NoKey, Self}
      /\ m.key = NoKey => \A x \in Loaded(rows, contacts, active).unknown : x.key = NoKey \/ x.prefix # m.prefix
      =>
        Same(AppendMessage(Loaded(rows, contacts, active), m, Self), Loaded(rows \cup {m}, contacts, active))

\* So does the removal of a contact, which closes its conversation, ...
ASSUME RemovalAsReloaded ==
  \A rows \in Histories, contacts \in SUBSET Keys : Settled0(rows, contacts) =>
    \A k \in contacts, active \in Actives(rows) :
      LET left == contacts \ {k} IN
      Same(ContactRemoved(Loaded(rows, contacts, active), k, GetUnknownDirectMessages(rows, 1, left, Self),
                          GetUnreadSummary(rows, 1, Self)),
           Loaded(rows, left, IF active = <<"key", k>> THEN NoKey ELSE active))

\* ... and a contact that becomes known, when nobody else has its prefix.
ASSUME ResolutionAsReloaded ==
  \A rows \in Histories, contacts \in SUBSET {KeyC} : Settled0(rows, contacts) =>
    \A k \in {KeyA, KeyC} \ contacts :
      LET now   == contacts \cup {k}
          after == ReconcileContactMessages(rows, 1, now, k)
      IN  (\A m \in rows : m.key # KeyB) =>
            Same(ContactUpdated(Loaded(rows, contacts, NoKey), k), Loaded(after, now, NoKey))

\* Moving badges from a prefix to a key loses and invents none.
ASSUME TotalKept ==
  \A rows \in Histories, contacts, more \in SUBSET Keys :
    LET t == Loaded(rows, contacts, NoKey) IN
    TotalUnread(ReconcileUnknownConversations([t EXCEPT !.contacts = @ \cup more])) = TotalUnread(t)

\* Every badge has a row in the sidebar, from which it can be opened and read.
ASSUME BadgesCanBeOpened ==
  \A rows \in Histories, contacts \in SUBSET Keys :
    LET t == Loaded(rows, contacts, NoKey) IN
    \A conv \in DOMAIN t.unread :
      /\ conv \in Sidebar(t, {0})
      /\ LET read == MarkConversationRead(rows, 1, conv) IN
         /\ conv \notin DOMAIN GetUnreadSummary(read, 1, Self)
         /\ \A c \in DOMAIN t.unread \ {conv} : GetUnreadSummary(read, 1, Self)[c] = t.unread[c]

\* Paging back from the newest message shows each message of a conversation once,
\* in the order an export has them.
ASSUME PagesCover ==
  \A ids \in SUBSET (1..5), limit \in {0, 1, 2, 201} :
    LET rows == {ARow(i, "channel", NoKey, 0, IF i = 3 THEN 1 ELSE 0, "in", TRUE) : i \in ids}
        conv == <<"channel", 0>>
        Oldest(page) == (CHOOSE m \in page : \A x \in page : m.id <= x.id).id
        pages[n \in 0..5] ==
          IF n = 0 THEN GetConversation(rows, 1, conv, 0, limit)
          ELSE IF pages[n - 1] = {} THEN {} ELSE GetConversation(rows, 1, conv, Oldest(pages[n - 1]), limit)
        out  == IterateMessagesForExport(rows, 1, conv)
    IN  /\ UNION {pages[n] : n \in 0..5} = Of(rows, 1, conv)
        /\ \A n, k \in 0..5 : n < k => \A a \in pages[n], b \in pages[k] : b.id < a.id
        /\ {out[i] : i \in 1..Len(out)} = Of(rows, 1, conv)
        /\ \A i, j \in 1..Len(out) : i < j => out[i].id < out[j].id

Words == {<<1>>, <<1, 2>>, <<2>>}
Texts == {[ARow(id, "channel", NoKey, 0, 0, "in", TRUE) EXCEPT !.words = ws] : id \in {1}, ws \in SUBSET Words}
         \cup {[ARow(2, "channel", NoKey, 0, 0, "in", TRUE) EXCEPT !.words = ws, !.radio = 2] : ws \in SUBSET Words}

\* A search while the user types finds less with every letter and with every word
\* before the last, finds what has the words, and nothing of another radio.
ASSUME SearchNarrows ==
  \A w, v \in Words :
    /\ SearchMessages(Texts, 1, <<>>) = {}
    /\ SearchMessages(Texts, 1, <<w, v>>) \subseteq SearchMessages(Texts, 1, <<v>>)
    /\ SearchMessages(Texts, 1, <<Append(w, 2)>>) \subseteq SearchMessages(Texts, 1, <<w>>)
    /\ {m \in Texts : m.radio = 1 /\ {w, v} \subseteq m.words} \subseteq SearchMessages(Texts, 1, <<w, v>>)
    /\ \A m \in SearchMessages(Texts, 1, <<v>>) : m.radio = 1

\* The newest messages of a radio are among the newest of its conversations, and
\* its unread messages are those with a badge and those it sent to itself.
ASSUME CountsAddUp ==
  \A rows \in Histories, n \in 0..2 :
    LET recent  == GetRecentMessages(rows, 1, n)
        summary == GetUnreadSummary(rows, 1, Self)
    IN  /\ recent \subseteq UNION {GetConversation(rows, 1, conv, 0, n) : conv \in {ConversationOf(m) : m \in rows}}
        /\ Counts(rows, 1, Keys).unread =
             FoldSet(LAMBDA c, sum : sum + summary[c], 0, DOMAIN summary)
             + Cardinality({m \in rows : m.dir = "in" /\ ~m.read /\ m.key = Self})

Browsers == [supported : BOOLEAN, permission : {"granted", "denied", "default"}, hidden : BOOLEAN]

\* A message that is on screen is never notified, a muted or unwanted one neither;
\* what blocks every notification is what the guidance reports or an unanswered
\* question; nothing of its content is shown without consent.
ASSUME NotificationsDiscreet ==
  \A m \in Shapes(1, FALSE), pref \in {"off", "dms", "all"}, active, muted \in BOOLEAN, b \in Browsers :
    /\ NotifyIncoming(m, pref, active, muted, b) =>
         ~(active /\ ~b.hidden) /\ ~muted /\ NotifyAlert(pref, b) /\ ~PermissionBlocked(pref, b)
    /\ PermissionBlocked(pref, b) => ~RequestNotifyPermission(b, "granted")
    /\ MessageNotificationContent(m, FALSE) = {} /\ AlertNotificationContent("breach", FALSE) = {}

\* A message of another radio is notified once, also when it is told of again.
ASSUME BackgroundOnce ==
  \A m \in Shapes(1, FALSE), n \in {1, 199, 200}, b \in Browsers :
    LET full  == [i \in 1..n |-> i + 1]
        first == NotifyBackgroundMessage(full, 1, m, "all", b)
        again == NotifyBackgroundMessage(first.seen, 1, m, "all", b)
    IN  /\ first.shown <=> m.dir = "in" /\ Permitted(b)
        /\ ~again.shown /\ again.seen = first.seen /\ Len(first.seen) <= 200

\* A logout ends what could show the next user something; a reset leaves nothing.
ASSUME NothingLeftBehind ==
  LET local == [details |-> TRUE, queue |-> {1}, notify |-> "all", prefs |-> <<>>, caches |-> {1}] IN
  /\ ~Logout(local).details /\ Logout(local).queue = {} /\ Logout(local).notify = local.notify
  /\ ResetLocalData(Logout(local)) = ResetLocalData(local)

\* A preference that is set is found, one that is cleared takes no room.
ASSUME PreferencesKept ==
  \A p, q \in {Default, [Default EXCEPT !.muted = TRUE], [Default EXCEPT !.archived = TRUE]} :
    LET one == SetConversationPreference(<<>>, 1, <<"key", KeyA>>, p)
        two == SetConversationPreference(one, 2, <<"key", KeyA>>, q)
    IN  /\ ConversationPreference(two, 1, <<"key", KeyA>>) = p
        /\ ConversationPreference(two, 2, <<"key", KeyA>>) = q
        /\ Cardinality(DOMAIN two) = Cardinality({i \in {1, 2} : <<p, q>>[i] # Default})
===========================================================================
