--------------------------- MODULE Conversations ---------------------------
(***************************************************************************)
(* Conversations as the server stores and queries them (store.ts) and as a *)
(* tab accounts for them: badges, rows for senders that are no contact, and*)
(* notifications (app.ts, notifications.ts, conversation-preferences.ts).  *)
(* Functions only: MCConversations evaluates what ties the two sides       *)
(* together over small histories.                                          *)
(*                                                                         *)
(* A public key is <<prefix, rest>>; NoKey stands for null, 0 for no       *)
(* prefix.  A row is [id, radio, kind, key, prefix, channel, dir, read,    *)
(* words]; a conversation is <<kind of its address, address>>.             *)
(***************************************************************************)
EXTENDS Integers, FiniteSets, Sequences, FiniteSetsExt

NoKey == <<>>

Clamp(n, high) == IF n < 1 THEN 1 ELSE IF n > high THEN high ELSE n

\* By channel, by the resolved key, else by the prefix that was received.
ConversationOf(m) ==
  CASE m.kind = "channel"                  -> <<"channel", m.channel>>
    [] m.kind = "dm" /\ m.key # NoKey      -> <<"key", m.key>>
    [] m.kind = "dm" /\ m.key = NoKey      -> <<"prefix", m.prefix>>

OfRadio(rows, radio)    == {m \in rows : m.radio = radio}
Of(rows, radio, conv)   == {m \in OfRadio(rows, radio) : ConversationOf(m) = conv}
Latest(rows, n)         == {m \in rows : Cardinality({x \in rows : x.id > m.id}) < n}

---------------------------------------------------------------------------
(* The queries.                                                            *)

\* A page: the last messages before an id; before = 0 asks for the latest.
GetConversation(rows, radio, conv, before, limit) ==
  Latest({m \in Of(rows, radio, conv) : before # 0 => m.id < before}, Clamp(limit, 200))

GetRecentMessages(rows, radio, limit) == Latest(OfRadio(rows, radio), Clamp(limit, 200))

\* Oldest first, one row at a time.
IterateMessagesForExport(rows, radio, conv) ==
  LET listed == Of(rows, radio, conv) IN
  [i \in 1..Cardinality(listed) |-> CHOOSE m \in listed : Cardinality({x \in listed : x.id < m.id}) = i - 1]

\* Every term must occur as a word, the last one as the beginning of a word.
BeginningOf(term, word) == Len(term) <= Len(word) /\ SubSeq(word, 1, Len(term)) = term

SearchMessages(rows, radio, terms) ==
  IF terms = <<>> THEN {}
  ELSE {m \in OfRadio(rows, radio) :
          \A i \in 1..Len(terms) :
            IF i = Len(terms) THEN \E w \in m.words : BeginningOf(terms[i], w) ELSE terms[i] \in m.words}

\* DMs with no contact to list them under, one row for each sender; what the
\* radio sent to itself is no conversation.
Unlisted(m, contacts, self) ==
  /\ m.kind = "dm" /\ m.prefix # 0
  /\ m.key = NoKey \/ (m.key \notin contacts /\ m.key # self)

GetUnknownDirectMessages(rows, radio, contacts, self) ==
  LET unlisted == {m \in OfRadio(rows, radio) : Unlisted(m, contacts, self)} IN
  {m \in unlisted : \A x \in unlisted : ConversationOf(x) = ConversationOf(m) => x.id <= m.id}

MarkConversationRead(rows, radio, conv) ==
  {IF m.radio = radio /\ ConversationOf(m) = conv /\ m.dir = "in" THEN [m EXCEPT !.read = TRUE] ELSE m : m \in rows}

Unread(rows, radio, self) ==
  {m \in OfRadio(rows, radio) : m.dir = "in" /\ ~m.read /\ (m.kind = "dm" /\ m.key # NoKey => m.key # self)}

GetUnreadSummary(rows, radio, self) ==
  LET unread == Unread(rows, radio, self) IN
  [conv \in {ConversationOf(m) : m \in unread} |-> Cardinality({m \in unread : ConversationOf(m) = conv})]

Counts(rows, radio, contacts) ==
  [contacts |-> Cardinality(contacts), messages |-> Cardinality(OfRadio(rows, radio)),
   unread   |-> Cardinality({m \in OfRadio(rows, radio) : m.dir = "in" /\ ~m.read})]

FindUniqueContactByPrefix(contacts, prefix) ==
  LET matches == {k \in contacts : k[1] = prefix} IN
  IF Cardinality(matches) = 1 THEN CHOOSE k \in matches : TRUE ELSE NoKey

\* A contact that becomes known takes over what came under its prefix.
ReconcileContactMessages(rows, radio, contacts, key) ==
  {IF m.radio = radio /\ m.kind = "dm" /\ m.key = NoKey /\ m.prefix # 0
      /\ FindUniqueContactByPrefix(contacts, m.prefix) = key
   THEN [m EXCEPT !.key = key] ELSE m : m \in rows}

---------------------------------------------------------------------------
(* The tab: contacts, unknown (the messages that stand for unlisted        *)
(* senders), active (a conversation or NoKey) and the badges.              *)

Badge(tab, conv) == IF conv \in DOMAIN tab.unread THEN tab.unread[conv] ELSE 0
TotalUnread(tab) == FoldSet(LAMBDA c, sum : sum + tab.unread[c], 0, DOMAIN tab.unread)

WithBadge(unread, conv, n) ==
  [c \in DOMAIN unread \cup {conv} |-> IF c = conv THEN n ELSE unread[c]]
Without(unread, conv) == [c \in DOMAIN unread \ {conv} |-> unread[c]]

\* An open conversation never gets a badge from the server's summary.
RefreshUnread(tab, summary) == [tab EXCEPT !.unread = Without(summary, tab.active)]

RefreshUnknownSenders(tab, listed) == [tab EXCEPT !.unknown = listed]

\* A message nobody has seen yet joins the badges unless its conversation is open.
AppendMessage(tab, m, self) ==
  LET conv     == ConversationOf(m)
      selfEcho == m.kind = "dm" /\ m.key # NoKey /\ m.key = self
  IN  [tab EXCEPT
         !.unknown = IF m.kind = "dm" /\ m.key = NoKey /\ m.prefix # 0
                     THEN {m} \cup {x \in @ : x.prefix # m.prefix} ELSE @,
         !.unread  = IF m.dir = "in" /\ conv # tab.active /\ ~selfEcho
                     THEN WithBadge(@, conv, Badge(tab, conv) + 1) ELSE @]

\* One unknown sender whose prefix is that of exactly one contact.
Resolved(tab, m) ==
  LET key == FindUniqueContactByPrefix(tab.contacts, m.prefix)
      old == <<"prefix", m.prefix>>
      new == <<"key", key>>
  IN  [tab EXCEPT
         !.unread  = IF Badge(tab, old) # 0
                     THEN Without(WithBadge(@, new, Badge(tab, new) + Badge(tab, old)), old) ELSE @,
         !.active  = IF @ = old THEN new ELSE @,
         !.unknown = {x \in @ : x.prefix # m.prefix}]

ReconcileUnknownConversations(tab) ==
  LET ready == {m \in tab.unknown : m.prefix # 0 /\ FindUniqueContactByPrefix(tab.contacts, m.prefix) # NoKey} IN
  FoldSet(LAMBDA m, t : Resolved(t, m), tab, ready)

ContactUpdated(tab, key) == ReconcileUnknownConversations([tab EXCEPT !.contacts = @ \cup {key}])

\* The sidebar row is gone, and what is still unread has to be listed otherwise.
ContactRemoved(tab, key, listed, summary) ==
  LET gone == [tab EXCEPT !.contacts = @ \ {key}, !.unread = Without(@, <<"key", key>>),
                          !.active = IF @ = <<"key", key>> THEN NoKey ELSE @]
  IN  RefreshUnread(RefreshUnknownSenders(gone, listed), summary)

OpenConversation(tab, conv) == [tab EXCEPT !.active = conv, !.unread = WithBadge(@, conv, 0)]

Sidebar(tab, channels) ==
  {<<"channel", i>> : i \in channels} \cup {<<"key", k>> : k \in tab.contacts} \cup {ConversationOf(m) : m \in tab.unknown}

---------------------------------------------------------------------------
(* Preferences and notifications, which stay in the browser.               *)

Default == [archived |-> FALSE, muted |-> FALSE]

ConversationPreference(prefs, radio, conv) ==
  IF <<radio, conv>> \in DOMAIN prefs THEN prefs[<<radio, conv>>] ELSE Default

\* Only what differs from the default is kept.
SetConversationPreference(prefs, radio, conv, next) ==
  IF next = Default THEN Without(prefs, <<radio, conv>>) ELSE WithBadge(prefs, <<radio, conv>>, next)

Permitted(browser) == browser.supported /\ browser.permission = "granted"

NotifyIncoming(m, pref, active, muted, browser) ==
  /\ pref # "off" /\ m.dir = "in" /\ ~muted
  /\ m.kind = "channel" => pref = "all"
  /\ browser.hidden \/ ~active
  /\ Permitted(browser)

NotifyAlert(pref, browser) == pref # "off" /\ Permitted(browser)

PermissionBlocked(pref, browser) == pref # "off" /\ browser.supported /\ browser.permission = "denied"

RequestNotifyPermission(browser, answer) ==
  /\ browser.supported /\ browser.permission # "denied"
  /\ browser.permission = "granted" \/ answer = "granted"

\* Which facts of a message its notification shows.
MessageNotificationContent(m, details) ==
  IF ~details THEN {} ELSE {"sender", "text"} \cup (IF m.kind = "dm" THEN {} ELSE {"channel"})

AlertNotificationContent(direction, details) ==
  IF ~details THEN {} ELSE {"subject", "label", "value"} \cup (IF direction = "breach" THEN {"threshold"} ELSE {})

\* A message of a radio that is not in view: once, whatever is open or muted there.
NotifyBackgroundMessage(seen, id, m, pref, browser) ==
  [shown |-> m.dir = "in" /\ id \notin {seen[i] : i \in 1..Len(seen)} /\ NotifyIncoming(m, pref, FALSE, FALSE, browser),
   seen  |-> IF m.dir # "in" \/ id \in {seen[i] : i \in 1..Len(seen)} THEN seen
             ELSE Append(IF Len(seen) > 199 THEN SubSeq(seen, Len(seen) - 198, Len(seen)) ELSE seen, id)]

\* What a logout and an explicit reset leave of what the browser keeps.
Logout(local)         == [local EXCEPT !.details = FALSE, !.queue = {}]
ResetLocalData(local) == [local EXCEPT !.details = FALSE, !.queue = {}, !.notify = "off", !.prefs = <<>>, !.caches = {}]
===========================================================================
