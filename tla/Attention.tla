----------------------------- MODULE Attention -----------------------------
(***************************************************************************)
(* One tab that keeps up with one radio: messages arrive, conversations    *)
(* are opened and read, contacts are removed and come back.  Every event   *)
(* and every answer is delivered before the next thing happens; what the   *)
(* delays of a network add is the matter of WebStore.                      *)
(***************************************************************************)
EXTENDS Conversations

CONSTANTS
  ContactKeys,   \* who writes, as <<prefix, rest>>
  SelfKey,       \* the radio's own key
  MaxMessages    \* a bound

AttentionAssumption == SelfKey \notin ContactKeys /\ MaxMessages \in Nat

VARIABLES
  messages,   \* what the server has stored
  tab         \* contacts, unknown, active and unread, as Conversations says

vars == <<messages, tab>>

Init ==
  /\ messages = {}
  /\ \E contacts \in SUBSET ContactKeys :
       tab = [contacts |-> contacts, unknown |-> {}, active |-> NoKey, unread |-> <<>>]

\* A direct message is stored under the key that its prefix names, if only one
\* contact has it, and shown.
MessageArrives(k) ==
  /\ Cardinality(messages) < MaxMessages
  /\ LET m == [id |-> Cardinality(messages) + 1, radio |-> 1, kind |-> "dm",
               key |-> FindUniqueContactByPrefix(tab.contacts, k[1]), prefix |-> k[1], channel |-> -1,
               dir |-> "in", read |-> FALSE, words |-> {}]
     IN  messages' = messages \cup {m} /\ tab' = AppendMessage(tab, m, SelfKey)

RemoveContact(k) ==
  /\ k \in tab.contacts
  /\ tab' = ContactRemoved(tab, k, GetUnknownDirectMessages(messages, 1, tab.contacts \ {k}, SelfKey),
                           GetUnreadSummary(messages, 1, SelfKey))
  /\ UNCHANGED messages

AdvertReceived(k) ==
  /\ messages' = ReconcileContactMessages(messages, 1, tab.contacts \cup {k}, k)
  /\ tab' = ContactUpdated(tab, k)

Open(conv) ==
  /\ conv \in Sidebar(tab, {})
  /\ messages' = MarkConversationRead(messages, 1, conv)
  /\ tab' = OpenConversation(tab, conv)

Close == tab' = [tab EXCEPT !.active = NoKey] /\ UNCHANGED messages

Next ==
  \/ \E k \in ContactKeys : MessageArrives(k) \/ RemoveContact(k) \/ AdvertReceived(k)
  \/ \E conv \in Sidebar(tab, {}) : Open(conv)
  \/ Close

Spec == Init /\ [][Next]_vars

---------------------------------------------------------------------------

\* Unread messages of a removed contact reappear as an entry of their own,
\* "instead of a stuck, unrenderable count" (app.ts:897): every badge has a row.
BadgeHasRow == \A conv \in DOMAIN tab.unread : Badge(tab, conv) > 0 => conv \in Sidebar(tab, {})
===========================================================================
