-------------------------- MODULE InboundMessages --------------------------
(***************************************************************************)
(* What a link stores of what its radio tells it: the identity of the      *)
(* physical radio (radios, resolveRadio), its contacts, and the messages   *)
(* that are pulled off the radio one at a time (link.ts), deduplicated and *)
(* attributed to contacts by a prefix of the sender's key (store.ts).      *)
(* Browser sessions write to the same tables through ingest.ts.            *)
(*                                                                         *)
(* One link, which may find another physical radio at its end each time it *)
(* connects.  Frames arrive on the connection in the order they were sent. *)
(***************************************************************************)
EXTENDS Integers, FiniteSets, Sequences

CONSTANTS
  Radios,      \* physical radios, that is their public keys
  Contacts,    \* public keys of contacts
  Frames,      \* messages of the mesh: sender, timestamp and text
  Home,        \* the radio each frame reaches
  Sender,      \* the prefix a frame names as its sender, and that of each contact
  NoRadio, NoContact, NoFrame, MsgWaiting,
  MaxRows,     \* how many rows of radios may be created (a bound)
  MaxArrivals  \* how often a frame may reach a radio (a bound)

Ids == 1..MaxRows

ASSUME InboundAssumption ==
  /\ MaxRows \in Nat /\ MaxArrivals \in Nat
  /\ Home \in [Frames -> Radios] /\ DOMAIN Sender = Frames \cup Contacts
  /\ NoRadio \notin Radios /\ NoContact \notin Contacts
  /\ NoFrame \notin Frames /\ MsgWaiting \notin Frames \cup {NoFrame}

VARIABLES
  rows, owner, created,  \* radios: its ids, public_key (NoRadio: NULL), the last id given
  contacts,   \* contacts, by the id of the radio
  messages,   \* messages that came in
  radioId,    \* the link's radioId, kept in last_radio_id over restarts; 0 is null
  conn,       \* how far the link is: no object, down, listening to a connection that
              \* has not said whose it is, identified, contacts scanned, synced
  device,     \* the physical radio at the other end
  drain, answer, again, \* draining and its request, the answer, drainAgain
  scan,       \* contact lists the sync and refreshContacts received and have yet to apply
  failed,     \* whether the last drain ended with an error (for the properties)
  waiting,    \* the messages each radio holds until they are pulled
  wire,       \* on their way from the radio
  arrivals    \* how many frames have reached radios

tableVars  == <<rows, owner, created>>
drainVars  == <<drain, answer, again, failed>>
deviceVars == <<waiting, arrivals>>
vars == <<tableVars, contacts, messages, radioId, conn, device, drainVars, scan, deviceVars, wire>>

Up == conn \in {"open", "identified", "scanned", "synced"}
Scanners == {"sync", "push"}

Message == [id : Ids \X {Sender[f] : f \in Frames} \X Frames, row : Ids, frame : Frames,
            key : Contacts \cup {NoContact}]

TypeOK ==
  /\ created \in 0..MaxRows /\ rows \subseteq 1..created
  /\ owner \in [Ids -> Radios \cup {NoRadio}]
  /\ contacts \in [Ids -> SUBSET Contacts] /\ messages \subseteq Message
  /\ radioId \in 0..created
  /\ conn \in {"absent", "down", "open", "identified", "scanned", "synced"}
  /\ device \in Radios \cup {NoRadio} /\ (Up <=> device # NoRadio)
  /\ drain \in {"idle", "asking", "coming", "here"} /\ (drain # "idle" => Up)
  /\ answer \in Frames \cup {NoFrame} /\ again \in BOOLEAN /\ failed \in BOOLEAN
  /\ scan \in [Scanners -> SUBSET SUBSET Contacts]
  /\ waiting \in [Radios -> Seq(Frames)]
  /\ wire \in Seq(Frames \cup {NoFrame, MsgWaiting}) /\ arrivals \in 0..MaxArrivals

Init ==
  /\ rows = {} /\ created = 0 /\ owner = [i \in Ids |-> NoRadio]
  /\ contacts = [i \in Ids |-> {}] /\ messages = {}
  /\ radioId = 0 /\ conn = "down" /\ device = NoRadio
  /\ drain = "idle" /\ answer = NoFrame /\ again = FALSE /\ failed = FALSE
  /\ scan = [w \in Scanners |-> {}]
  /\ waiting = [r \in Radios |-> <<>>]
  /\ wire = <<>> /\ arrivals = 0

---------------------------------------------------------------------------
(* The radios table.                                                       *)

Known(r)     == {i \in rows : owner[i] = r}
Placeholders == Known(NoRadio)

\* Ids are never used twice.
AddRow(i, r) ==
  /\ created < MaxRows /\ i = created + 1
  /\ created' = i /\ rows' = rows \cup {i} /\ owner' = [owner EXCEPT ![i] = r]

Claim(i, r) ==
  /\ i \in Placeholders /\ \A j \in Placeholders : i <= j
  /\ owner' = [owner EXCEPT ![i] = r] /\ UNCHANGED <<rows, created>>

\* resolveRadio(r) answers i: its row, a placeholder that becomes its row, or a new one.
ResolveRadio(r, i) ==
  \/ i \in Known(r) /\ UNCHANGED tableVars
  \/ Known(r) = {} /\ Claim(i, r)
  \/ Known(r) = {} /\ Placeholders = {} /\ AddRow(i, r)

\* A message is sent before any radio is known.
EnsurePlaceholderRadio ==
  /\ rows = {} /\ (conn = "absent" \/ radioId = 0)
  /\ \E i \in Ids : AddRow(i, NoRadio)
  /\ UNCHANGED <<contacts, messages, radioId, conn, device, drainVars, scan, deviceVars, wire>>

\* Faulty variant: the radio in use may be forgotten.
ForgetAnyRadio(i) ==
  /\ i \in rows
  /\ rows' = rows \ {i} /\ owner' = [owner EXCEPT ![i] = NoRadio]
  /\ contacts' = [contacts EXCEPT ![i] = {}]
  /\ messages' = {m \in messages : m.row # i}
  /\ UNCHANGED <<created, radioId, conn, device, drainVars, scan, deviceVars, wire>>

\* A link object names the radio.
InUse(i) == conn # "absent" /\ radioId = i

\* A radio that is not in use is forgotten, with everything stored for it.
ForgetRadio(i) ==
  /\ i \in rows /\ ~InUse(i)
  /\ rows' = rows \ {i} /\ owner' = [owner EXCEPT ![i] = NoRadio]
  /\ contacts' = [contacts EXCEPT ![i] = {}]
  /\ messages' = {m \in messages : m.row # i}
  /\ UNCHANGED <<created, radioId, conn, device, drainVars, scan, deviceVars, wire>>

---------------------------------------------------------------------------
(* Contacts, and the messages whose sender they explain.                   *)

Matching(known, p) == {c \in known : Sender[c] = p}

\* Faulty variant: contacts that are stored already explain nothing.
ReconcileNew(i, first) ==
  {IF /\ m.row = i /\ m.key = NoContact
      /\ first[Sender[m.frame]] # NoContact /\ Matching(contacts[i], Sender[m.frame]) = {}
   THEN [m EXCEPT !.key = first[Sender[m.frame]]] ELSE m : m \in messages}

\* Faulty variant: messages that have a contact are given another one.
ReconcileAll(i, first) ==
  {IF /\ m.row = i
      /\ first[Sender[m.frame]] # NoContact
      /\ Matching(contacts[i], Sender[m.frame]) \subseteq {first[Sender[m.frame]]}
   THEN [m EXCEPT !.key = first[Sender[m.frame]]] ELSE m : m \in messages}

\* The messages of i once contacts are stored one after the other, where first[p]
\* is the first of them with prefix p: only then can it be the only one.
Reconcile(i, first) ==
  {IF /\ m.row = i /\ m.key = NoContact
      /\ first[Sender[m.frame]] # NoContact
      /\ Matching(contacts[i], Sender[m.frame]) \subseteq {first[Sender[m.frame]]}
   THEN [m EXCEPT !.key = first[Sender[m.frame]]] ELSE m : m \in messages}

Prefixes == {Sender[f] : f \in Frames}
Orders(new) == {first \in [Prefixes -> new \cup {NoContact}] :
                  \A p \in Prefixes : IF Matching(new, p) = {} THEN first[p] = NoContact
                                      ELSE first[p] \in Matching(new, p)}

UpsertContact(i, c) ==
  /\ \E first \in Orders({c}) : messages' = Reconcile(i, first)
  /\ contacts' = [contacts EXCEPT ![i] = @ \cup {c}]

\* Everything the radio listed is stored, then what it did not list is removed.
SyncContacts(i, new) ==
  /\ \E first \in Orders(new) : messages' = Reconcile(i, first)
  /\ contacts' = [contacts EXCEPT ![i] = new]

\* Without an identity requireRadio throws and nothing is stored.
ApplyContactScan(w) ==
  /\ scan' = [scan EXCEPT ![w] = {}]
  /\ conn' = IF w = "sync" THEN "scanned" ELSE conn
  /\ \E new \in scan[w] :
       IF radioId = 0 THEN UNCHANGED <<contacts, messages>> ELSE SyncContacts(radioId, new)
  /\ UNCHANGED <<tableVars, radioId, device, drainVars, deviceVars, wire>>

\* The radio answers getContacts, for the sync or for an advert or path update.
\* What it lists may have changed since it was last asked.
ScanAnswered(w) ==
  /\ Up /\ scan[w] = {} /\ (w = "sync" => conn = "identified")
  /\ \E new \in SUBSET Contacts : scan' = [scan EXCEPT ![w] = {new}]
  /\ UNCHANGED <<tableVars, contacts, messages, radioId, conn, device, drainVars, deviceVars, wire>>

NewAdvert(c) ==
  /\ Up /\ radioId # 0 /\ UpsertContact(radioId, c)
  /\ UNCHANGED <<tableVars, radioId, conn, device, drainVars, scan, deviceVars, wire>>

\* A user removes a contact, from the radio and from the table (in one step: the
\* await between the two is not modelled).
RemoveContact(c) ==
  /\ Up /\ radioId # 0
  /\ contacts' = [contacts EXCEPT ![radioId] = @ \ {c}]
  /\ UNCHANGED <<tableVars, messages, radioId, conn, device, drainVars, scan, deviceVars, wire>>

IngestSelf(r) ==
  /\ \E i \in Ids : ResolveRadio(r, i)
  /\ UNCHANGED <<contacts, messages, radioId, conn, device, drainVars, scan, deviceVars, wire>>

IngestContacts(r, c) ==
  /\ \E i \in Ids : ResolveRadio(r, i) /\ UpsertContact(i, c)
  /\ UNCHANGED <<radioId, conn, device, drainVars, scan, deviceVars, wire>>

---------------------------------------------------------------------------
(* Pulling messages off the radio.                                         *)

\* Faulty variant: the identity depends on who the sender is known to be.
IdentityByContact(i, f) ==
  LET found == Matching(contacts[i], Sender[f])
  IN  <<i, IF Cardinality(found) = 1 THEN CHOOSE c \in found : TRUE ELSE Sender[f], f>>

\* inboundFrameId: the radio, the sender as the frame names it, and its contents.
Identity(i, f) == <<i, Sender[f], f>>

InsertMessage(i, f) ==
  LET found == Matching(contacts[i], Sender[f]) IN
  messages' = IF \E m \in messages : m.id = Identity(i, f) THEN messages
              ELSE messages \cup {[id |-> Identity(i, f), row |-> i, frame |-> f,
                                   key |-> IF Cardinality(found) = 1 THEN CHOOSE c \in found : TRUE
                                           ELSE NoContact]}

\* drainConnection: one drain at a time; a call during it is remembered.
DrainConnection ==
  IF drain = "idle" THEN drain' = "asking" /\ failed' = FALSE /\ UNCHANGED <<answer, again>>
  ELSE again' = TRUE /\ UNCHANGED <<drain, answer, failed>>

\* Faulty variant: the calls during a drain are forgotten.
EndDrainForgetting(error) ==
  /\ drain' = "idle" /\ failed' = error
  /\ answer' = NoFrame /\ again' = FALSE

\* The finally of a drain, which ended with or without an error.
EndDrain(error) ==
  /\ drain' = IF again THEN "asking" ELSE "idle"
  /\ failed' = (error /\ ~again)
  /\ answer' = NoFrame /\ again' = FALSE

RadioAnswers ==
  /\ drain = "asking" /\ drain' = "coming"
  /\ IF waiting[device] = <<>>
     THEN wire' = Append(wire, NoFrame) /\ UNCHANGED waiting
     ELSE /\ wire' = Append(wire, Head(waiting[device]))
          /\ waiting' = [waiting EXCEPT ![device] = Tail(@)]
  /\ UNCHANGED <<tableVars, contacts, messages, radioId, conn, device, answer, again, failed, scan, arrivals>>

\* An event of the connection: a push, or the answer that settles the request.
Receive ==
  /\ wire # <<>> /\ wire' = Tail(wire)
  /\ IF Head(wire) = MsgWaiting THEN DrainConnection
     ELSE drain' = "here" /\ answer' = Head(wire) /\ UNCHANGED <<again, failed>>
  /\ UNCHANGED <<tableVars, contacts, messages, radioId, conn, device, scan, deviceVars>>

\* The drain goes on after its await.  Without an identity the frame is lost.
HandleIncoming ==
  /\ drain = "here"
  /\ IF answer = NoFrame \/ radioId = 0
     THEN EndDrain(answer # NoFrame) /\ UNCHANGED messages
     ELSE /\ InsertMessage(radioId, answer)
          /\ drain' = "asking" /\ answer' = NoFrame /\ UNCHANGED <<again, failed>>
  /\ UNCHANGED <<tableVars, contacts, radioId, conn, device, scan, deviceVars, wire>>

\* The request could not be made.
DrainFails ==
  /\ drain = "asking" /\ EndDrain(TRUE)
  /\ UNCHANGED <<tableVars, contacts, messages, radioId, conn, device, scan, deviceVars, wire>>

---------------------------------------------------------------------------
(* The link.                                                               *)

Connect(r) ==
  /\ conn = "down" /\ conn' = "open" /\ device' = r
  /\ UNCHANGED <<tableVars, contacts, messages, radioId, drainVars, scan, deviceVars, wire>>

\* getSelfInfo has answered; the listeners were attached long before.
Identify ==
  /\ conn = "open" /\ conn' = "identified"
  /\ \E i \in Ids : ResolveRadio(device, i) /\ radioId' = i
  /\ UNCHANGED <<contacts, messages, device, drainVars, scan, deviceVars, wire>>

SyncDrain ==
  /\ conn = "scanned" /\ conn' = "synced" /\ DrainConnection
  /\ UNCHANGED <<tableVars, contacts, messages, radioId, device, scan, deviceVars, wire>>

\* The abort ends the drain and the scans; what is on its way is lost.
Lost ==
  /\ device' = NoRadio /\ wire' = <<>> /\ scan' = [w \in Scanners |-> {}]
  /\ drain' = "idle" /\ answer' = NoFrame /\ again' = FALSE /\ failed' = FALSE
  /\ UNCHANGED <<tableVars, contacts, messages, radioId, deviceVars>>

Teardown == Up /\ conn' = "down" /\ Lost
Restart  == conn' = "absent" /\ Lost

\* start() reaches the link, which takes up the radio it had.
LinkCreated ==
  /\ conn = "absent" /\ conn' = "down"
  /\ UNCHANGED <<tableVars, contacts, messages, radioId, device, drainVars, scan, deviceVars, wire>>

---------------------------------------------------------------------------
(* The mesh and the radios.                                                *)

\* A frame, or once more the same frame, reaches its radio.
Arrives(f) ==
  /\ arrivals < MaxArrivals /\ arrivals' = arrivals + 1
  /\ waiting' = [waiting EXCEPT ![Home[f]] = Append(@, f)]
  /\ wire' = IF device = Home[f] THEN Append(wire, MsgWaiting) ELSE wire
  /\ UNCHANGED <<tableVars, contacts, messages, radioId, conn, device, drainVars, scan>>

Next ==
  \/ EnsurePlaceholderRadio \/ \E i \in Ids : ForgetRadio(i)
  \/ \E w \in Scanners : ScanAnswered(w) \/ ApplyContactScan(w)
  \/ \E c \in Contacts : NewAdvert(c) \/ RemoveContact(c)
  \/ \E r \in Radios : IngestSelf(r) \/ Connect(r)
  \/ \E r \in Radios, c \in Contacts : IngestContacts(r, c)
  \/ RadioAnswers \/ Receive \/ HandleIncoming \/ DrainFails
  \/ Identify \/ SyncDrain \/ Teardown \/ Restart \/ LinkCreated
  \/ \E f \in Frames : Arrives(f)

Spec == Init /\ [][Next]_vars

\* A connection that is up carries what is sent, and a settled promise goes on.
FairSpec == Spec /\ WF_vars(RadioAnswers) /\ WF_vars(Receive) /\ WF_vars(HandleIncoming)

---------------------------------------------------------------------------
(* Properties.                                                             *)

\* A physical radio has one row, and there is one placeholder, whoever names the
\* radio first: a link, a browser session or a message sent before either.
OneRowPerRadio == \A i, j \in rows : owner[i] = owner[j] => i = j

\* From its identification on, a link writes to the row of the radio at its end:
\* no forgetting, restart or ingest takes that row away meanwhile.
IdentityHolds ==
  conn \in {"identified", "scanned", "synced"} => radioId \in rows /\ owner[radioId] = device

\* However often a radio hands out a frame, and whatever contacts come and go in
\* between, a radio's history has it once.
StoredOnce == \A m, n \in messages : m.row = n.row /\ m.frame = n.frame => m = n

\* A message that has found its contact keeps it, though contacts are removed and
\* others with the same prefix appear.
AttributionKept ==
  [][\A m \in messages : m.key # NoContact /\ m.row \in rows' => m \in messages']_vars

\* A second scan of the same contacts leaves no message without its contact if
\* exactly one has the prefix, in whatever order contacts and messages came.
ScanResolves ==
  [][\A w \in Scanners : ApplyContactScan(w) /\ contacts' = contacts =>
       \A m \in messages' : m.row = radioId /\ m.key = NoContact =>
         Cardinality(Matching(contacts[radioId], Sender[m.frame])) # 1]_vars

\* Everything a radio holds is pulled off it once the link stays synced: no push
\* is lost between a drain that ends and one that begins.  A failed drain is
\* taken up again by the next push or connection only.
QueueDrained == <>[](conn = "synced" /\ ~failed) => <>[](\A r \in Radios : device = r => waiting[r] = <<>>)
=============================================================================
