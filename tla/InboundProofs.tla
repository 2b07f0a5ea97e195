--------------------------- MODULE InboundProofs ---------------------------
(***************************************************************************)
(* Proofs about InboundMessages, for any radios, contacts, frames and any  *)
(* order of identifications, ingests, scans, drains and losses.            *)
(***************************************************************************)
EXTENDS InboundMessages, FiniteSetTheorems, TLAPS

\* Messages carry the identity of their frame, and have distinct ones.
MessagesOK ==
  /\ messages \subseteq Message
  /\ \A m \in messages : m.id = Identity(m.row, m.frame)
  /\ \A m, n \in messages : m.id = n.id => m = n

TableOK ==
  /\ created \in 0..MaxRows /\ rows \subseteq 1..created
  /\ owner \in [Ids -> Radios \cup {NoRadio}]
  /\ OneRowPerRadio

LinkOK ==
  /\ radioId \in 0..created
  /\ conn \in {"absent", "down", "open", "identified", "scanned", "synced"}
  /\ device \in Radios \cup {NoRadio} /\ (Up <=> device # NoRadio)
  /\ IdentityHolds

DrainOK ==
  /\ drain \in {"idle", "asking", "coming", "here"} /\ (drain # "idle" => Up)
  /\ answer \in Frames \cup {NoFrame}
  /\ waiting \in [Radios -> Seq(Frames)] /\ (wire # <<>> => Up)
  /\ wire \in Seq(Frames \cup {NoFrame, MsgWaiting}) /\ arrivals \in 0..MaxArrivals

FlagsOK == again \in BOOLEAN /\ failed \in BOOLEAN

ScanOK ==
  /\ contacts \in [Ids -> SUBSET Contacts] /\ scan \in [Scanners -> SUBSET SUBSET Contacts]
  /\ (scan["sync"] # {} => conn = "identified")

IInv == TableOK /\ LinkOK /\ DrainOK /\ FlagsOK /\ ScanOK /\ MessagesOK

---------------------------------------------------------------------------

LEMMA InvariantImplies == IInv => TypeOK /\ OneRowPerRadio /\ IdentityHolds /\ StoredOnce
<1> SUFFICES ASSUME IInv PROVE TypeOK /\ OneRowPerRadio /\ IdentityHolds /\ StoredOnce
  OBVIOUS
<1>1. StoredOnce
  BY DEF IInv, MessagesOK, StoredOnce, Identity
<1>2. FlagsOK
  BY DEF IInv
<1>3. TypeOK
  BY <1>2, Zenon DEF IInv, TableOK, LinkOK, DrainOK, FlagsOK, ScanOK, MessagesOK, TypeOK
<1> QED
  BY <1>1, <1>3 DEF IInv, TableOK, LinkOK

LEMMA InitInvariant == Init => IInv
<1> SUFFICES ASSUME Init PROVE IInv
  OBVIOUS
<1>1. TableOK
  BY InboundAssumption DEF Init, TableOK, OneRowPerRadio
<1>2. LinkOK
  BY InboundAssumption DEF Init, LinkOK, IdentityHolds, Up
<1>3. DrainOK
  BY InboundAssumption DEF Init, DrainOK
<1>4. FlagsOK
  BY Zenon DEF Init, FlagsOK
<1>5. ScanOK /\ MessagesOK
  BY DEF Init, ScanOK, MessagesOK, Scanners
<1> QED
  BY <1>1, <1>2, <1>3, <1>4, <1>5 DEF IInv

---------------------------------------------------------------------------
(* The radios table.                                                       *)

\* Naming a radio keeps the table in order, answers its row, and takes no row away
\* from another radio.
LEMMA ResolveOK ==
  ASSUME TableOK, NEW r \in Radios, NEW i \in Ids, ResolveRadio(r, i)
  PROVE  /\ TableOK' /\ i \in rows' /\ owner'[i] = r
         /\ rows \subseteq rows' /\ created <= created' /\ created \in Nat /\ created' \in Nat
         /\ \A j \in rows : owner[j] # NoRadio => owner'[j] = owner[j]
<1>1. r # NoRadio /\ MaxRows \in Nat
  BY InboundAssumption
<1>2. CASE i \in Known(r) /\ UNCHANGED tableVars
  BY <1>1, <1>2 DEF TableOK, OneRowPerRadio, Known, tableVars
<1>3. CASE Known(r) = {} /\ Claim(i, r)
  BY <1>1, <1>3 DEF TableOK, OneRowPerRadio, Known, Claim, Placeholders, Ids
<1>4. CASE Known(r) = {} /\ Placeholders = {} /\ AddRow(i, r)
  BY <1>1, <1>4 DEF TableOK, OneRowPerRadio, Known, AddRow, Placeholders, Ids
<1> QED
  BY <1>2, <1>3, <1>4 DEF ResolveRadio

\* A link that has found its radio is not disturbed by it.
LEMMA LinkKept ==
  ASSUME IInv, rows \subseteq rows', created <= created', created' \in Nat,
         \A j \in rows : owner[j] # NoRadio => owner'[j] = owner[j],
         radioId' = radioId, conn' = conn, device' = device
  PROVE  LinkOK'
<1>1. Up' <=> Up
  BY DEF Up
<1>2. conn \in {"identified", "scanned", "synced"} => device # NoRadio
  BY DEF IInv, LinkOK, Up
<1>3. created \in Nat
  BY InboundAssumption DEF IInv, TableOK
<1> QED
  BY <1>1, <1>2, <1>3 DEF IInv, LinkOK, IdentityHolds

LEMMA PlaceholderOK ==
  ASSUME IInv, EnsurePlaceholderRadio
  PROVE  IInv'
<1>1. PICK i \in Ids : AddRow(i, NoRadio)
  BY DEF EnsurePlaceholderRadio
<1>2. MaxRows \in Nat /\ rows = {}
  BY InboundAssumption DEF EnsurePlaceholderRadio
<1>3. TableOK' /\ rows \subseteq rows' /\ created <= created' /\ created' \in Nat
  BY <1>1, <1>2 DEF AddRow, IInv, TableOK, OneRowPerRadio, Ids
<1>4. LinkOK'
  BY <1>2, <1>3, LinkKept DEF EnsurePlaceholderRadio
<1>5. DrainOK' /\ FlagsOK' /\ ScanOK' /\ MessagesOK'
  BY DEF EnsurePlaceholderRadio, IInv, DrainOK, FlagsOK, ScanOK, MessagesOK, drainVars, deviceVars, Up, Identity
<1> QED
  BY <1>3, <1>4, <1>5 DEF IInv

LEMMA ForgetOK ==
  ASSUME IInv, NEW i \in Ids, ForgetRadio(i)
  PROVE  IInv'
<1>1. TableOK'
  BY DEF ForgetRadio, IInv, TableOK, OneRowPerRadio
<1>2. LinkOK'
  BY DEF ForgetRadio, InUse, IInv, LinkOK, TableOK, IdentityHolds, Up
<1>3. DrainOK' /\ FlagsOK'
  BY DEF ForgetRadio, IInv, DrainOK, FlagsOK, drainVars, deviceVars, Up
<1>4. ScanOK' /\ MessagesOK'
  BY DEF ForgetRadio, IInv, ScanOK, MessagesOK, Identity
<1> QED
  BY <1>1, <1>2, <1>3, <1>4 DEF IInv

---------------------------------------------------------------------------
(* Contacts and messages.                                                  *)

\* Attributing messages changes nothing but their key.
LEMMA ReconcileOK ==
  ASSUME MessagesOK, NEW i, NEW known \in SUBSET Contacts, NEW first \in Orders(known),
         messages' = Reconcile(i, first)
  PROVE  /\ MessagesOK'
         /\ \A m \in messages : m.key # NoContact => m \in messages'
<1> DEFINE Due(m) == /\ m.row = i /\ m.key = NoContact
                     /\ first[Sender[m.frame]] # NoContact
                     /\ Matching(contacts[i], Sender[m.frame]) \subseteq {first[Sender[m.frame]]}
           Image(m) == IF Due(m) THEN [m EXCEPT !.key = first[Sender[m.frame]]] ELSE m
<1>1. \A m \in messages : m \in Message /\ first[Sender[m.frame]] \in Contacts \cup {NoContact}
  BY DEF Orders, Prefixes, MessagesOK, Message
<1>2. ASSUME NEW m \in Message, NEW k \in Contacts \cup {NoContact}
      PROVE  LET d == [m EXCEPT !.key = k]
             IN  d \in Message /\ d.id = m.id /\ d.row = m.row /\ d.frame = m.frame
  BY DEF Message
<1>3. messages' = {Image(m) : m \in messages}
  BY DEF Reconcile
<1>4. ASSUME NEW m \in messages
      PROVE  Image(m) \in Message /\ Image(m).id = m.id /\ Image(m).row = m.row /\ Image(m).frame = m.frame
  <2>1. CASE Due(m)
    BY <1>1, <1>2, <2>1
  <2>2. CASE ~Due(m)
    BY <1>1, <2>2
  <2> QED
    BY <2>1, <2>2
<1>5. \A m \in messages : m.key # NoContact => Image(m) = m
  OBVIOUS
<1> HIDE DEF Image
<1>6. messages' \subseteq Message
  BY <1>3, <1>4
<1>7. \A d \in messages' : d.id = <<d.row, Sender[d.frame], d.frame>>
  BY <1>3, <1>4 DEF MessagesOK, Identity
<1>8. \A d, e \in messages' : d.id = e.id => d = e
  BY <1>3, <1>4 DEF MessagesOK
<1>9. \A m \in messages : m.key # NoContact => m \in messages'
  BY <1>3, <1>5
<1> QED
  BY <1>6, <1>7, <1>8, <1>9 DEF MessagesOK, Identity

\* Storing one contact, and storing what a scan listed.
LEMMA UpsertOK ==
  ASSUME ScanOK, MessagesOK, NEW i \in Ids, NEW c \in Contacts, UpsertContact(i, c)
  PROVE  /\ contacts' \in [Ids -> SUBSET Contacts] /\ MessagesOK'
         /\ \A m \in messages : m.key # NoContact => m \in messages'
<1>1. PICK first \in Orders({c}) : messages' = Reconcile(i, first)
  BY DEF UpsertContact
<1>2. contacts' \in [Ids -> SUBSET Contacts]
  BY DEF UpsertContact, ScanOK
<1> QED
  BY <1>1, <1>2, ReconcileOK

LEMMA SyncOK ==
  ASSUME ScanOK, MessagesOK, NEW i \in Ids, NEW listed \in SUBSET Contacts, SyncContacts(i, listed)
  PROVE  /\ contacts' \in [Ids -> SUBSET Contacts] /\ MessagesOK'
         /\ \A m \in messages : m.key # NoContact => m \in messages'
<1>1. PICK first \in Orders(listed) : messages' = Reconcile(i, first)
  BY DEF SyncContacts
<1>2. contacts' \in [Ids -> SUBSET Contacts]
  BY DEF SyncContacts, ScanOK
<1> QED
  BY <1>1, <1>2, ReconcileOK

\* The radio a link has found is one of the table's ids.
LEMMA RadioIdOK ==
  ASSUME IInv, radioId # 0
  PROVE  radioId \in Ids
<1> QED
  BY InboundAssumption DEF IInv, TableOK, LinkOK, Ids

LEMMA ApplyOK ==
  ASSUME IInv, NEW w \in Scanners, ApplyContactScan(w)
  PROVE  IInv' /\ \A m \in messages : m.key # NoContact => m \in messages'
<1>1. conn' = conn \/ (conn = "identified" /\ conn' = "scanned")
  BY DEF ApplyContactScan, IInv, ScanOK
<1>2. TableOK' /\ UNCHANGED tableVars
  BY DEF ApplyContactScan, IInv, TableOK, OneRowPerRadio, tableVars
<1>3. LinkOK' /\ (Up' <=> Up)
  BY <1>1, <1>2 DEF ApplyContactScan, IInv, LinkOK, IdentityHolds, Up, tableVars
<1>4. DrainOK' /\ FlagsOK'
  BY <1>3 DEF ApplyContactScan, IInv, DrainOK, FlagsOK, drainVars, deviceVars
<1>5. scan' \in [Scanners -> SUBSET SUBSET Contacts] /\ (scan'["sync"] # {} => conn' = "identified")
  BY DEF ApplyContactScan, IInv, ScanOK, Scanners
<1>6. PICK listed \in SUBSET Contacts :
        IF radioId = 0 THEN UNCHANGED <<contacts, messages>> ELSE SyncContacts(radioId, listed)
  BY DEF ApplyContactScan, IInv, ScanOK
<1>7. /\ contacts' \in [Ids -> SUBSET Contacts] /\ MessagesOK'
      /\ \A m \in messages : m.key # NoContact => m \in messages'
  <2>1. CASE radioId = 0
    BY <1>6, <2>1 DEF IInv, ScanOK, MessagesOK, Identity
  <2>2. CASE radioId # 0
    BY <1>6, <2>2, RadioIdOK, SyncOK DEF IInv
  <2> QED
    BY <2>1, <2>2
<1> QED
  BY <1>2, <1>3, <1>4, <1>5, <1>7 DEF IInv, ScanOK

LEMMA ScanAnsweredOK ==
  ASSUME IInv, NEW w \in Scanners, ScanAnswered(w)
  PROVE  IInv'
<1>1. PICK listed \in SUBSET Contacts : scan' = [scan EXCEPT ![w] = {listed}]
  BY DEF ScanAnswered
<1>2. ScanOK'
  BY <1>1 DEF ScanAnswered, IInv, ScanOK
<1>3. TableOK' /\ LinkOK'
  BY DEF ScanAnswered, IInv, TableOK, LinkOK, OneRowPerRadio, IdentityHolds, tableVars, Up
<1>4. DrainOK' /\ FlagsOK' /\ MessagesOK'
  BY DEF ScanAnswered, IInv, DrainOK, FlagsOK, MessagesOK, Identity, drainVars, deviceVars, Up
<1> QED
  BY <1>2, <1>3, <1>4 DEF IInv

LEMMA ContactOK ==
  ASSUME IInv, NEW c \in Contacts, NewAdvert(c) \/ RemoveContact(c)
  PROVE  IInv' /\ \A m \in messages : m.key # NoContact => m \in messages'
<1>1. UNCHANGED <<tableVars, radioId, conn, device, drainVars, scan, deviceVars, wire>> /\ radioId \in Ids
  BY RadioIdOK DEF NewAdvert, RemoveContact
<1>2. TableOK' /\ LinkOK' /\ DrainOK' /\ FlagsOK'
  BY <1>1 DEF IInv, TableOK, LinkOK, DrainOK, FlagsOK, OneRowPerRadio, IdentityHolds,
              tableVars, drainVars, deviceVars, Up
<1>3. /\ contacts' \in [Ids -> SUBSET Contacts] /\ MessagesOK'
      /\ \A m \in messages : m.key # NoContact => m \in messages'
  <2>1. CASE NewAdvert(c)
    BY <1>1, <2>1, UpsertOK DEF NewAdvert, IInv
  <2>2. CASE RemoveContact(c)
    BY <1>1, <2>2 DEF RemoveContact, IInv, ScanOK, MessagesOK, Identity
  <2> QED
    BY <2>1, <2>2
<1> QED
  BY <1>1, <1>2, <1>3 DEF IInv, ScanOK

LEMMA IngestSelfOK ==
  ASSUME IInv, NEW r \in Radios, IngestSelf(r)
  PROVE  IInv'
<1>1. PICK i \in Ids : ResolveRadio(r, i)
  BY DEF IngestSelf
<1>2. TableOK' /\ LinkOK'
  BY <1>1, ResolveOK, LinkKept DEF IngestSelf, IInv
<1>3. DrainOK' /\ FlagsOK' /\ ScanOK' /\ MessagesOK'
  BY DEF IngestSelf, IInv, DrainOK, FlagsOK, ScanOK, MessagesOK, drainVars, deviceVars, Up, Identity
<1> QED
  BY <1>2, <1>3 DEF IInv

LEMMA IngestContactsOK ==
  ASSUME IInv, NEW r \in Radios, NEW c \in Contacts, IngestContacts(r, c)
  PROVE  IInv' /\ \A m \in messages : m.key # NoContact => m \in messages'
<1>1. PICK i \in Ids : ResolveRadio(r, i) /\ UpsertContact(i, c)
  BY DEF IngestContacts
<1>2. TableOK' /\ LinkOK'
  BY <1>1, ResolveOK, LinkKept DEF IngestContacts, IInv
<1>3. /\ contacts' \in [Ids -> SUBSET Contacts] /\ MessagesOK'
      /\ \A m \in messages : m.key # NoContact => m \in messages'
  BY <1>1, UpsertOK DEF IInv
<1>4. DrainOK' /\ FlagsOK'
  BY DEF IngestContacts, IInv, DrainOK, FlagsOK, drainVars, deviceVars, Up
<1> QED
  BY <1>2, <1>3, <1>4 DEF IngestContacts, IInv, ScanOK

---------------------------------------------------------------------------
(* Pulling messages.                                                       *)

\* What is stored is a message whose identity no other has.
LEMMA InsertOK ==
  ASSUME ScanOK, MessagesOK, NEW i \in Ids, NEW f \in Frames, InsertMessage(i, f)
  PROVE  MessagesOK' /\ messages \subseteq messages'
<1> DEFINE found == Matching(contacts[i], Sender[f])
           new == [id |-> Identity(i, f), row |-> i, frame |-> f,
                   key |-> IF Cardinality(found) = 1 THEN CHOOSE c \in found : TRUE ELSE NoContact]
<1>1. found \subseteq Contacts
  BY DEF ScanOK, Matching
<1>2. Cardinality(found) = 1 => found # {}
  BY FS_EmptySet
<1>3. new.key \in Contacts \cup {NoContact}
  <2>1. CASE Cardinality(found) = 1
    <3>1. PICK c : c \in found
      BY <1>2, <2>1
    <3>2. (CHOOSE d \in found : TRUE) \in found
      BY <3>1
    <3> QED
      BY <1>1, <2>1, <3>2
  <2>2. CASE Cardinality(found) # 1
    BY <2>2
  <2> QED
    BY <2>1, <2>2
<1>4. new \in Message /\ new.id = Identity(new.row, new.frame)
  <2>1. Identity(i, f) \in Ids \X {Sender[g] : g \in Frames} \X Frames
    BY DEF Identity
  <2> QED
    BY <1>3, <2>1 DEF Message
<1>5. CASE \E m \in messages : m.id = Identity(i, f)
  BY <1>5 DEF InsertMessage, MessagesOK, Identity
<1>6. CASE ~\E m \in messages : m.id = Identity(i, f)
  <2>1. messages' = messages \cup {new}
    BY <1>6 DEF InsertMessage
  <2>2. \A m \in messages : m.id # new.id
    BY <1>6
  <2> HIDE DEF new
  <2>3. \A m, n \in messages' : m.id = n.id => m = n
    BY <2>1, <2>2 DEF MessagesOK
  <2>4. \A m \in messages' : m.id = <<m.row, Sender[m.frame], m.frame>>
    BY <1>4, <2>1 DEF MessagesOK, Identity
  <2> QED
    BY <1>4, <2>1, <2>3, <2>4 DEF MessagesOK, Identity
<1> QED
  BY <1>5, <1>6

\* A call of drainConnection, and the end of a drain, leave the drain's state in order.
LEMMA DrainCalled ==
  ASSUME DrainOK, FlagsOK, Up, DrainConnection
  PROVE  /\ drain' \in {"idle", "asking", "coming", "here"}
         /\ answer' \in Frames \cup {NoFrame} /\ FlagsOK'
<1>1. FlagsOK'
  BY Zenon DEF FlagsOK, DrainConnection
<1> QED
  BY <1>1 DEF DrainOK, DrainConnection

LEMMA DrainEnded ==
  ASSUME FlagsOK, NEW error \in BOOLEAN, EndDrain(error)
  PROVE  drain' \in {"idle", "asking"} /\ answer' \in Frames \cup {NoFrame} /\ FlagsOK'
<1>1. FlagsOK'
  BY Zenon DEF FlagsOK, EndDrain
<1> QED
  BY <1>1 DEF EndDrain

LEMMA RadioAnswersOK ==
  ASSUME IInv, RadioAnswers
  PROVE  IInv'
<1>1. Up /\ device \in Radios
  BY DEF IInv, DrainOK, LinkOK, RadioAnswers
<1>2. waiting[device] \in Seq(Frames)
  BY <1>1 DEF IInv, DrainOK
<1>3. /\ waiting' \in [Radios -> Seq(Frames)]
      /\ wire' \in Seq(Frames \cup {NoFrame, MsgWaiting})
  <2>1. CASE waiting[device] = <<>>
    <3>1. wire' = Append(wire, NoFrame) /\ waiting' = waiting
      BY <2>1 DEF RadioAnswers
    <3> QED
      BY <3>1 DEF IInv, DrainOK
  <2>2. CASE waiting[device] # <<>>
    <3>1. Head(waiting[device]) \in Frames /\ Tail(waiting[device]) \in Seq(Frames)
      BY <1>2, <2>2
    <3>2. /\ wire' = Append(wire, Head(waiting[device]))
          /\ waiting' = [waiting EXCEPT ![device] = Tail(@)]
      BY <2>2 DEF RadioAnswers
    <3>3. wire' \in Seq(Frames \cup {NoFrame, MsgWaiting})
      BY <3>1, <3>2 DEF IInv, DrainOK
    <3> QED
      BY <3>1, <3>2, <3>3 DEF IInv, DrainOK
  <2> QED
    BY <2>1, <2>2
<1>4. DrainOK'
  BY <1>1, <1>3 DEF RadioAnswers, IInv, DrainOK, Up
<1>5. FlagsOK'
  BY Zenon DEF RadioAnswers, IInv, FlagsOK
<1>6. TableOK' /\ LinkOK' /\ ScanOK' /\ MessagesOK'
  BY DEF RadioAnswers, IInv, TableOK, LinkOK, ScanOK, MessagesOK, OneRowPerRadio, IdentityHolds,
         Identity, tableVars, Up
<1> QED
  BY <1>4, <1>5, <1>6 DEF IInv

LEMMA ReceiveOK ==
  ASSUME IInv, Receive
  PROVE  IInv'
<1>1. wire # <<>> /\ Up /\ wire \in Seq(Frames \cup {NoFrame, MsgWaiting})
  BY DEF IInv, DrainOK, Receive
<1>2. Head(wire) \in Frames \cup {NoFrame, MsgWaiting} /\ wire' \in Seq(Frames \cup {NoFrame, MsgWaiting})
  BY <1>1 DEF Receive
<1>3. /\ drain' \in {"idle", "asking", "coming", "here"}
      /\ answer' \in Frames \cup {NoFrame} /\ FlagsOK'
  <2>1. CASE Head(wire) = MsgWaiting
    BY <1>1, <2>1, DrainCalled DEF Receive, IInv
  <2>2. CASE Head(wire) # MsgWaiting
    <3>1. FlagsOK'
      BY <2>2, Zenon DEF Receive, IInv, FlagsOK
    <3> QED
      BY <1>2, <2>2, <3>1 DEF Receive
  <2> QED
    BY <2>1, <2>2
<1>4. DrainOK'
  BY <1>1, <1>2, <1>3 DEF Receive, IInv, DrainOK, deviceVars, Up
<1>5. TableOK' /\ LinkOK' /\ ScanOK' /\ MessagesOK'
  BY DEF Receive, IInv, TableOK, LinkOK, ScanOK, MessagesOK, OneRowPerRadio, IdentityHolds,
         Identity, tableVars, Up
<1> QED
  BY <1>3, <1>4, <1>5 DEF IInv

LEMMA HandleIncomingOK ==
  ASSUME IInv, HandleIncoming
  PROVE  IInv' /\ messages \subseteq messages'
<1>1. UNCHANGED <<tableVars, contacts, radioId, conn, device, scan, deviceVars, wire>> /\ Up
  BY DEF HandleIncoming, IInv, DrainOK
<1>2. /\ drain' \in {"idle", "asking"} /\ answer' \in Frames \cup {NoFrame} /\ FlagsOK'
      /\ MessagesOK' /\ messages \subseteq messages'
  <2>1. CASE answer = NoFrame \/ radioId = 0
    <3>1. EndDrain(answer # NoFrame) /\ messages' = messages
      BY <2>1 DEF HandleIncoming
    <3>2. (answer # NoFrame) \in BOOLEAN
      OBVIOUS
    <3>3. drain' \in {"idle", "asking"} /\ answer' \in Frames \cup {NoFrame} /\ FlagsOK'
      BY <3>1, <3>2, DrainEnded DEF IInv
    <3> QED
      BY <3>1, <3>3 DEF IInv, MessagesOK, Identity
  <2>2. CASE ~(answer = NoFrame \/ radioId = 0)
    <3>1. InsertMessage(radioId, answer) /\ drain' = "asking" /\ answer' = NoFrame
      BY <2>2 DEF HandleIncoming
    <3>2. again' = again /\ failed' = failed
      BY <2>2 DEF HandleIncoming
    <3>3. FlagsOK'
      BY <3>2, Zenon DEF IInv, FlagsOK
    <3>4. answer \in Frames /\ radioId \in Ids
      BY <2>2, RadioIdOK DEF IInv, DrainOK
    <3> QED
      BY <3>1, <3>3, <3>4, InsertOK DEF IInv
  <2> QED
    BY <2>1, <2>2
<1>3. DrainOK' /\ TableOK' /\ LinkOK' /\ ScanOK'
  BY <1>1, <1>2 DEF IInv, DrainOK, TableOK, LinkOK, ScanOK, OneRowPerRadio, IdentityHolds,
                    tableVars, deviceVars, Up
<1> QED
  BY <1>2, <1>3 DEF IInv

LEMMA DrainFailsOK ==
  ASSUME IInv, DrainFails
  PROVE  IInv'
<1>1. UNCHANGED <<tableVars, contacts, messages, radioId, conn, device, scan, deviceVars, wire>> /\ Up
  BY DEF DrainFails, IInv, DrainOK
<1>2. drain' \in {"idle", "asking"} /\ answer' \in Frames \cup {NoFrame} /\ FlagsOK'
  BY DrainEnded DEF DrainFails, IInv
<1>3. DrainOK' /\ TableOK' /\ LinkOK'
  BY <1>1, <1>2 DEF IInv, DrainOK, TableOK, LinkOK, OneRowPerRadio, IdentityHolds,
                    tableVars, deviceVars, Up
<1>4. ScanOK' /\ MessagesOK'
  BY <1>1 DEF IInv, ScanOK, MessagesOK, Identity
<1> QED
  BY <1>2, <1>3, <1>4 DEF IInv

---------------------------------------------------------------------------
(* The link, and the mesh.                                                 *)

LEMMA ConnectOK ==
  ASSUME IInv, NEW r \in Radios, Connect(r)
  PROVE  IInv'
<1>1. Up' /\ ~Up /\ r # NoRadio
  BY InboundAssumption DEF Connect, Up
<1>2. TableOK' /\ LinkOK'
  BY <1>1 DEF Connect, IInv, TableOK, LinkOK, OneRowPerRadio, IdentityHolds, tableVars
<1>3. DrainOK' /\ FlagsOK' /\ ScanOK' /\ MessagesOK'
  BY <1>1 DEF Connect, IInv, DrainOK, FlagsOK, ScanOK, MessagesOK, Identity, drainVars, deviceVars
<1> QED
  BY <1>2, <1>3 DEF IInv

LEMMA IdentifyOK ==
  ASSUME IInv, Identify
  PROVE  IInv'
<1>1. PICK i \in Ids : ResolveRadio(device, i) /\ radioId' = i
  BY DEF Identify
<1>2. Up /\ Up' /\ device \in Radios /\ device # NoRadio
  BY InboundAssumption DEF Identify, IInv, LinkOK, Up
<1>3. TableOK' /\ i \in rows' /\ owner'[i] = device
  BY <1>1, <1>2, ResolveOK DEF IInv
<1>4. LinkOK'
  <2>1. i \in 0..created'
    BY <1>3, InboundAssumption DEF TableOK
  <2> QED
    BY <1>1, <1>2, <1>3, <2>1 DEF Identify, IInv, LinkOK, IdentityHolds
<1>5. DrainOK' /\ FlagsOK' /\ ScanOK' /\ MessagesOK'
  BY <1>2 DEF Identify, IInv, DrainOK, FlagsOK, ScanOK, MessagesOK, Identity, drainVars, deviceVars
<1> QED
  BY <1>3, <1>4, <1>5 DEF IInv

LEMMA SyncDrainOK ==
  ASSUME IInv, SyncDrain
  PROVE  IInv'
<1>1. Up /\ Up' /\ UNCHANGED <<tableVars, contacts, messages, radioId, device, scan, deviceVars, wire>>
  BY DEF SyncDrain, Up
<1>2. drain' \in {"idle", "asking", "coming", "here"} /\ answer' \in Frames \cup {NoFrame} /\ FlagsOK'
  BY <1>1, DrainCalled DEF SyncDrain, IInv
<1>3. TableOK' /\ LinkOK' /\ DrainOK'
  BY <1>1, <1>2 DEF SyncDrain, IInv, TableOK, LinkOK, DrainOK, OneRowPerRadio, IdentityHolds,
                    tableVars, deviceVars
<1>4. ScanOK' /\ MessagesOK'
  BY <1>1 DEF SyncDrain, IInv, ScanOK, MessagesOK, Identity
<1> QED
  BY <1>2, <1>3, <1>4 DEF IInv

\* Whatever was under way ends with the connection.
LEMMA LostOK ==
  ASSUME IInv, Lost, conn' \in {"absent", "down"}
  PROVE  IInv'
<1>1. ~Up' /\ UNCHANGED <<tableVars, contacts, messages, radioId, deviceVars>>
  BY DEF Lost, Up
<1>2. TableOK' /\ LinkOK'
  BY <1>1 DEF Lost, IInv, TableOK, LinkOK, OneRowPerRadio, IdentityHolds, tableVars
<1>3. DrainOK' /\ FlagsOK'
  <2>1. drain' = "idle" /\ answer' = NoFrame /\ wire' = <<>> /\ waiting' = waiting /\ arrivals' = arrivals
    BY DEF Lost, deviceVars
  <2>2. DrainOK'
    BY <1>1, <2>1 DEF IInv, DrainOK
  <2>3. FlagsOK'
    BY Zenon DEF Lost, FlagsOK
  <2> QED
    BY <2>2, <2>3
<1>4. ScanOK' /\ MessagesOK'
  BY <1>1 DEF Lost, IInv, ScanOK, MessagesOK, Identity, Scanners
<1> QED
  BY <1>2, <1>3, <1>4 DEF IInv

LEMMA LinkCreatedOK ==
  ASSUME IInv, LinkCreated
  PROVE  IInv'
<1>1. ~Up /\ ~Up'
  BY DEF LinkCreated, Up
<1>2. TableOK' /\ LinkOK'
  BY <1>1 DEF LinkCreated, IInv, TableOK, LinkOK, OneRowPerRadio, IdentityHolds, tableVars
<1>3. DrainOK' /\ FlagsOK' /\ ScanOK' /\ MessagesOK'
  BY <1>1 DEF LinkCreated, IInv, DrainOK, FlagsOK, ScanOK, MessagesOK, Identity, drainVars, deviceVars
<1> QED
  BY <1>2, <1>3 DEF IInv

LEMMA ArrivesOK ==
  ASSUME IInv, NEW f \in Frames, Arrives(f)
  PROVE  IInv'
<1>1. Home[f] \in Radios /\ Home[f] # NoRadio /\ MaxArrivals \in Nat
  BY InboundAssumption
<1>2. waiting' \in [Radios -> Seq(Frames)]
  <2>1. Append(waiting[Home[f]], f) \in Seq(Frames)
    BY <1>1 DEF IInv, DrainOK
  <2> QED
    BY <1>1, <2>1 DEF Arrives, IInv, DrainOK
<1>3. wire' \in Seq(Frames \cup {NoFrame, MsgWaiting}) /\ (wire' # <<>> => Up)
  BY <1>1 DEF Arrives, IInv, DrainOK, LinkOK
<1>4. arrivals' \in 0..MaxArrivals
  BY <1>1 DEF Arrives, IInv, DrainOK
<1>5. DrainOK'
  BY <1>2, <1>3, <1>4 DEF Arrives, IInv, DrainOK, drainVars, Up
<1>6. FlagsOK'
  BY Zenon DEF Arrives, IInv, FlagsOK, drainVars
<1>7. TableOK' /\ LinkOK' /\ ScanOK' /\ MessagesOK'
  BY DEF Arrives, IInv, TableOK, LinkOK, ScanOK, MessagesOK, OneRowPerRadio, IdentityHolds,
         Identity, tableVars, Up
<1> QED
  BY <1>5, <1>6, <1>7 DEF IInv

---------------------------------------------------------------------------

LEMMA StutterOK ==
  ASSUME IInv, UNCHANGED vars
  PROVE  IInv'
<1>1. TableOK' /\ LinkOK'
  BY DEF vars, IInv, TableOK, LinkOK, OneRowPerRadio, IdentityHolds, tableVars, Up
<1>2. DrainOK' /\ FlagsOK' /\ ScanOK' /\ MessagesOK'
  BY DEF vars, IInv, DrainOK, FlagsOK, ScanOK, MessagesOK, Identity, drainVars, deviceVars, Up
<1> QED
  BY <1>1, <1>2 DEF IInv

LEMMA StepInvariant == IInv /\ [Next]_vars => IInv'
<1> SUFFICES ASSUME IInv, [Next]_vars PROVE IInv'
  OBVIOUS
<1>1. CASE EnsurePlaceholderRadio
  BY <1>1, PlaceholderOK
<1>2. CASE \E i \in Ids : ForgetRadio(i)
  BY <1>2, ForgetOK
<1>3. CASE \E w \in Scanners : ScanAnswered(w) \/ ApplyContactScan(w)
  BY <1>3, ScanAnsweredOK, ApplyOK
<1>4. CASE \E c \in Contacts : NewAdvert(c) \/ RemoveContact(c)
  BY <1>4, ContactOK
<1>5. CASE \E r \in Radios : IngestSelf(r) \/ Connect(r)
  BY <1>5, IngestSelfOK, ConnectOK
<1>6. CASE \E r \in Radios, c \in Contacts : IngestContacts(r, c)
  BY <1>6, IngestContactsOK
<1>7. CASE RadioAnswers \/ Receive \/ HandleIncoming \/ DrainFails
  BY <1>7, RadioAnswersOK, ReceiveOK, HandleIncomingOK, DrainFailsOK
<1>8. CASE Identify \/ SyncDrain \/ LinkCreated
  BY <1>8, IdentifyOK, SyncDrainOK, LinkCreatedOK
<1>9. CASE Teardown \/ Restart
  BY <1>9, LostOK DEF Teardown, Restart
<1>10. CASE \E f \in Frames : Arrives(f)
  BY <1>10, ArrivesOK
<1>11. CASE UNCHANGED vars
  BY <1>11, StutterOK
<1> QED
  BY <1>1, <1>2, <1>3, <1>4, <1>5, <1>6, <1>7, <1>8, <1>9, <1>10, <1>11 DEF Next

\* The inductive invariant: the identity a message is deduplicated by is a function of
\* its row and frame, and a row, once a radio's, stays that radio's while a link uses it.
THEOREM Invariant == Spec => []IInv
<1> QED
  BY InitInvariant, StepInvariant, PTL DEF Spec

\* resolveRadio, ingest, scans and drains keep every variable in its domain.
THEOREM TypeCorrect == Spec => []TypeOK
<1> QED
  BY Invariant, InvariantImplies, PTL

\* store.ts, resolveRadio and ensurePlaceholderRadio: one row for a radio, one placeholder.
THEOREM OneRowCorrect == Spec => []OneRowPerRadio
<1> QED
  BY Invariant, InvariantImplies, PTL

\* link.ts, initialSync: an identified link's radioId is the row of the radio at its end.
THEOREM IdentityCorrect == Spec => []IdentityHolds
<1> QED
  BY Invariant, InvariantImplies, PTL

\* store.ts, inboundFrameId and insertMessage: a frame is stored once for a radio.
THEOREM StoredOnceCorrect == Spec => []StoredOnce
<1> QED
  BY Invariant, InvariantImplies, PTL

\* Only contacts that are stored touch a message's key, and only one that is NoContact.
LEMMA StepKeepsAttribution ==
  ASSUME IInv, [Next]_vars
  PROVE  \A m \in messages : m.key # NoContact /\ m.row \in rows' => m \in messages'
<1>1. CASE \E i \in Ids : ForgetRadio(i)
  BY <1>1 DEF ForgetRadio
<1>2. CASE \E w \in Scanners : ApplyContactScan(w)
  BY <1>2, ApplyOK
<1>3. CASE \E c \in Contacts : NewAdvert(c) \/ RemoveContact(c)
  BY <1>3, ContactOK
<1>4. CASE \E r \in Radios, c \in Contacts : IngestContacts(r, c)
  BY <1>4, IngestContactsOK
<1>5. CASE HandleIncoming
  BY <1>5, HandleIncomingOK
<1>6. CASE \/ EnsurePlaceholderRadio \/ \E w \in Scanners : ScanAnswered(w)
           \/ \E r \in Radios : IngestSelf(r) \/ Connect(r)
           \/ RadioAnswers \/ Receive \/ DrainFails \/ Identify \/ SyncDrain \/ Teardown
           \/ Restart \/ LinkCreated \/ \E f \in Frames : Arrives(f)
  BY <1>6 DEF EnsurePlaceholderRadio, ScanAnswered, IngestSelf, Connect, RadioAnswers, Receive,
              DrainFails, Identify, SyncDrain, Teardown, Restart, LinkCreated, Arrives, Lost
<1>7. CASE UNCHANGED vars
  BY <1>7 DEF vars
<1> QED
  BY <1>1, <1>2, <1>3, <1>4, <1>5, <1>6, <1>7 DEF Next

\* store.ts, upsertContact and syncContacts: an attributed message keeps its contact
\* as long as its radio's row is there.
THEOREM AttributionCorrect == Spec => AttributionKept
<1>1. IInv /\ [Next]_vars => [\A m \in messages : m.key # NoContact /\ m.row \in rows' => m \in messages']_vars
  BY StepKeepsAttribution
<1> QED
  BY <1>1, Invariant, PTL DEF Spec, AttributionKept
=============================================================================
