--------------------------- MODULE RadioCommands ---------------------------
(***************************************************************************)
(* The commands of a link (radio/link.ts): channels, contacts and settings *)
(* are written to the radio and, when it has answered, to the database;    *)
(* channels and contacts are read from the radio and replace what the      *)
(* database has.  "MeshCore responses have no request ID": an answer goes  *)
(* to whoever listens for its kind.  Channel commands wait for their turn  *)
(* in uncorrelatedCommandQueue; the others do not.                         *)
(*                                                                         *)
(* What the radio keeps, and the database with it, is a function from      *)
(* channel slots, contacts and settings to values.  Nothing else writes to *)
(* a connected radio and it takes commands in order, so here it performs   *)
(* each as it is sent.  A continuation runs before the next event does.    *)
(***************************************************************************)
EXTENDS Naturals, Sequences, SequencesExt

CONSTANTS Slots,            \* the channel slots, in the order they are read
          Contacts,
          Name, Freq, Sf,   \* settings: the name, and two of the radio's parameters
          None,             \* an empty slot, a contact that is not there, a first setting
          Values,           \* others
          Callers,          \* calls of the API that can be under way
          Sync,             \* the initial sync
          MaxCalls,         \* bound: calls
          MaxOpens          \* bound: connections after the first

SlotSet  == Range(Slots)
Params   == {Freq, Sf}
SettingKeys == {Name} \cup Params
Items    == SlotSet \cup Contacts \cup SettingKeys
Jobs     == Callers \cup {Sync}

ASSUME CommandsAssumption ==
  /\ Slots \in Seq(SlotSet) /\ Slots # <<>> /\ \A i, k \in DOMAIN Slots : Slots[i] = Slots[k] => i = k
  /\ IsFiniteSet(Contacts) /\ Contacts # {} /\ Name \notin Params
  /\ SlotSet \cap Contacts = {} /\ (SlotSet \cup Contacts) \cap SettingKeys = {}
  /\ Sync \notin Callers /\ Values # {} /\ None \notin Values
  /\ MaxCalls \in Nat /\ MaxOpens \in Nat

VARIABLES
  radio,     \* what the radio keeps
  store,     \* what the database has of it
  linkState, \* "down" (any state without a synced connection), "syncing", "connected"
  air,       \* frames on their way from the radio, each for the job that asked
  job,       \* calls and the sync
  queue,     \* uncorrelatedCommandQueue, the command that runs first
  clean,     \* history: every answer of this connection went to the job that asked, and
             \* nothing was left half done, given up or begun from outdated settings
  calls, opens

commandsVars == <<radio, store, linkState, air, job, queue, clean, calls, opens>>

Only(f, S) == [x \in DOMAIN f \cap S |-> f[x]]
f ++ g     == [x \in DOMAIN f \cup DOMAIN g |-> IF x \in DOMAIN f THEN f[x] ELSE g[x]]
Nothing    == [x \in {} |-> None]

---------------------------------------------------------------------------
(* Jobs and their commands.  "plain" are adverts, path resets, exports and *)
(* channel texts: their answers are of the generic kinds too.              *)

Channel == {"set", "channels"}
Kinds   == Channel \cup {"contacts", "remove", "import", "settings", "plain", "self"}

\* Faulty variant: nothing is queued.
QueuesNothing(kind) == FALSE

Queued(kind) == kind \in Channel

Write(w)  == [name |-> "write", writes |-> w, reads |-> {}]
Read(set) == [name |-> "read", writes |-> Nothing, reads |-> set]

\* setRadioParams writes what is not patched as it was saved.
SettingsCommands(patch, old) ==
     (IF Name \in DOMAIN patch THEN <<Write(Only(patch, {Name}))>> ELSE <<>>)
  \o (IF DOMAIN patch \cap Params # {} THEN <<Write(Only(patch, Params) ++ Only(old, Params))>> ELSE <<>>)

Commands(kind, patch, old) ==
  CASE kind \in {"set", "remove", "plain"} -> <<Write(patch)>>
    [] kind = "import"   -> <<Write(patch), Read(Contacts)>>
    [] kind = "settings" -> SettingsCommands(patch, old)
    [] kind = "channels" -> [i \in DOMAIN Slots |-> Read({Slots[i]})]
    [] kind = "contacts" -> <<Read(Contacts)>>
    [] kind = "self"     -> <<Read(SettingKeys)>>

\* A scan replaces the contacts.
SyncContacts(scan) == (Only(scan, Contacts) ++ [c \in Contacts |-> None]) ++ store

\* All settings are saved, those that were not patched as they had been.
SaveSelf(patch, old) == (patch ++ old) ++ store

\* What is stored once the last answer is there.
Committed(j) ==
  CASE j.kind \in {"set", "remove"}      -> j.patch ++ store
    [] j.kind \in {"contacts", "import"} -> SyncContacts(j.got)
    [] j.kind \in {"channels", "self"}   -> j.got ++ store
    [] j.kind = "settings"               -> SaveSelf(j.patch, j.old)
    [] OTHER                             -> store

Idle == [kind |-> "plain", patch |-> Nothing, old |-> Nothing, todo |-> <<>>, pc |-> "idle", got |-> Nothing, live |-> FALSE]
New(kind, patch) ==
  [kind |-> kind, patch |-> patch, old |-> Only(store, SettingKeys),
   todo |-> Commands(kind, patch, Only(store, SettingKeys)), pc |-> "queued", got |-> Nothing, live |-> TRUE]

Under(kind) == \E j \in Jobs : job[j].pc # "idle" /\ job[j].kind = kind

\* A continuation is due, or the turn of a queued command has come.
Due == \/ \E j \in Jobs : job[j].pc \in {"answered", "refused"}
       \/ \E j \in Jobs : job[j].pc = "queued" /\ (Queued(job[j].kind) => Head(queue) = j)

CommandsTypeOK ==
  /\ radio \in [Items -> Values \cup {None}] /\ store \in [Items -> Values \cup {None}]
  /\ linkState \in {"down", "syncing", "connected"} /\ (linkState = "down" => air = <<>>)
  /\ \A j \in Jobs : /\ job[j].kind \in Kinds /\ job[j].pc \in {"idle", "queued", "waits", "answered", "refused"}
                     /\ job[j].pc # "idle" => job[j].todo # <<>>
                     /\ j = Sync /\ job[j].pc # "idle" => linkState = "syncing"
  /\ \A j \in Jobs : j \in Range(queue) <=> job[j].pc # "idle" /\ Queued(job[j].kind)
  /\ clean \in BOOLEAN /\ calls \in 0..MaxCalls /\ opens \in 0..MaxOpens

CommandsInit ==
  /\ radio = [x \in Items |-> IF x \in Contacts \cup {Slots[1]} THEN CHOOSE v \in Values : TRUE ELSE None]
  /\ store = radio
  /\ linkState = "connected" /\ air = <<>> /\ job = [j \in Jobs |-> Idle] /\ queue = <<>> /\ clean = TRUE
  /\ calls = 0 /\ opens = 0

---------------------------------------------------------------------------
(* Calls.                                                                  *)

Begins(j, kind, patch) ==
  /\ job' = [job EXCEPT ![j] = New(kind, patch)]
  /\ queue' = IF Queued(kind) THEN Append(queue, j) ELSE queue

\* A call while there is no connection is refused.  Settings that were saved may be
\* outdated while others, or the sync, are about to save them.
Calls(j, kind, patch) ==
  /\ ~Due /\ calls < MaxCalls /\ linkState # "down" /\ j \in Callers /\ job[j].pc = "idle"
  /\ Begins(j, kind, patch) /\ calls' = calls + 1
  /\ clean' = (clean /\ ~(kind = "settings" /\ (Under("settings") \/ Under("self"))))
  /\ UNCHANGED <<radio, store, linkState, air, opens>>

SetChannel(j)        == \E s \in SlotSet, v \in Values : Calls(j, "set", [x \in {s} |-> v])
DeleteChannel(j)     == \E s \in SlotSet : Calls(j, "set", [x \in {s} |-> None])
RefreshChannels(j)   == Calls(j, "channels", Nothing)
\* Asked for, and on every advert.
RefreshContacts(j)   == Calls(j, "contacts", Nothing)
RemoveContact(j)     == \E c \in Contacts : Calls(j, "remove", [x \in {c} |-> None])
ImportContactUri(j)  == \E c \in Contacts, v \in Values : Calls(j, "import", [x \in {c} |-> v])
SetDeviceSettings(j) == \E S \in {{Freq}, {Name, Sf}}, v \in Values : Calls(j, "settings", [x \in S |-> v])
Plain(j)             == Calls(j, "plain", Nothing)

---------------------------------------------------------------------------
(* The radio.                                                              *)

Frame(kind, data, j) == [kind |-> kind, data |-> data, for |-> j]

\* A list comes one contact at a time, and then its end.
Listed(j) ==
  LET here == SetToSeq({c \in Contacts : radio[c] # None})
  IN  [i \in DOMAIN here |-> Frame("contact", [x \in {here[i]} |-> radio[here[i]]], j)] \o <<Frame("end", Nothing, j)>>

Performed(j, c) ==
  /\ radio' = c.writes ++ radio
  /\ air' = air \o IF c.name = "write" THEN <<Frame("ok", Nothing, j)>>
                   ELSE IF c.reads = Contacts THEN Listed(j)
                   ELSE <<Frame("info", Only(radio, c.reads), j)>>

Rejected(j, c) ==
  /\ c.name = "write" \/ c.reads \subseteq SlotSet
  /\ radio' = radio /\ air' = Append(air, Frame("err", Nothing, j))

\* An answer may stay on its way for ever.
Sends(j, c) == Performed(j, c) \/ Rejected(j, c)

\* What ends the wait for a command.
Ends(c, f) ==
  CASE f.kind = "ok"   -> c.name = "write"
    [] f.kind = "err"  -> c.name = "write" \/ c.reads \subseteq SlotSet
    [] f.kind = "info" -> c.name = "read" /\ c.reads = DOMAIN f.data
    [] f.kind = "end"  -> c.reads = Contacts
    [] OTHER           -> FALSE

Listens(j, f) ==
  /\ job[j].pc = "waits" /\ job[j].live
  /\ Ends(Head(job[j].todo), f) \/ (f.kind = "contact" /\ Head(job[j].todo).reads = Contacts)

\* A frame arrives, for all that listen for its kind.
Deliver ==
  /\ ~Due /\ air # <<>> /\ air' = Tail(air)
  /\ LET f == Head(air) IN
     /\ job' = [j \in Jobs |->
                  IF ~Listens(j, f) THEN job[j]
                  ELSE [job[j] EXCEPT !.got = f.data ++ @,
                                      !.pc = IF ~Ends(Head(job[j].todo), f) THEN @
                                             ELSE IF f.kind = "err" THEN "refused" ELSE "answered"]]
     /\ clean' = (clean /\ \A j \in Jobs : Listens(j, f) => j = f.for)
  /\ UNCHANGED <<radio, store, linkState, queue, calls, opens>>

---------------------------------------------------------------------------
(* How jobs go on.                                                         *)

\* Faulty variant: a command that failed keeps its turn.
DequeuedIfDone(j) == IF job[j].pc = "answered" THEN RemoveFirst(queue, j) ELSE queue

Dequeued(j) == RemoveFirst(queue, j)

Over(j) == job' = [job EXCEPT ![j] = Idle] /\ queue' = Dequeued(j)

Phase == [self |-> "contacts", contacts |-> "channels", channels |-> "done"]

\* The first command is sent at once, or when its turn has come: on the connection
\* the call began with.  A read of channels is given up if that is gone.
Starts(j) ==
  /\ job[j].pc = "queued" /\ (Queued(job[j].kind) => Head(queue) = j)
  /\ \/ /\ job[j].live /\ Sends(j, Head(job[j].todo))
        /\ job' = [job EXCEPT ![j].pc = "waits"] /\ queue' = queue
     \/ /\ ~job[j].live /\ job[j].kind = "set"
        /\ job' = [job EXCEPT ![j].pc = "waits"] /\ UNCHANGED <<radio, air, queue>>
     \/ /\ ~job[j].live /\ job[j].kind = "channels"
        /\ Over(j) /\ UNCHANGED <<radio, air>>
  /\ UNCHANGED <<store, linkState, clean, calls, opens>>

NextCommand(j) ==
  /\ Len(job[j].todo) > 1 /\ Sends(j, job[j].todo[2])
  /\ job' = [job EXCEPT ![j].todo = Tail(@), ![j].pc = "waits"]
  /\ UNCHANGED <<store, linkState, queue>>

\* The last answer: the database follows, and the sync goes on.
Commits(j) ==
  /\ Len(job[j].todo) = 1 /\ store' = Committed(job[j]) /\ UNCHANGED <<radio, air>>
  /\ IF j = Sync /\ Phase[job[j].kind] # "done"
     THEN Begins(j, Phase[job[j].kind], Nothing) /\ linkState' = linkState
     ELSE Over(j) /\ linkState' = IF j = Sync THEN "connected" ELSE linkState

Proceed(j) ==
  /\ job[j].pc = "answered"
  /\ NextCommand(j) \/ Commits(j)
  /\ UNCHANGED <<clean, calls, opens>>

\* The call fails.  Settings may have been written in part.
Fails(j) ==
  /\ j # Sync /\ job[j].pc = "refused" /\ Over(j)
  /\ clean' = (clean /\ job[j].kind # "settings")
  /\ UNCHANGED <<radio, store, linkState, air, calls, opens>>

\* Only the hand-written commands give up, after five seconds; an answer may still come.
Timeout(j) ==
  /\ ~Due /\ job[j].pc = "waits" /\ Queued(job[j].kind)
  /\ job' = [job EXCEPT ![j].pc = "refused"] /\ clean' = FALSE
  /\ UNCHANGED <<radio, store, linkState, air, queue, calls, opens>>

---------------------------------------------------------------------------
(* The connection.                                                         *)

\* Reads are given up and writes of channels wait on; what else there is never gets
\* an answer, and is left out.
Kept(j) == job[j].kind = "set" \/ (job[j].kind = "channels" /\ job[j].pc = "queued" /\ j # Sync)

Closed ==
  /\ linkState' = "down" /\ air' = <<>>
  /\ job' = [j \in Jobs |-> IF Kept(j) THEN [job[j] EXCEPT !.live = FALSE] ELSE Idle]
  /\ queue' = RemoveFirst(IF queue # <<>> /\ ~Kept(Head(queue)) THEN Tail(queue) ELSE queue, Sync)
  /\ UNCHANGED <<radio, store, clean, calls, opens>>

Lost == ~Due /\ linkState # "down" /\ Closed

\* connect fails, and tears the connection down.
SyncFails == job[Sync].pc = "refused" /\ Closed

\* The radio may have been written to in the meantime, by another program.
Opens ==
  /\ ~Due /\ linkState = "down" /\ opens < MaxOpens
  /\ \E x \in Items, v \in Values \cup {None} : radio' = [radio EXCEPT ![x] = v]
  /\ linkState' = "syncing" /\ opens' = opens + 1 /\ clean' = TRUE
  /\ Begins(Sync, "self", Nothing) /\ UNCHANGED <<store, air, calls>>

---------------------------------------------------------------------------
CommandsNext ==
  \/ \E j \in Callers :
       \/ SetChannel(j) \/ DeleteChannel(j) \/ RefreshChannels(j) \/ RefreshContacts(j)
       \/ RemoveContact(j) \/ ImportContactUri(j) \/ SetDeviceSettings(j) \/ Plain(j)
  \/ \E j \in Jobs : Starts(j) \/ Proceed(j) \/ Fails(j) \/ Timeout(j)
  \/ Deliver \/ Lost \/ SyncFails \/ Opens

CommandsSpec == CommandsInit /\ [][CommandsNext]_commandsVars

\* Continuations run, and timers fire.
CommandsFair == CommandsSpec /\ WF_commandsVars(SyncFails)
                 /\ \A j \in Jobs : WF_commandsVars(Starts(j) \/ Proceed(j) \/ Fails(j)) /\ WF_commandsVars(Timeout(j))

---------------------------------------------------------------------------
(* What is promised.                                                       *)

\* At rest the database has what the radio keeps, if every answer of the connection
\* went to the command it was for and no settings were written in part or from
\* outdated ones: however calls, refreshes and the sync are interleaved.
Mirrors ==
  linkState = "connected" /\ clean /\ (\A j \in Jobs : job[j].pc = "idle") => store = radio

\* "Keep the queue usable after a rejected radio command": channel commands end,
\* whether the radio answers, refuses or says nothing, or is lost before their turn.
CommandsEnd ==
  \A j \in Callers : (job[j].pc # "idle" /\ Queued(job[j].kind)) ~> (job[j].pc = "idle" \/ ~Queued(job[j].kind))
=============================================================================
