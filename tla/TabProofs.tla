------------------------------ MODULE TabProofs ------------------------------
(***************************************************************************)
(* Proofs about the two models of a tab: BrowserRadio, for any frames and  *)
(* sends, any queue limit and any number of sessions and failures, and     *)
(* TimelineView, for any happenings, times, moves and lengths of a page.   *)
(***************************************************************************)
EXTENDS BrowserRadio, TimelineView, FiniteSetTheorems, WellFoundedInduction, TLAPS

Records == [item : Items, status : {"sent", "delivered"}]
RowSet  == [item : Items, id : {"none", "local", "server"}, status : {"sent", "delivered"}]
Events  == [type : {"new", "status"}, row : RowSet]
Entries == Seq(Seq(Records))

TaskSet(S) == [kind : {"post", "put", "take"}, job : Jobs, session : Nat, what : Seq(Records), rest : Entries,
               served : BOOLEAN, seen : S]

\* What a POST has seen are rows, and what a put or a take has seen is a queue.
TaskOK(t) ==
  /\ IF t.kind = "post" THEN t \in TaskSet(Seq(RowSet)) ELSE t \in TaskSet(Entries) /\ Len(t.seen) <= MaxQueue
  /\ t.job \in {"send", "ack"} => t.what # <<>> /\ ItemOf(t) \in Outgoing
  /\ t.kind = "take" => t.job = "flush"

TasksOK == \A t \in tasks : TaskOK(t) /\ t.session \in 1..session
QueueOK == queue \in Entries /\ Len(queue) <= MaxQueue
RowsOK  == rows \in [Items -> {"none", "sent", "delivered"}]
InboxOK == inbox \in Seq(Incoming) /\ \A i, j \in DOMAIN inbox : inbox[i] = inbox[j] => i = j
BatchOK == batch \in Seq(Records)
FeedOK  == feed \in Seq(Events)
ListOK  == listing \subseteq RowSet /\ RowOnce

\* What a session does for itself: its drain and its one send.
ModeOK ==
  /\ session \in 0..MaxSessions /\ link \in {"off", "lost"} \cup Active /\ private \in BOOLEAN
  /\ link # "off" => session # 0
  /\ drain \in {"idle", "reading", "posting"} /\ again \in BOOLEAN
  /\ send \in [Outgoing -> {"new", "done", "failed"} \cup Waiting]
  /\ ack \in {"none", "early", "taken"} /\ localId \in {"none", "local", "server"}
  /\ link \in {"off", "lost"} => drain = "idle" /\ \A o \in Outgoing : send[o] \notin Waiting
  /\ \A o, p \in Outgoing : send[o] \in Waiting /\ send[p] \in Waiting => o = p

TabInv == ModeOK /\ RowsOK /\ QueueOK /\ TasksOK /\ InboxOK /\ BatchOK /\ FeedOK /\ ListOK

---------------------------------------------------------------------------
(* What is public, or will be: the server's rows, the stored queue, what   *)
(* a task posts or puts, and what the drain of a session that is not       *)
(* private has read.                                                       *)

ItemsOf(w)   == {w[k].item : k \in DOMAIN w}
ItemsIn(q)   == UNION {ItemsOf(q[k]) : k \in DOMAIN q}
TaskItems(t) == ItemsOf(t.what) \cup ItemsIn(t.rest) \cup (IF t.kind = "post" THEN {} ELSE ItemsIn(t.seen))

Public ==
  {i \in Items : rows[i] # "none"} \cup ItemsIn(queue) \cup (UNION {TaskItems(t) : t \in tasks})
    \cup (IF private THEN {} ELSE ItemsOf(batch))

Unread == {inbox[k] : k \in DOMAIN inbox}

\* A frame is on the radio, public, secret or gone; a send that is not made yet
\* is nowhere, and one that is under way is secret in a private session only.
PrivateInv ==
  /\ secret \subseteq Items
  /\ Public \cap secret = {} /\ Public \cap Unread = {} /\ secret \cap Unread = {}
  /\ \A o \in Outgoing : send[o] = "new" => o \notin Public /\ o \notin secret
  /\ \A o \in Outgoing : send[o] \in Waiting => (o \in secret <=> private)
  /\ \A o \in Outgoing : send[o] \in {"recording", "confirming"} => ~private

---------------------------------------------------------------------------
(* The two folds of the module.                                            *)

LEMMA LeastOf == ASSUME NEW S, S \subseteq Nat, S # {} PROVE \E x \in S : \A y \in S : ~(y < x)
<1>1. \E x \in S : \A y \in S : <<y, x>> \notin OpToRel(<, Nat)
  BY NatLessThanWellFounded, WFMin
<1> QED
  BY <1>1 DEF OpToRel

\* A list has one row of each record.
Single(v) == \A x, y \in v : x.item = y.item => x = y

LEMMA ShownOK ==
  ASSUME NEW v, v \subseteq RowSet, Single(v), NEW r \in RowSet
  PROVE  Shown(v, r) \subseteq RowSet /\ Single(Shown(v, r))
<1>1. CASE Prior(v, r) = {}
  BY <1>1 DEF Shown, Prior, Single
<1>2. CASE Prior(v, r) # {}
  <2> PICK x : x = CHOOSE y \in Prior(v, r) : TRUE
    OBVIOUS
  <2>1. x \in v /\ x.item = r.item
    BY <1>2 DEF Prior
  <2> PICK s : s = FinalStatus(x.status, r.status)
    OBVIOUS
  <2>2. s \in {"sent", "delivered"}
    BY <2>1 DEF FinalStatus, RowSet
  <2> PICK t : t = [r EXCEPT !.status = s]
    OBVIOUS
  <2>3. t \in RowSet /\ t.item = r.item
    BY <2>2 DEF RowSet
  <2>4. Shown(v, r) = (v \ {x}) \cup {t}
    BY <1>2 DEF Shown
  <2>5. \A y \in v \ {x} : y.item # t.item
    BY <2>1, <2>3 DEF Single
  <2> QED
    BY <2>3, <2>4, <2>5 DEF Single
<1> QED
  BY <1>1, <1>2

LEMMA ShownExists ==
  ASSUME NEW v, NEW rs, NEW n \in Nat
  PROVE  \E f : f = [k \in 0..n |-> IF k = 0 THEN v ELSE Shown(f[k - 1], rs[k])]
<1> DEFINE Good(m) == \E f : f = [k \in 0..m |-> IF k = 0 THEN v ELSE Shown(f[k - 1], rs[k])]
           bad == {m \in Nat : ~Good(m)}
<1>1. bad = {}
  <2> SUFFICES ASSUME bad # {} PROVE FALSE
    OBVIOUS
  <2>1. PICK m \in bad : \A y \in bad : ~(y < m)
    <3>1. bad \subseteq Nat
      OBVIOUS
    <3> HIDE DEF bad
    <3> QED
      BY <3>1, LeastOf
  <2>2. m # 0
    <3>1. [k \in 0..0 |-> v] = [k \in 0..0 |-> IF k = 0 THEN v ELSE Shown([i \in 0..0 |-> v][k - 1], rs[k])]
      OBVIOUS
    <3>2. Good(0)
      BY <3>1
    <3> QED
      BY <2>1, <3>2
  <2>3. m - 1 \in Nat /\ Good(m - 1)
    BY <2>1, <2>2
  <2>4. PICK f : f = [k \in 0..(m - 1) |-> IF k = 0 THEN v ELSE Shown(f[k - 1], rs[k])]
    BY <2>3
  <2> PICK g : g = [k \in 0..m |-> IF k = m THEN Shown(f[m - 1], rs[m]) ELSE f[k]]
    OBVIOUS
  <2>5. ASSUME NEW k \in 0..m PROVE g[k] = IF k = 0 THEN v ELSE Shown(g[k - 1], rs[k])
    <3>1. CASE k = m
      BY <2>1, <2>2, <3>1
    <3>2. CASE k # m
      <4>1. k \in 0..(m - 1) /\ g[k] = f[k] /\ (k # 0 => k - 1 \in 0..(m - 1) /\ g[k - 1] = f[k - 1])
        BY <2>1, <2>2, <3>2
      <4>2. f[k] = IF k = 0 THEN v ELSE Shown(f[k - 1], rs[k])
        BY <2>4, <4>1
      <4> QED
        BY <4>1, <4>2
    <3> QED
      BY <3>1, <3>2
  <2>6. g = [k \in 0..m |-> g[k]]
    OBVIOUS
  <2>7. g = [k \in 0..m |-> IF k = 0 THEN v ELSE Shown(g[k - 1], rs[k])]
    BY <2>5, <2>6
  <2> QED
    BY <2>1, <2>7
<1> QED
  BY <1>1

LEMMA ShownAllOK ==
  ASSUME NEW v, v \subseteq RowSet, Single(v), NEW rs \in Seq(RowSet)
  PROVE  ShownAll(v, rs) \subseteq RowSet /\ Single(ShownAll(v, rs))
<1> PICK f : f = CHOOSE g : g = [k \in 0..Len(rs) |-> IF k = 0 THEN v ELSE Shown(g[k - 1], rs[k])]
  OBVIOUS
<1>1. Len(rs) \in Nat
  OBVIOUS
<1>2. f = [k \in 0..Len(rs) |-> IF k = 0 THEN v ELSE Shown(f[k - 1], rs[k])]
  BY <1>1, ShownExists
<1>3. ShownAll(v, rs) = f[Len(rs)]
  BY DEF ShownAll
<1> DEFINE bad == {k \in 0..Len(rs) : ~(f[k] \subseteq RowSet /\ Single(f[k]))}
<1>4. bad = {}
  <2> SUFFICES ASSUME bad # {} PROVE FALSE
    OBVIOUS
  <2>1. PICK m \in bad : \A y \in bad : ~(y < m)
    <3>1. bad \subseteq Nat
      BY <1>1
    <3> HIDE DEF bad
    <3> QED
      BY <3>1, LeastOf
  <2>2. m # 0
    BY <1>2, <2>1
  <2>3. m \in 1..Len(rs) /\ m - 1 \in 0..Len(rs) /\ m - 1 < m
    BY <1>1, <2>1, <2>2
  <2>4. f[m - 1] \subseteq RowSet /\ Single(f[m - 1])
    BY <2>1, <2>3
  <2>5. f[m] = Shown(f[m - 1], rs[m])
    BY <1>2, <2>2, <2>3
  <2>6. rs[m] \in RowSet
    BY <2>3
  <2>7. f[m] \subseteq RowSet /\ Single(f[m])
    BY <2>4, <2>5, <2>6, ShownOK
  <2> QED
    BY <2>1, <2>7
<1> QED
  BY <1>1, <1>3, <1>4

LEMMA KeptExists ==
  ASSUME NEW w, NEW n \in Nat
  PROVE  \E f : f = [k \in 0..n |-> IF k = 0 THEN <<>> ELSE WithKept(f[k - 1], w[k])]
<1> DEFINE Good(m) == \E f : f = [k \in 0..m |-> IF k = 0 THEN <<>> ELSE WithKept(f[k - 1], w[k])]
           bad == {m \in Nat : ~Good(m)}
<1>1. bad = {}
  <2> SUFFICES ASSUME bad # {} PROVE FALSE
    OBVIOUS
  <2>1. PICK m \in bad : \A y \in bad : ~(y < m)
    <3>1. bad \subseteq Nat
      OBVIOUS
    <3> HIDE DEF bad
    <3> QED
      BY <3>1, LeastOf
  <2>2. m # 0
    <3>1. [k \in 0..0 |-> <<>>] = [k \in 0..0 |-> IF k = 0 THEN <<>> ELSE WithKept([i \in 0..0 |-> <<>>][k - 1], w[k])]
      OBVIOUS
    <3>2. Good(0)
      BY <3>1
    <3> QED
      BY <2>1, <3>2
  <2>3. m - 1 \in Nat /\ Good(m - 1)
    BY <2>1, <2>2
  <2>4. PICK f : f = [k \in 0..(m - 1) |-> IF k = 0 THEN <<>> ELSE WithKept(f[k - 1], w[k])]
    BY <2>3
  <2> PICK g : g = [k \in 0..m |-> IF k = m THEN WithKept(f[m - 1], w[m]) ELSE f[k]]
    OBVIOUS
  <2>5. ASSUME NEW k \in 0..m PROVE g[k] = IF k = 0 THEN <<>> ELSE WithKept(g[k - 1], w[k])
    <3>1. CASE k = m
      BY <2>1, <2>2, <3>1
    <3>2. CASE k # m
      <4>1. k \in 0..(m - 1) /\ g[k] = f[k] /\ (k # 0 => k - 1 \in 0..(m - 1) /\ g[k - 1] = f[k - 1])
        BY <2>1, <2>2, <3>2
      <4>2. f[k] = IF k = 0 THEN <<>> ELSE WithKept(f[k - 1], w[k])
        BY <2>4, <4>1
      <4> QED
        BY <4>1, <4>2
    <3> QED
      BY <3>1, <3>2
  <2>6. g = [k \in 0..m |-> g[k]]
    OBVIOUS
  <2>7. g = [k \in 0..m |-> IF k = 0 THEN <<>> ELSE WithKept(g[k - 1], w[k])]
    BY <2>5, <2>6
  <2> QED
    BY <2>1, <2>7
<1> QED
  BY <1>1

\* What is kept of a POST is of the POST.
LEMMA KeptOfOK ==
  ASSUME NEW w \in Seq(Records)
  PROVE  KeptOf(w) \in Seq(Records) /\ ItemsOf(KeptOf(w)) \subseteq ItemsOf(w)
<1>1. Len(w) \in Nat /\ DOMAIN w = 1..Len(w)
  OBVIOUS
<1>2. \E f : f = [k \in 0..Len(w) |-> IF k = 0 THEN <<>> ELSE WithKept(f[k - 1], w[k])] /\ KeptOf(w) = f[Len(w)]
  <2> PICK f : f = CHOOSE g : g = [k \in 0..Len(w) |-> IF k = 0 THEN <<>> ELSE WithKept(g[k - 1], w[k])]
    OBVIOUS
  <2>1. f = [k \in 0..Len(w) |-> IF k = 0 THEN <<>> ELSE WithKept(f[k - 1], w[k])]
    BY <1>1, KeptExists
  <2>2. KeptOf(w) = f[Len(w)]
    BY DEF KeptOf
  <2> QED
    BY <2>1, <2>2
<1>3. PICK f : f = [k \in 0..Len(w) |-> IF k = 0 THEN <<>> ELSE WithKept(f[k - 1], w[k])] /\ KeptOf(w) = f[Len(w)]
  BY <1>2
<1>4. f[0] = <<>> /\ \A k \in 1..Len(w) : f[k] = WithKept(f[k - 1], w[k])
  BY <1>1, <1>3
<1> DEFINE OK(l) == l \in Seq(Records) /\ \A i \in DOMAIN l : l[i].item \in ItemsOf(w)
<1>5. ASSUME NEW l, OK(l), NEW r \in Records, r.item \in ItemsOf(w) PROVE OK(WithKept(l, r))
  <2>1. Append(l, r) \in Seq(Records) /\ DOMAIN Append(l, r) = 1..(Len(l) + 1) /\ DOMAIN l = 1..Len(l) /\ Len(l) \in Nat
    BY <1>5
  <2>2. ASSUME NEW i \in 1..(Len(l) + 1) PROVE Append(l, r)[i].item \in ItemsOf(w)
    BY <1>5, <2>1
  <2> QED
    BY <1>5, <2>1, <2>2 DEF WithKept
<1> DEFINE bad == {k \in 0..Len(w) : ~OK(f[k])}
<1>6. OK(<<>>)
  OBVIOUS
<1> HIDE DEF OK
<1>7. bad = {}
  <2> SUFFICES ASSUME bad # {} PROVE FALSE
    OBVIOUS
  <2>1. PICK m \in bad : \A y \in bad : ~(y < m)
    <3>1. bad \subseteq Nat
      BY <1>1
    <3> HIDE DEF bad
    <3> QED
      BY <3>1, LeastOf
  <2>2. m # 0
    BY <1>4, <1>6, <2>1
  <2>3. m \in 1..Len(w) /\ m - 1 \in 0..Len(w) /\ m - 1 < m
    BY <1>1, <2>1, <2>2
  <2>4. OK(f[m - 1])
    BY <2>1, <2>3
  <2>5. w[m] \in Records /\ w[m].item \in ItemsOf(w)
    BY <1>1, <2>3 DEF ItemsOf
  <2>6. OK(WithKept(f[m - 1], w[m]))
    BY <1>5, <2>4, <2>5
  <2> QED
    BY <1>4, <2>1, <2>3, <2>6
<1>8. OK(KeptOf(w))
  <2>1. KeptOf(w) = f[Len(w)] /\ Len(w) \in 0..Len(w)
    BY <1>1, <1>3
  <2>2. OK(f[Len(w)])
    BY <1>7, <2>1
  <2> QED
    BY <2>1, <2>2
<1> QED
  BY <1>8 DEF OK, ItemsOf

---------------------------------------------------------------------------
(* Sequences, and tasks.                                                   *)

LEMMA ConcatSeq == ASSUME NEW S, NEW a \in Seq(S), NEW b \in Seq(S) PROVE a \o b \in Seq(S)
OBVIOUS

LEMMA MapSeq == ASSUME NEW S, NEW n \in Nat, NEW f \in [1..n -> S] PROVE f \in Seq(S)
OBVIOUS

LEMMA HeadItems ==
  ASSUME NEW q \in Entries, q # <<>>
  PROVE  /\ Head(q) \in Seq(Records) /\ Tail(q) \in Entries
         /\ ItemsOf(Head(q)) \subseteq ItemsIn(q) /\ ItemsIn(Tail(q)) \subseteq ItemsIn(q)
<1>1. Head(q) = q[1] /\ 1 \in DOMAIN q /\ q[1] \in Seq(Records) /\ Tail(q) \in Entries
  BY DEF Entries
<1>2. \A k \in DOMAIN Tail(q) : k + 1 \in DOMAIN q /\ Tail(q)[k] = q[k + 1]
  BY DEF Entries
<1>3. ItemsIn(Tail(q)) \subseteq ItemsIn(q)
  BY <1>2 DEF ItemsIn
<1> QED
  BY <1>1, <1>3 DEF ItemsIn

LEMMA AppendItems ==
  ASSUME NEW q \in Entries, NEW w \in Seq(Records)
  PROVE  /\ Append(q, w) \in Entries /\ Len(Append(q, w)) = Len(q) + 1
         /\ ItemsIn(Append(q, w)) = ItemsIn(q) \cup ItemsOf(w)
<1>1. /\ Append(q, w) \in Entries /\ Len(Append(q, w)) = Len(q) + 1 /\ Len(q) \in Nat
      /\ DOMAIN Append(q, w) = (DOMAIN q) \cup {Len(q) + 1} /\ DOMAIN q = 1..Len(q)
  BY DEF Entries
<1>2. Append(q, w)[Len(q) + 1] = w /\ \A k \in DOMAIN q : Append(q, w)[k] = q[k]
  BY <1>1 DEF Entries
<1>3. ItemsIn(Append(q, w)) \subseteq ItemsIn(q) \cup ItemsOf(w)
  BY <1>1, <1>2 DEF ItemsIn
<1>4. ItemsIn(q) \subseteq ItemsIn(Append(q, w)) /\ ItemsOf(w) \subseteq ItemsIn(Append(q, w))
  BY <1>1, <1>2 DEF ItemsIn
<1> QED
  BY <1>1, <1>3, <1>4

LEMMA NoItems == ItemsOf(<<>>) = {} /\ ItemsIn(<<>>) = {} /\ <<>> \in Entries /\ <<>> \in Seq(Records) /\ <<>> \in Seq(RowSet)
BY DEF ItemsOf, ItemsIn, Entries

LEMMA TaskFields ==
  ASSUME NEW t, TaskOK(t)
  PROVE  /\ t.kind \in {"post", "put", "take"} /\ t.job \in Jobs /\ t.session \in Nat /\ t.what \in Seq(Records)
         /\ t.rest \in Entries /\ t.served \in BOOLEAN
         /\ t.kind = "post" => t.seen \in Seq(RowSet)
         /\ t.kind # "post" => t.seen \in Entries /\ Len(t.seen) <= MaxQueue
BY DEF TaskOK, TaskSet

LEMMA FollowOK ==
  ASSUME NEW t, TaskOK(t), NEW kind \in {"post", "put"}, NEW what \in Seq(Records), NEW rest \in Entries,
         t.job \in {"send", "ack"} => what = t.what, NEW u, u = Follow(t, kind, what, rest)
  PROVE  /\ TaskOK(u) /\ u.session = t.session /\ u.job = t.job
         /\ TaskItems(u) = ItemsOf(what) \cup ItemsIn(rest)
<1>1. \A S : t \in TaskSet(S) => /\ u \in [kind : {"post", "put", "take"}, job : Jobs, session : Nat, what : Seq(Records),
                                           rest : Entries, served : BOOLEAN, seen : {<<>>}]
                                 /\ u.kind = kind /\ u.job = t.job /\ u.session = t.session /\ u.what = what /\ u.rest = rest
                                 /\ u.seen = <<>>
  BY DEF Follow, TaskSet
<1>2. /\ u \in [kind : {"post", "put", "take"}, job : Jobs, session : Nat, what : Seq(Records),
                                           rest : Entries, served : BOOLEAN, seen : {<<>>}]
      /\ u.kind = kind /\ u.job = t.job /\ u.session = t.session /\ u.what = what /\ u.rest = rest /\ u.seen = <<>>
  BY <1>1 DEF TaskOK
<1>3. u \in TaskSet(Seq(RowSet)) /\ u \in TaskSet(Entries) /\ Len(<<>>) <= MaxQueue
  <2>1. ASSUME NEW S, <<>> \in S PROVE u \in TaskSet(S)
    BY <1>2, <2>1 DEF TaskSet
  <2>2. Len(<<>>) <= MaxQueue
    BY BrowserAssumption
  <2> QED
    BY <2>1, <2>2, NoItems
<1>4. t.job \in {"send", "ack"} => u.what = t.what
  BY <1>2
<1>5. TaskOK(u)
  BY <1>2, <1>3, <1>4 DEF TaskOK, ItemOf
<1>6. TaskItems(u) = ItemsOf(what) \cup ItemsIn(rest)
  BY <1>2, NoItems DEF TaskItems
<1> QED
  BY <1>2, <1>5, <1>6

LEMMA TaskIsOK ==
  ASSUME session \in Nat, NEW kind \in {"post", "put", "take"}, NEW job \in Jobs, NEW what \in Seq(Records),
         job \notin {"send", "ack"} \/ (what # <<>> /\ what[1].item \in Outgoing), kind # "take" \/ job = "flush"
  PROVE  /\ TaskOK(Task(kind, job, what)) /\ Task(kind, job, what).session = session
         /\ TaskItems(Task(kind, job, what)) = ItemsOf(what)
<1> PICK u : u = Task(kind, job, what)
  OBVIOUS
<1>1. /\ u \in [kind : {"post", "put", "take"}, job : Jobs, session : Nat, what : Seq(Records),
                                           rest : Entries, served : BOOLEAN, seen : {<<>>}]
      /\ u.kind = kind /\ u.job = job /\ u.session = session /\ u.what = what /\ u.rest = <<>> /\ u.seen = <<>>
  BY NoItems DEF Task
<1>2. u \in TaskSet(Seq(RowSet)) /\ u \in TaskSet(Entries) /\ Len(<<>>) <= MaxQueue
  <2>1. ASSUME NEW S, <<>> \in S PROVE u \in TaskSet(S)
    BY <1>1, <2>1 DEF TaskSet
  <2>2. Len(<<>>) <= MaxQueue
    BY BrowserAssumption
  <2> QED
    BY <2>1, <2>2, NoItems
<1>3. TaskOK(u)
  BY <1>1, <1>2 DEF TaskOK, ItemOf
<1>4. TaskItems(u) = ItemsOf(what)
  BY <1>1, NoItems DEF TaskItems
<1> QED
  BY <1>1, <1>3, <1>4, Zenon

\* The two tasks that tell the server of a send.
LEMMA SendTask ==
  ASSUME session \in Nat, NEW o \in Outgoing, NEW s \in {"sent", "delivered"}, NEW job \in {"send", "ack"},
         NEW u, u = Task("post", job, <<Rec(o, s)>>)
  PROVE  TaskOK(u) /\ u.session = session /\ TaskItems(u) = {o}
<1>1. /\ <<Rec(o, s)>> \in Seq(Records) /\ <<Rec(o, s)>> # <<>> /\ <<Rec(o, s)>>[1].item = o
      /\ DOMAIN <<Rec(o, s)>> = {1}
  BY DEF Rec, Records, Items
<1>2. ItemsOf(<<Rec(o, s)>>) = {o}
  BY <1>1 DEF ItemsOf
<1> PICK w : w = <<Rec(o, s)>>
  OBVIOUS
<1>3. w \in Seq(Records) /\ w # <<>> /\ w[1].item \in Outgoing /\ ItemsOf(w) = {o}
  BY <1>1, <1>2
<1>4. job \in Jobs
  BY DEF Jobs
<1>5. TaskOK(u) /\ u.session = session /\ TaskItems(u) = ItemsOf(w)
  <2>1. u = Task("post", job, w)
    OBVIOUS
  <2>2. /\ TaskOK(Task("post", job, w)) /\ Task("post", job, w).session = session
        /\ TaskItems(Task("post", job, w)) = ItemsOf(w)
    BY <1>3, <1>4, TaskIsOK
  <2> QED
    BY <2>1, <2>2, Zenon
<1> QED
  BY <1>3, <1>5

---------------------------------------------------------------------------
(* What most steps leave alone.                                            *)

LEMMA TasksKept ==
  ASSUME TasksOK, session \in Nat, session' \in {session, session + 1},
         \A t \in tasks' : t \in tasks \/ (TaskOK(t) /\ t.session \in 1..session)
  PROVE  TasksOK'
<1>1. \A n \in 1..session : n \in 1..session'
  OBVIOUS
<1> QED
  BY <1>1 DEF TasksOK

\* A send that is under way in a session that is not private.
Under(o) == o \in Outgoing /\ send[o] \in Waiting /\ ~private

Moves ==
  \A o \in Outgoing :
    \/ send'[o] = send[o]
    \/ send[o] \in Waiting /\ send'[o] # "new" /\ (send'[o] \in {"recording", "confirming"} => ~private)

\* Privacy is kept by a step that makes nothing public but what is already, or a
\* send under way in a session that is not private.
LEMMA PrivacyFrame ==
  ASSUME InboxOK, PrivateInv, UNCHANGED <<secret, private, inbox>>, Moves,
         \A i \in Items : rows'[i] # "none" => rows[i] # "none" \/ i \in Public,
         ItemsIn(queue') \subseteq Public,
         \A t \in tasks' : t \in tasks \/ \A i \in TaskItems(t) : i \in Public \/ Under(i),
         batch' \in {batch, <<>>}
  PROVE  PrivateInv'
<1>1. ASSUME NEW i \in Public' PROVE i \in Public \/ Under(i)
  <2>1. CASE i \in Items /\ rows'[i] # "none"
    BY <2>1 DEF Public
  <2>2. CASE i \in ItemsIn(queue')
    BY <2>2
  <2>3. ASSUME NEW t \in tasks', i \in TaskItems(t) PROVE i \in Public \/ Under(i)
    BY <2>3 DEF Public
  <2>4. CASE ~private /\ i \in ItemsOf(batch')
    BY <2>4, NoItems DEF Public
  <2> QED
    BY <2>1, <2>2, <2>3, <2>4 DEF Public
<1>2. Unread' = Unread /\ Unread \subseteq Incoming
  BY DEF Unread, InboxOK
<1>3. \A i : Under(i) => i \notin secret /\ i \notin Unread
  BY <1>2, BrowserAssumption DEF Under, PrivateInv
<1>4. \A o \in Outgoing : send'[o] = "new" => send[o] = "new"
  BY DEF Moves
<1>5. \A o \in Outgoing : send[o] = "new" => ~Under(o)
  BY DEF Under, Waiting
<1>6. \A o \in Outgoing : send'[o] \in Waiting => send[o] \in Waiting
  BY DEF Moves
<1>7. Public' \cap secret' = {} /\ Public' \cap Unread' = {} /\ secret' \cap Unread' = {} /\ secret' \subseteq Items
  BY <1>1, <1>2, <1>3 DEF PrivateInv
<1>8. \A o \in Outgoing : send'[o] = "new" => o \notin Public' /\ o \notin secret'
  BY <1>1, <1>4, <1>5 DEF PrivateInv
<1>9. \A o \in Outgoing : send'[o] \in Waiting => (o \in secret' <=> private')
  BY <1>6 DEF PrivateInv
<1>10. \A o \in Outgoing : send'[o] \in {"recording", "confirming"} => ~private'
  BY DEF Moves, PrivateInv
<1> QED
  BY <1>7, <1>8, <1>9, <1>10 DEF PrivateInv

LEMMA SameMoves == ASSUME UNCHANGED send PROVE Moves
BY DEF Moves

LEMMA QueuePublic == ASSUME UNCHANGED queue PROVE ItemsIn(queue') \subseteq Public
BY DEF Public

LEMMA TaskPublic == ASSUME NEW t \in tasks PROVE TaskItems(t) \subseteq Public
BY DEF Public

LEMMA NoneMade == ASSUME UNCHANGED rows PROVE \A i \in Items : rows'[i] # "none" => rows[i] # "none" \/ i \in Public
OBVIOUS

\* A step that touches neither the server, the queue nor the tasks.
LEMMA QuietStep ==
  ASSUME InboxOK, PrivateInv, UNCHANGED <<secret, private, inbox, rows, queue, tasks>>, Moves, batch' \in {batch, <<>>}
  PROVE  PrivateInv'
<1>1. \A i \in Items : rows'[i] # "none" => rows[i] # "none" \/ i \in Public
  BY NoneMade
<1>2. ItemsIn(queue') \subseteq Public
  BY QueuePublic
<1>3. \A t \in tasks' : t \in tasks \/ \A i \in TaskItems(t) : i \in Public \/ Under(i)
  OBVIOUS
<1> QED
  BY <1>1, <1>2, <1>3, PrivacyFrame

\* A step that only replaces or adds tasks.
LEMMA TaskStep ==
  ASSUME InboxOK, PrivateInv, UNCHANGED <<secret, private, inbox, rows, queue>>, Moves, batch' \in {batch, <<>>},
         \A t \in tasks' : t \in tasks \/ \A i \in TaskItems(t) : i \in Public \/ Under(i)
  PROVE  PrivateInv'
<1>1. \A i \in Items : rows'[i] # "none" => rows[i] # "none" \/ i \in Public
  BY NoneMade
<1>2. ItemsIn(queue') \subseteq Public
  BY QueuePublic
<1> QED
  BY <1>1, <1>2, PrivacyFrame

\* What the tab shows, after a row or several.
LEMMA ListStep ==
  ASSUME ListOK, NEW r \in RowSet, listing' = Shown(listing, r)
  PROVE  ListOK'
<1>1. Single(listing) /\ listing \subseteq RowSet
  BY DEF ListOK, RowOnce, Single
<1>2. Shown(listing, r) \subseteq RowSet /\ Single(Shown(listing, r))
  BY <1>1, ShownOK
<1> QED
  BY <1>2 DEF ListOK, RowOnce, Single

LEMMA UpdatedOK ==
  ASSUME NEW v, v \subseteq RowSet, Single(v), NEW i, NEW id, NEW s \in {"sent", "delivered"}
  PROVE  Updated(v, i, id, s) \subseteq RowSet /\ Single(Updated(v, i, id, s))
<1> DEFINE F(x) == IF x.item = i /\ x.id = id THEN [x EXCEPT !.status = FinalStatus(x.status, s)] ELSE x
<1>1. ASSUME NEW x \in v PROVE F(x) \in RowSet /\ F(x).item = x.item
  <2>1. x \in RowSet /\ FinalStatus(x.status, s) \in {"sent", "delivered"}
    BY DEF FinalStatus, RowSet
  <2> QED
    BY <2>1 DEF RowSet
<1>2. Updated(v, i, id, s) = {F(x) : x \in v}
  BY DEF Updated
<1> HIDE DEF F
<1> QED
  BY <1>1, <1>2 DEF Single

LEMMA ListSteps ==
  ASSUME ListOK, NEW rs \in Seq(RowSet), listing' = ShownAll(listing, rs)
  PROVE  ListOK'
<1>1. Single(listing) /\ listing \subseteq RowSet
  BY DEF ListOK, RowOnce, Single
<1>2. ShownAll(listing, rs) \subseteq RowSet /\ Single(ShownAll(listing, rs))
  BY <1>1, ShownAllOK
<1> QED
  BY <1>2 DEF ListOK, RowOnce, Single

LEMMA LocalRowsOK == ASSUME NEW w \in Seq(Records) PROVE LocalRows(w) \in Seq(RowSet)
<1>1. Len(w) \in Nat /\ DOMAIN w = 1..Len(w) /\ \A k \in DOMAIN w : w[k] \in Records
  OBVIOUS
<1>2. \A r \in Records : LocalRow(r) \in RowSet
  BY DEF LocalRow, RowSet, Records
<1>3. LocalRows(w) \in [1..Len(w) -> RowSet]
  BY <1>1, <1>2 DEF LocalRows
<1> QED
  BY <1>1, <1>3, MapSeq

\* The parts of the invariant that hold as long as their variables stay.
LEMMA Stays ==
  ASSUME TabInv
  PROVE  /\ UNCHANGED <<session, link, private, drain, again, send, ack, localId>> => ModeOK'
         /\ UNCHANGED rows => RowsOK'
         /\ UNCHANGED queue => QueueOK'
         /\ UNCHANGED <<session, tasks>> => TasksOK'
         /\ UNCHANGED inbox => InboxOK'
         /\ batch' \in {batch, <<>>} => BatchOK'
         /\ UNCHANGED feed => FeedOK'
         /\ UNCHANGED listing => ListOK'
<1>1. UNCHANGED <<session, link, private, drain, again, send, ack, localId>> => ModeOK'
  BY DEF TabInv, ModeOK
<1>2. UNCHANGED <<session, tasks>> => TasksOK'
  BY DEF TabInv, TasksOK
<1>3. batch' \in {batch, <<>>} => BatchOK'
  BY NoItems DEF TabInv, BatchOK
<1>4. UNCHANGED listing => ListOK'
  BY DEF TabInv, ListOK, RowOnce
<1> QED
  BY <1>1, <1>2, <1>3, <1>4 DEF TabInv, RowsOK, QueueOK, InboxOK, FeedOK

---------------------------------------------------------------------------
(* The invariant and privacy, step by step: the drain.                     *)

LEMMA DrainMode ==
  ASSUME ModeOK, DrainMessages, link \in Active, link' \in Active, UNCHANGED <<session, private, send, ack, localId>>
  PROVE  ModeOK'
BY DEF ModeOK, DrainMessages, Active

LEMMA MsgWaitingKeeps == ASSUME TabInv, PrivateInv, MsgWaiting PROVE TabInv' /\ PrivateInv'
<1>1. /\ DrainMessages /\ link \in Active /\ link' \in Active
      /\ UNCHANGED <<session, private, inbox, batch, send, ack, localId, tasks, queue, rows, feed, listing, secret>>
  BY DEF MsgWaiting, radio, sending, history
<1>2. ModeOK'
  BY <1>1, DrainMode DEF TabInv
<1>3. PrivateInv'
  BY <1>1, QuietStep, SameMoves DEF TabInv
<1> QED
  BY <1>1, <1>2, <1>3, Stays DEF TabInv

LEMMA SyncDrainsKeeps == ASSUME TabInv, PrivateInv, SyncDrains PROVE TabInv' /\ PrivateInv'
<1>1. /\ DrainMessages /\ link \in Active /\ link' \in Active
      /\ UNCHANGED <<session, private, inbox, batch, send, ack, localId, tasks, queue, rows, feed, listing, secret>>
  BY DEF SyncDrains, sending, history, Active
<1>2. ModeOK'
  BY <1>1, DrainMode DEF TabInv
<1>3. PrivateInv'
  BY <1>1, QuietStep, SameMoves DEF TabInv
<1> QED
  BY <1>1, <1>2, <1>3, Stays DEF TabInv

\* The frame that is read leaves the radio: from here on it is secret, or public.
LEMMA ReadOneKeeps == ASSUME TabInv, PrivateInv, ReadOne PROVE TabInv' /\ PrivateInv'
<1> PICK i : i = Head(inbox)
  OBVIOUS
<1>1. /\ inbox # <<>> /\ batch' = Append(batch, Rec(i, "sent")) /\ inbox' = Tail(inbox)
      /\ secret' = IF private THEN secret \cup {i} ELSE secret
      /\ UNCHANGED <<session, link, private, drain, again, send, ack, localId, tasks, queue, rows, feed, listing>>
  BY DEF ReadOne, sending
<1>2. inbox \in Seq(Incoming) /\ batch \in Seq(Records) /\ \A j, k \in DOMAIN inbox : inbox[j] = inbox[k] => j = k
  BY DEF TabInv, InboxOK, BatchOK
<1>3. /\ i = inbox[1] /\ 1 \in DOMAIN inbox /\ i \in Incoming /\ Tail(inbox) \in Seq(Incoming)
      /\ \A k \in DOMAIN Tail(inbox) : k + 1 \in DOMAIN inbox /\ Tail(inbox)[k] = inbox[k + 1] /\ k \in Nat /\ k + 1 # 1
  BY <1>1, <1>2
<1>4. \A k \in DOMAIN inbox' : inbox'[k] \in Unread /\ inbox'[k] # i
  BY <1>1, <1>2, <1>3 DEF Unread
<1>5. InboxOK'
  <2>1. ASSUME NEW j \in DOMAIN Tail(inbox), NEW k \in DOMAIN Tail(inbox), Tail(inbox)[j] = Tail(inbox)[k] PROVE j = k
    <3>1. j + 1 = k + 1 /\ j \in Nat /\ k \in Nat
      BY <1>2, <1>3, <2>1
    <3> QED
      BY <3>1
  <2> QED
    BY <1>1, <1>3, <2>1 DEF InboxOK
<1>6. Rec(i, "sent") \in Records /\ Rec(i, "sent").item = i
  BY <1>3 DEF Rec, Records, Items
<1> PICK r : r = Rec(i, "sent")
  OBVIOUS
<1>7. batch' \in Seq(Records) /\ ItemsOf(batch') \subseteq ItemsOf(batch) \cup {i}
  <2>1. batch' = Append(batch, r) /\ r \in Records /\ r.item = i
    BY <1>1, <1>6
  <2>2. DOMAIN batch' = 1..(Len(batch) + 1) /\ DOMAIN batch = 1..Len(batch) /\ Len(batch) \in Nat /\ batch' \in Seq(Records)
    BY <1>2, <2>1
  <2>3. ASSUME NEW k \in DOMAIN batch' PROVE batch'[k].item \in ItemsOf(batch) \cup {i}
    <3>1. CASE k = Len(batch) + 1
      BY <1>2, <2>1, <2>2, <3>1
    <3>2. CASE k # Len(batch) + 1
      <4>1. k \in DOMAIN batch /\ batch'[k] = batch[k]
        BY <1>2, <2>1, <2>2, <3>2
      <4> QED
        BY <4>1 DEF ItemsOf
    <3> QED
      BY <3>1, <3>2
  <2> QED
    BY <2>2, <2>3 DEF ItemsOf
<1>8. BatchOK'
  BY <1>7 DEF BatchOK
<1>9. TabInv'
  BY <1>1, <1>5, <1>8, Stays DEF TabInv
<1>10. i \in Unread /\ i \notin Public /\ i \notin secret /\ i \notin Outgoing /\ i \in Items
  BY <1>3, BrowserAssumption DEF Unread, PrivateInv, Items
<1>11. Unread' \subseteq Unread \ {i}
  BY <1>4 DEF Unread
<1>12. Public' \subseteq Public \cup (IF private THEN {} ELSE {i})
  BY <1>1, <1>7 DEF Public
<1>13. Public' \cap secret' = {} /\ Public' \cap Unread' = {} /\ secret' \cap Unread' = {} /\ secret' \subseteq Items
  BY <1>1, <1>10, <1>11, <1>12 DEF PrivateInv
<1>14. \A o \in Outgoing : (o \in secret' <=> o \in secret) /\ (o \in Public' => o \in Public)
  BY <1>1, <1>10, <1>12
<1>15. PrivateInv'
  BY <1>1, <1>13, <1>14 DEF PrivateInv
<1> QED
  BY <1>9, <1>15

LEMMA EndsMode ==
  ASSUME ModeOK, DrainEnds, link \in Active, UNCHANGED <<session, private, send, ack, localId>>
  PROVE  ModeOK'
BY DEF ModeOK, DrainEnds, Active

\* What a session that is not private has read is posted; what a private one has
\* read is only shown.
LEMMA ReadEmptyKeeps == ASSUME TabInv, PrivateInv, ReadEmpty PROVE TabInv' /\ PrivateInv'
<1>1. /\ UNCHANGED <<session, private, inbox, send, ack, localId, queue, rows, feed, secret>> /\ drain = "reading"
  BY DEF ReadEmpty, sending, history
<1>2. link \in Active
  BY <1>1 DEF TabInv, ModeOK, Active
<1>3. CASE batch = <<>> \/ private
  <2>1. DrainEnds /\ listing' = ShownAll(listing, LocalRows(batch)) /\ tasks' = tasks /\ batch' = <<>>
    BY <1>3 DEF ReadEmpty, DrainEnds
  <2>2. ModeOK'
    BY <1>1, <1>2, <2>1, EndsMode DEF TabInv
  <2>3. LocalRows(batch) \in Seq(RowSet)
    BY LocalRowsOK DEF TabInv, BatchOK
  <2>4. ListOK'
    BY <2>1, <2>3, ListSteps DEF TabInv
  <2>5. PrivateInv'
    BY <1>1, <2>1, QuietStep, SameMoves DEF TabInv
  <2> QED
    BY <1>1, <2>1, <2>2, <2>4, <2>5, Stays DEF TabInv
<1>4. CASE ~(batch = <<>> \/ private)
  <2> PICK u : u = Task("post", "drain", batch)
    OBVIOUS
  <2>1. drain' = "posting" /\ tasks' = tasks \cup {u} /\ UNCHANGED <<listing, link, again, batch>> /\ ~private
    BY <1>4 DEF ReadEmpty
  <2>2. ModeOK'
    BY <1>1, <1>2, <2>1 DEF TabInv, ModeOK, Active
  <2>3. session \in Nat /\ batch \in Seq(Records) /\ "drain" \in Jobs /\ session' = session
    BY <1>1, BrowserAssumption DEF TabInv, ModeOK, BatchOK, Jobs
  <2>4. TaskOK(u) /\ u.session = session /\ TaskItems(u) = ItemsOf(batch)
    BY <2>3, TaskIsOK
  <2>5. TasksOK'
    <3>1. session \in 1..session
      BY <1>2, <2>3 DEF TabInv, ModeOK, Active
    <3> QED
      BY <2>1, <2>3, <2>4, <3>1, TasksKept DEF TabInv
  <2>6. PrivateInv'
    <3>1. \A t \in tasks' : t \in tasks \/ \A i \in TaskItems(t) : i \in Public \/ Under(i)
      BY <2>1, <2>4 DEF Public
    <3> QED
      BY <1>1, <2>1, <3>1, TaskStep, SameMoves DEF TabInv
  <2> QED
    BY <1>1, <2>1, <2>2, <2>5, <2>6, Stays DEF TabInv
<1> QED
  BY <1>3, <1>4

LEMMA FeedKeeps == ASSUME TabInv, PrivateInv, FeedDelivers PROVE TabInv' /\ PrivateInv'
<1> PICK e : e = Head(feed)
  OBVIOUS
<1>1. /\ feed # <<>> /\ feed' = Tail(feed)
      /\ listing' = IF e.type = "new" THEN Shown(listing, e.row) ELSE Updated(listing, e.row.item, "server", e.row.status)
      /\ UNCHANGED <<session, link, private, inbox, drain, again, batch, send, ack, localId, tasks, queue, rows, secret>>
  BY DEF FeedDelivers, radio, draining, sending, history
<1>2. feed \in Seq(Events)
  BY DEF TabInv, FeedOK
<1>3. feed' \in Seq(Events) /\ e \in Events
  BY <1>1, <1>2
<1>4. e.row \in RowSet /\ e.row.status \in {"sent", "delivered"}
  BY <1>3 DEF Events, RowSet
<1>5. ListOK'
  <2>1. CASE e.type = "new"
    BY <1>1, <1>4, <2>1, ListStep DEF TabInv
  <2>2. CASE e.type # "new"
    <3>1. Single(listing) /\ listing \subseteq RowSet
      BY DEF TabInv, ListOK, RowOnce, Single
    <3>2. listing' \subseteq RowSet /\ Single(listing')
      BY <1>1, <1>4, <2>2, <3>1, UpdatedOK
    <3> QED
      BY <3>2 DEF ListOK, RowOnce, Single
  <2> QED
    BY <2>1, <2>2
<1>6. PrivateInv'
  BY <1>1, QuietStep, SameMoves DEF TabInv
<1>7. FeedOK'
  BY <1>3 DEF FeedOK
<1> QED
  BY <1>1, <1>5, <1>6, <1>7, Stays DEF TabInv

LEMMA FlushKeeps == ASSUME TabInv, PrivateInv, FlushQueue PROVE TabInv' /\ PrivateInv'
<1> PICK u : u = Task("take", "flush", <<>>)
  OBVIOUS
<1>1. /\ tasks' = tasks \cup {u} /\ link = "on"
      /\ UNCHANGED <<session, link, private, inbox, drain, again, batch, send, ack, localId, queue, rows, feed, listing, secret>>
  BY DEF FlushQueue, radio, draining, sending, history
<1>2. session \in Nat /\ "flush" \in Jobs /\ <<>> \in Seq(Records) /\ session' = session
  BY <1>1, NoItems, BrowserAssumption DEF TabInv, ModeOK, Jobs
<1>3. TaskOK(u) /\ u.session = session /\ TaskItems(u) = {}
  BY <1>2, NoItems, TaskIsOK
<1>4. TasksOK'
  <2>1. session \in 1..session
    BY <1>1, <1>2 DEF TabInv, ModeOK
  <2> QED
    BY <1>1, <1>2, <1>3, <2>1, TasksKept DEF TabInv
<1>5. PrivateInv'
  <2>1. \A t \in tasks' : t \in tasks \/ \A i \in TaskItems(t) : i \in Public \/ Under(i)
    BY <1>1, <1>3
  <2> QED
    BY <1>1, <2>1, TaskStep, SameMoves DEF TabInv
<1> QED
  BY <1>1, <1>4, <1>5, Stays DEF TabInv

---------------------------------------------------------------------------
(* Sends.                                                                  *)

\* The send under way goes on, or ends.
LEMMA SendMode ==
  ASSUME ModeOK, NEW o \in Outgoing, send[o] \in Waiting, NEW s \in {"done", "failed"} \cup Waiting, send' = [send EXCEPT ![o] = s],
         ack' \in {"none", "early", "taken"}, localId' \in {"none", "local", "server"},
         UNCHANGED <<session, link, private, drain, again>>
  PROVE  ModeOK'
<1>1. link \notin {"off", "lost"} /\ send' \in [Outgoing -> {"new", "done", "failed"} \cup Waiting]
  BY DEF ModeOK
<1>2. \A p \in Outgoing : send'[p] \in Waiting => send[p] \in Waiting
  BY DEF ModeOK
<1> QED
  BY <1>1, <1>2 DEF ModeOK

LEMMA SendMoves ==
  ASSUME ModeOK, NEW o \in Outgoing, send[o] \in Waiting, NEW s, s # "new", s \in {"recording", "confirming"} => ~private,
         send' = [send EXCEPT ![o] = s]
  PROVE  Moves
BY DEF ModeOK, Moves

\* A send that begins is secret in a private session: nothing of it is public yet.
LEMMA UserSendsKeeps == ASSUME TabInv, PrivateInv, NEW o \in Outgoing, UserSends(o) PROVE TabInv' /\ PrivateInv'
<1>1. /\ link = "on" /\ send[o] = "new" /\ (\A p \in Outgoing : send[p] \notin Waiting) /\ send' = [send EXCEPT ![o] = "onair"]
      /\ secret' = IF private THEN secret \cup {o} ELSE secret
      /\ UNCHANGED <<session, link, private, inbox, drain, again, batch, ack, localId, tasks, queue, rows, feed, listing>>
  BY DEF UserSends, radio, draining
<1>2. /\ send' \in [Outgoing -> {"new", "done", "failed"} \cup Waiting] /\ send'[o] = "onair"
      /\ \A p \in Outgoing \ {o} : send'[p] = send[p]
  BY <1>1 DEF TabInv, ModeOK, Waiting
<1>3. ModeOK'
  BY <1>1, <1>2 DEF TabInv, ModeOK
<1>4. TabInv'
  BY <1>1, <1>3, Stays DEF TabInv
<1>5. o \notin Public /\ o \notin secret /\ o \in Items
  BY <1>1 DEF PrivateInv, Items
<1>6. Public' = Public
  BY <1>1 DEF Public
<1>7. Unread' = Unread /\ o \notin Unread
  BY <1>1, BrowserAssumption DEF Unread, TabInv, InboxOK
<1>8. Public' \cap secret' = {} /\ Public' \cap Unread' = {} /\ secret' \cap Unread' = {} /\ secret' \subseteq Items
  BY <1>1, <1>5, <1>6, <1>7 DEF PrivateInv
<1>9. \A p \in Outgoing : send'[p] = "new" => p \notin Public' /\ p \notin secret'
  BY <1>1, <1>2, <1>6 DEF PrivateInv
<1>10. \A p \in Outgoing : send'[p] \in Waiting => (p \in secret' <=> private')
  BY <1>1, <1>2, <1>5
<1>11. \A p \in Outgoing : send'[p] \in {"recording", "confirming"} => ~private'
  BY <1>1, <1>2 DEF PrivateInv
<1>12. PrivateInv'
  BY <1>8, <1>9, <1>10, <1>11 DEF PrivateInv
<1> QED
  BY <1>4, <1>12

\* A task that tells the server of a send under way, in a session that is not private.
LEMMA TellStep ==
  ASSUME TabInv, PrivateInv, NEW o \in Outgoing, send[o] \in Waiting, ~private, NEW s \in {"sent", "delivered"}, NEW job \in {"send", "ack"},
         NEW ts, ts \subseteq tasks, tasks' = ts \cup {Task("post", job, <<Rec(o, s)>>)}, UNCHANGED session
  PROVE  TasksOK' /\ \A t \in tasks' : t \in tasks \/ \A i \in TaskItems(t) : i \in Public \/ Under(i)
<1> PICK u : u = Task("post", job, <<Rec(o, s)>>)
  OBVIOUS
<1>1. session \in Nat /\ session \in 1..session
  BY BrowserAssumption DEF TabInv, ModeOK
<1>2. TaskOK(u) /\ u.session = session /\ TaskItems(u) = {o}
  BY <1>1, SendTask
<1>3. TasksOK'
  <2>1. \A t \in tasks' : t \in tasks \/ (TaskOK(t) /\ t.session \in 1..session)
    BY <1>1, <1>2
  <2> QED
    BY <1>1, <2>1, TasksKept DEF TabInv
<1> QED
  BY <1>2, <1>3 DEF Under

LEMMA AcceptedKeeps == ASSUME TabInv, PrivateInv, NEW o \in Outgoing, Accepted(o) PROVE TabInv' /\ PrivateInv'
<1>1. /\ send[o] = "onair" /\ send[o] \in Waiting
      /\ UNCHANGED <<session, link, private, inbox, drain, again, batch, queue, rows, feed, secret>>
  BY DEF Accepted, radio, draining, history, Waiting
<1>2. CASE private
  <2> PICK r : r = LocalRow(Rec(o, IF ack = "early" THEN "delivered" ELSE "sent"))
    OBVIOUS
  <2>1. /\ listing' = Shown(listing, r) /\ tasks' = tasks
        /\ \E s \in {"done", "awaiting"} : send' = [send EXCEPT ![o] = s]
        /\ ack' \in {"none", ack} /\ localId' \in {"none", "local"}
    BY <1>2 DEF Accepted, Settles
  <2>2. PICK s \in {"done", "awaiting"} : send' = [send EXCEPT ![o] = s]
    BY <2>1
  <2>3. r \in RowSet
    BY DEF LocalRow, Rec, RowSet, Items
  <2>4. ListOK'
    BY <2>1, <2>3, ListStep DEF TabInv
  <2>5. ack' \in {"none", "early", "taken"} /\ localId' \in {"none", "local", "server"} /\ s \in {"done", "failed"} \cup Waiting
    BY <2>1 DEF TabInv, ModeOK, Waiting
  <2>6. ModeOK'
    BY <1>1, <2>2, <2>5, SendMode DEF TabInv
  <2>7. Moves
    BY <1>1, <2>2, SendMoves DEF TabInv
  <2>8. PrivateInv'
    BY <1>1, <2>1, <2>7, QuietStep DEF TabInv
  <2> QED
    BY <1>1, <2>1, <2>4, <2>6, <2>8, Stays DEF TabInv
<1>3. CASE ~private
  <2>1. /\ send' = [send EXCEPT ![o] = "recording"] /\ UNCHANGED <<ack, localId, listing>>
        /\ tasks' = tasks \cup {Task("post", "send", <<Rec(o, "sent")>>)}
    BY <1>3 DEF Accepted
  <2>2. ack' \in {"none", "early", "taken"} /\ localId' \in {"none", "local", "server"} /\ "recording" \in {"done", "failed"} \cup Waiting
    BY <2>1 DEF TabInv, ModeOK, Waiting
  <2>3. ModeOK'
    BY <1>1, <2>1, <2>2, SendMode DEF TabInv
  <2>4. Moves
    BY <1>1, <1>3, <2>1, SendMoves DEF TabInv
  <2>5. TasksOK' /\ \A t \in tasks' : t \in tasks \/ \A i \in TaskItems(t) : i \in Public \/ Under(i)
    BY <1>1, <1>3, <2>1, TellStep
  <2>6. PrivateInv'
    BY <1>1, <2>4, <2>5, TaskStep DEF TabInv
  <2> QED
    BY <1>1, <2>1, <2>3, <2>5, <2>6, Stays DEF TabInv
<1> QED
  BY <1>2, <1>3

LEMMA SettlesKeeps ==
  ASSUME TabInv, PrivateInv, NEW o \in Outgoing, send[o] \in Waiting, NEW how \in {"done", "failed"}, Settles(o, how),
         UNCHANGED <<session, link, private, inbox, drain, again, batch, tasks, queue, rows, feed, listing, secret>>
  PROVE  TabInv' /\ PrivateInv'
<1>1. send' = [send EXCEPT ![o] = how] /\ ack' = "none" /\ localId' = "none"
  BY DEF Settles
<1>2. ModeOK'
  BY <1>1, SendMode DEF TabInv
<1>3. Moves
  BY <1>1, SendMoves DEF TabInv
<1>4. PrivateInv'
  BY <1>3, QuietStep DEF TabInv
<1> QED
  BY <1>2, <1>4, Stays DEF TabInv

LEMMA RefusedKeeps == ASSUME TabInv, PrivateInv, NEW o \in Outgoing, Refused(o) PROVE TabInv' /\ PrivateInv'
BY SettlesKeeps DEF Refused, radio, draining, history, Waiting

LEMMA TimeoutKeeps == ASSUME TabInv, PrivateInv, NEW o \in Outgoing, AckTimeout(o) PROVE TabInv' /\ PrivateInv'
BY SettlesKeeps DEF AckTimeout, radio, draining, history, Waiting

\* An acknowledgement is told to the server only by a session that is not private.
LEMMA ConfirmedKeeps == ASSUME TabInv, PrivateInv, NEW o \in Outgoing, SendConfirmed(o) PROVE TabInv' /\ PrivateInv'
<1>1. UNCHANGED <<session, link, private, inbox, drain, again, batch, queue, rows, feed, secret>>
  BY DEF SendConfirmed, radio, draining, history
<1>2. CASE ack' \in {"early", "taken"} /\ UNCHANGED <<send, localId, tasks, listing>>
  <2>1. ModeOK'
    BY <1>1, <1>2 DEF TabInv, ModeOK
  <2>2. PrivateInv'
    BY <1>1, <1>2, QuietStep, SameMoves DEF TabInv
  <2> QED
    BY <1>1, <1>2, <2>1, <2>2, Stays DEF TabInv
<1>3. CASE send[o] = "awaiting" /\ Confirmed(o)
  <2>1. send[o] \in Waiting
    BY <1>3 DEF Waiting
  <2>2. ListOK'
    <3>1. Single(listing) /\ listing \subseteq RowSet
      BY DEF TabInv, ListOK, RowOnce, Single
    <3>2. listing' = Updated(listing, o, localId, "delivered")
      BY <1>3 DEF Confirmed
    <3>3. listing' \subseteq RowSet /\ Single(listing')
      BY <3>1, <3>2, UpdatedOK
    <3> QED
      BY <3>3 DEF ListOK, RowOnce, Single
  <2>3. CASE private
    <3>1. send' = [send EXCEPT ![o] = "done"] /\ ack' = "none" /\ localId' = "none" /\ tasks' = tasks
      BY <1>3, <2>3 DEF Confirmed, Settles
    <3>2. ModeOK'
      BY <1>1, <2>1, <3>1, SendMode DEF TabInv
    <3>3. Moves
      BY <2>1, <3>1, SendMoves DEF TabInv
    <3>4. PrivateInv'
      BY <1>1, <3>1, <3>3, QuietStep DEF TabInv
    <3> QED
      BY <1>1, <2>2, <3>1, <3>2, <3>4, Stays DEF TabInv
  <2>4. CASE ~private
    <3>1. /\ send' = [send EXCEPT ![o] = "confirming"] /\ UNCHANGED <<ack, localId>>
          /\ tasks' = tasks \cup {Task("post", "ack", <<Rec(o, "delivered")>>)}
      BY <1>3, <2>4 DEF Confirmed, Tells
    <3>2. ack' \in {"none", "early", "taken"} /\ localId' \in {"none", "local", "server"} /\ "confirming" \in {"done", "failed"} \cup Waiting
      BY <3>1 DEF TabInv, ModeOK, Waiting
    <3>3. ModeOK'
      BY <1>1, <2>1, <3>1, <3>2, SendMode DEF TabInv
    <3>4. Moves
      BY <2>1, <2>4, <3>1, SendMoves DEF TabInv
    <3>5. TasksOK' /\ \A t \in tasks' : t \in tasks \/ \A i \in TaskItems(t) : i \in Public \/ Under(i)
      BY <1>1, <2>1, <2>4, <3>1, TellStep
    <3>6. PrivateInv'
      BY <1>1, <3>4, <3>5, TaskStep DEF TabInv
    <3> QED
      BY <1>1, <2>2, <3>3, <3>5, <3>6, Stays DEF TabInv
  <2> QED
    BY <2>3, <2>4
<1> QED
  BY <1>2, <1>3 DEF SendConfirmed

---------------------------------------------------------------------------
(* Tasks.                                                                  *)

LEMMA ListIs ==
  ASSUME listing' \subseteq RowSet, Single(listing')
  PROVE  ListOK'
BY DEF ListOK, RowOnce, Single

LEMMA TabList == ASSUME ListOK PROVE listing \subseteq RowSet /\ Single(listing)
BY DEF ListOK, RowOnce, Single

\* The send o goes on as s, and nothing is told.
LEMMA GoesOn ==
  ASSUME TabInv, PrivateInv, NEW o \in Outgoing, send[o] \in Waiting, NEW s \in {"done", "awaiting"}, send' = [send EXCEPT ![o] = s],
         ack' \in {"none", "early", "taken"}, localId' \in {"none", "local", "server"}, tasks' \subseteq tasks,
         UNCHANGED <<session, link, private, drain, again>>
  PROVE  /\ ModeOK' /\ TasksOK' /\ Moves
         /\ \A u \in tasks' : u \in tasks \/ \A i \in TaskItems(u) : i \in Public \/ Under(i)
<1>1. ModeOK'
  BY SendMode DEF TabInv, Waiting
<1>2. Moves
  BY SendMoves DEF TabInv
<1>3. TasksOK'
  BY TasksKept, BrowserAssumption DEF TabInv, ModeOK
<1> QED
  BY <1>1, <1>2, <1>3

\* The caller of a task goes on, if its session is still there and waits for it.
LEMMA ResumeStep ==
  ASSUME TabInv, PrivateInv, NEW t \in tasks, NEW v, v \subseteq RowSet, Single(v), Resume(t, tasks \ {t}, v)
  PROVE  /\ ModeOK' /\ ListOK' /\ TasksOK' /\ Moves /\ UNCHANGED <<session, private, inbox>> /\ batch' \in {batch, <<>>}
         /\ \A u \in tasks' : u \in tasks \/ \A i \in TaskItems(u) : i \in Public \/ Under(i)
<1> DEFINE A == t.job = "drain" /\ Current(t)
           B == t.job = "send" /\ Current(t) /\ send[ItemOf(t)] = "recording"
           C == t.job = "ack" /\ Current(t) /\ send[ItemOf(t)] = "confirming"
<1>1. session \in Nat
  BY BrowserAssumption DEF TabInv, ModeOK
<1>2. t.job \in {"send", "ack"} => ItemOf(t) \in Outgoing
  BY DEF TabInv, TasksOK, TaskOK
<1>3. CASE A
  <2>1. DrainEnds /\ tasks' = tasks \ {t} /\ listing' = v /\ UNCHANGED <<session, private, inbox, send, ack, localId>> /\ link \in Active
    BY <1>3 DEF Resume, sending, Current
  <2>2. ModeOK'
    BY <2>1, EndsMode DEF TabInv
  <2>3. ListOK'
    BY <2>1, ListIs
  <2>4. TasksOK'
    BY <1>1, <2>1, TasksKept DEF TabInv
  <2>5. batch' = <<>>
    BY <2>1 DEF DrainEnds
  <2> QED
    BY <2>1, <2>2, <2>3, <2>4, <2>5, SameMoves
<1>4. CASE B
  <2> PICK o : o = ItemOf(t)
    OBVIOUS
  <2> PICK id \in {"server", "local"} : id = IF t.kind = "post" /\ t.seen # <<>> THEN "server" ELSE "local"
    OBVIOUS
  <2>1. /\ Recorded(o, id, tasks \ {t}, v) /\ UNCHANGED <<session, link, private, inbox, drain, again, batch>>
        /\ o \in Outgoing /\ send[o] = "recording" /\ send[o] \in Waiting
    BY <1>2, <1>4 DEF Resume, radio, draining, Waiting
  <2>2. ~private
    BY <2>1 DEF PrivateInv
  <2>3. CASE ack = "early"
    <3>1. /\ listing' = Updated(v, o, id, "delivered") /\ send' = [send EXCEPT ![o] = "confirming"]
          /\ ack' = ack /\ localId' = id /\ tasks' = (tasks \ {t}) \cup {Task("post", "ack", <<Rec(o, "delivered")>>)}
      BY <2>1, <2>3 DEF Recorded, Tells
    <3>2. listing' \subseteq RowSet /\ Single(listing')
      BY <3>1, UpdatedOK
    <3>3. ListOK'
      BY <3>2, ListIs
    <3>4. ack' \in {"none", "early", "taken"} /\ localId' \in {"none", "local", "server"} /\ "confirming" \in {"done", "failed"} \cup Waiting
      BY <2>3, <3>1 DEF Waiting
    <3>5. ModeOK'
      BY <2>1, <3>1, <3>4, SendMode DEF TabInv
    <3>6. Moves
      BY <2>1, <2>2, <3>1, SendMoves DEF TabInv
    <3>7. TasksOK' /\ \A u \in tasks' : u \in tasks \/ \A i \in TaskItems(u) : i \in Public \/ Under(i)
      <4>1. tasks \ {t} \subseteq tasks
        OBVIOUS
      <4> QED
        BY <2>1, <2>2, <3>1, <4>1, TellStep
    <3> QED
      BY <2>1, <3>3, <3>5, <3>6, <3>7
  <2>4. CASE ack # "early"
    <3>1. /\ listing' = v /\ tasks' = tasks \ {t} /\ \E s \in {"done", "awaiting"} : send' = [send EXCEPT ![o] = s]
          /\ ack' \in {"none", ack} /\ localId' \in {"none", id}
      BY <2>1, <2>4 DEF Recorded, Settles
    <3>2. PICK s \in {"done", "awaiting"} : send' = [send EXCEPT ![o] = s]
      BY <3>1
    <3>3. ack' \in {"none", "early", "taken"} /\ localId' \in {"none", "local", "server"} /\ tasks' \subseteq tasks
      BY <3>1 DEF TabInv, ModeOK
    <3>4. ListOK'
      BY <3>1, ListIs
    <3>5. /\ ModeOK' /\ TasksOK' /\ Moves
          /\ \A u \in tasks' : u \in tasks \/ \A i \in TaskItems(u) : i \in Public \/ Under(i)
      BY <2>1, <3>2, <3>3, GoesOn
    <3> QED
      BY <2>1, <3>4, <3>5
  <2> QED
    BY <2>3, <2>4
<1>5. CASE C
  <2> PICK o : o = ItemOf(t)
    OBVIOUS
  <2> PICK r : r = [item |-> o, id |-> localId, status |-> "delivered"]
    OBVIOUS
  <2>1. /\ UNCHANGED <<session, link, private, inbox, drain, again, batch>> /\ tasks' = tasks \ {t}
        /\ send' = [send EXCEPT ![o] = "done"] /\ ack' = "none" /\ localId' = "none"
        /\ listing' = IF ack = "early" THEN Shown(v, r) ELSE v
        /\ o \in Outgoing /\ send[o] \in Waiting
    BY <1>2, <1>5 DEF Resume, radio, draining, Waiting, Settles
  <2>2. r \in RowSet
    BY <2>1 DEF RowSet, Items, TabInv, ModeOK
  <2>3. Shown(v, r) \subseteq RowSet /\ Single(Shown(v, r))
    BY <2>2, ShownOK
  <2>4. ListOK'
    BY <2>1, <2>3, ListIs
  <2>5. /\ ModeOK' /\ TasksOK' /\ Moves
        /\ \A u \in tasks' : u \in tasks \/ \A i \in TaskItems(u) : i \in Public \/ Under(i)
    <3>1. tasks' \subseteq tasks /\ ack' \in {"none", "early", "taken"} /\ localId' \in {"none", "local", "server"}
      BY <2>1
    <3> QED
      BY <2>1, <3>1, GoesOn
  <2> QED
    BY <2>1, <2>4, <2>5
<1>6. CASE ~A /\ ~B /\ ~C
  <2>1. /\ tasks' = tasks \ {t} /\ listing' = v
        /\ UNCHANGED <<session, link, private, inbox, drain, again, batch, send, ack, localId>>
    BY <1>6 DEF Resume, radio, draining, sending
  <2>2. ListOK'
    BY <2>1, ListIs
  <2>3. TasksOK'
    BY <1>1, <2>1, TasksKept DEF TabInv
  <2> QED
    BY <2>1, <2>2, <2>3, SameMoves, Stays
<1> QED
  BY <1>3, <1>4, <1>5, <1>6

LEMMA StoredOK ==
  ASSUME RowsOK, NEW w \in Seq(Records), rows' = Stored(w)
  PROVE  RowsOK' /\ \A i \in Items : rows'[i] # "none" => rows[i] # "none" \/ i \in ItemsOf(w)
<1>1. ASSUME NEW i \in Items
      PROVE  /\ rows'[i] \in {"none", "sent", "delivered"}
             /\ rows'[i] # "none" => rows[i] # "none" \/ i \in ItemsOf(w)
  <2>1. CASE \E k \in DOMAIN w : w[k].item = i
    <3> DEFINE k == CHOOSE k \in DOMAIN w : w[k].item = i
    <3>1. k \in DOMAIN w /\ w[k].item = i
      BY <2>1
    <3>2. rows'[i] = w[k].status
      BY <2>1 DEF Stored
    <3> HIDE DEF k
    <3>3. w[k] \in Records
      BY <3>1
    <3> QED
      BY <3>1, <3>2, <3>3 DEF Records, ItemsOf
  <2>2. CASE ~\E k \in DOMAIN w : w[k].item = i
    BY <2>2 DEF Stored, RowsOK
  <2> QED
    BY <2>1, <2>2
<1>2. rows' = [i \in Items |-> rows'[i]]
  BY DEF Stored
<1> QED
  BY <1>1, <1>2 DEF RowsOK

LEMMA ServerRowsOK ==
  ASSUME NEW w \in Seq(Records)
  PROVE  /\ [k \in DOMAIN w |-> ServerRow(w[k].item, w[k].status)] \in Seq(RowSet)
         /\ [k \in DOMAIN w |-> [type |-> IF Known(w[k].item) THEN "status" ELSE "new",
                                 row |-> ServerRow(w[k].item, w[k].status)]] \in Seq(Events)
<1>1. Len(w) \in Nat /\ DOMAIN w = 1..Len(w) /\ \A k \in DOMAIN w : w[k] \in Records
  OBVIOUS
<1>2. \A r \in Records : ServerRow(r.item, r.status) \in RowSet
  BY DEF ServerRow, RowSet, Records
<1>3. [k \in DOMAIN w |-> ServerRow(w[k].item, w[k].status)] \in [1..Len(w) -> RowSet]
  BY <1>1, <1>2
<1>4. [k \in DOMAIN w |-> [type |-> IF Known(w[k].item) THEN "status" ELSE "new",
                                 row |-> ServerRow(w[k].item, w[k].status)]] \in [1..Len(w) -> Events]
  BY <1>1, <1>2 DEF Events
<1> QED
  BY <1>1, <1>3, <1>4, MapSeq

\* What the server stores was posted, and so was public.
LEMMA StoresKeeps == ASSUME TabInv, PrivateInv, NEW t \in tasks, ServerStores(t) PROVE TabInv' /\ PrivateInv'
<1> PICK w : w = KeptOf(t.what)
  OBVIOUS
<1> PICK s : s = [k \in DOMAIN w |-> ServerRow(w[k].item, w[k].status)]
  OBVIOUS
<1> PICK e : e = [k \in DOMAIN w |-> [type |-> IF Known(w[k].item) THEN "status" ELSE "new",
                                      row |-> ServerRow(w[k].item, w[k].status)]]
  OBVIOUS
<1> PICK u : u = [t EXCEPT !.served = TRUE, !.seen = s]
  OBVIOUS
<1>1. /\ t.kind = "post" /\ rows' = Stored(w) /\ feed' = feed \o e /\ tasks' = (tasks \ {t}) \cup {u}
      /\ UNCHANGED <<session, link, private, inbox, drain, again, batch, send, ack, localId, queue, listing, secret>>
  BY DEF ServerStores, Ingest, radio, draining, sending, history
<1>2. TaskOK(t) /\ t.session \in 1..session /\ t.what \in Seq(Records) /\ session \in Nat
  BY TaskFields, BrowserAssumption DEF TabInv, TasksOK, ModeOK
<1>3. w \in Seq(Records) /\ ItemsOf(w) \subseteq ItemsOf(t.what)
  BY <1>2, KeptOfOK
<1>4. RowsOK' /\ \A i \in Items : rows'[i] # "none" => rows[i] # "none" \/ i \in ItemsOf(w)
  BY <1>1, <1>3, StoredOK DEF TabInv
<1>5. s \in Seq(RowSet) /\ e \in Seq(Events)
  BY <1>3, ServerRowsOK
<1>6. FeedOK'
  <2>1. feed \in Seq(Events)
    BY Zenon DEF TabInv, FeedOK
  <2>2. feed \o e \in Seq(Events)
    BY <1>5, <2>1, ConcatSeq, Zenon
  <2>3. feed' = feed \o e
    BY <1>1, Zenon
  <2> QED
    BY <2>2, <2>3, Zenon DEF FeedOK
<1>7. /\ u \in TaskSet(Seq(RowSet)) /\ u.kind = "post" /\ u.job = t.job /\ u.what = t.what /\ u.rest = t.rest
      /\ u.session = t.session
  <2>1. t \in TaskSet(Seq(RowSet))
    BY <1>1, <1>2 DEF TaskOK
  <2> QED
    BY <1>1, <1>5, <2>1 DEF TaskSet
<1>8. TaskOK(u)
  BY <1>2, <1>7 DEF TaskOK, ItemOf
<1>9. TaskItems(u) = TaskItems(t)
  BY <1>1, <1>7 DEF TaskItems
<1>10. TasksOK'
  <2>1. \A x \in tasks' : x \in tasks \/ (TaskOK(x) /\ x.session \in 1..session)
    BY <1>1, <1>2, <1>7, <1>8
  <2> QED
    BY <1>1, <1>2, <2>1, TasksKept DEF TabInv
<1>11. PrivateInv'
  <2>1. TaskItems(t) \subseteq Public /\ ItemsOf(w) \subseteq Public
    BY <1>3, TaskPublic DEF TaskItems
  <2>2. \A x \in tasks' : x \in tasks \/ \A i \in TaskItems(x) : i \in Public \/ Under(i)
    BY <1>1, <1>9, <2>1
  <2>3. \A i \in Items : rows'[i] # "none" => rows[i] # "none" \/ i \in Public
    BY <1>4, <2>1
  <2>4. ItemsIn(queue') \subseteq Public
    BY <1>1, QueuePublic
  <2>5. Moves
    BY <1>1, SameMoves
  <2> QED
    BY <1>1, <2>2, <2>3, <2>4, <2>5, PrivacyFrame DEF TabInv
<1> QED
  BY <1>1, <1>4, <1>6, <1>10, <1>11, Stays DEF TabInv

\* A task is replaced by the one that follows it.
LEMMA Follows ==
  ASSUME TabInv, PrivateInv, NEW t \in tasks, NEW kind \in {"post", "put"}, NEW what \in Seq(Records), NEW rest \in Entries,
         t.job \in {"send", "ack"} => what = t.what, ItemsOf(what) \cup ItemsIn(rest) \subseteq TaskItems(t), UNCHANGED session,
         tasks' = (tasks \ {t}) \cup {Follow(t, kind, what, rest)}
  PROVE  TasksOK' /\ \A u \in tasks' : u \in tasks \/ \A i \in TaskItems(u) : i \in Public \/ Under(i)
<1> PICK u : u = Follow(t, kind, what, rest)
  OBVIOUS
<1>1. TaskOK(t) /\ t.session \in 1..session /\ session \in Nat
  BY BrowserAssumption DEF TabInv, TasksOK, ModeOK
<1>2. TaskOK(u) /\ u.session = t.session /\ TaskItems(u) = ItemsOf(what) \cup ItemsIn(rest)
  BY <1>1, FollowOK
<1>3. TasksOK'
  <2>1. \A x \in tasks' : x \in tasks \/ (TaskOK(x) /\ x.session \in 1..session)
    BY <1>1, <1>2
  <2> QED
    BY <1>1, <2>1, TasksKept DEF TabInv
<1>4. TaskItems(u) \subseteq Public
  BY <1>2, TaskPublic
<1> QED
  BY <1>3, <1>4

LEMMA SucceedsKeeps == ASSUME TabInv, PrivateInv, NEW t \in tasks, PostSucceeds(t) PROVE TabInv' /\ PrivateInv'
<1> PICK v : v = ShownAll(listing, t.seen)
  OBVIOUS
<1> PICK lv : lv = IF t.job = "send" /\ t.seen = <<>> THEN Shown(v, LocalRow(t.what[1])) ELSE v
  OBVIOUS
<1>1. /\ t.kind = "post" /\ UNCHANGED <<queue, rows, feed, secret>>
      /\ IF t.job = "flush" /\ t.rest # <<>>
         THEN /\ tasks' = (tasks \ {t}) \cup {Posting(t, t.rest)} /\ listing' = v
              /\ UNCHANGED <<session, link, private, inbox, drain, again, batch, send, ack, localId>>
         ELSE Resume(t, tasks \ {t}, lv)
  BY DEF PostSucceeds, history, radio, draining, sending
<1>2. /\ TaskOK(t) /\ t.seen \in Seq(RowSet) /\ t.what \in Seq(Records) /\ t.rest \in Entries
      /\ t.job = "send" => t.what # <<>>
  BY <1>1, TaskFields DEF TabInv, TasksOK, TaskOK
<1>3. v \subseteq RowSet /\ Single(v)
  BY <1>2, TabList, ShownAllOK DEF TabInv
<1>4. lv \subseteq RowSet /\ Single(lv)
  <2>1. ASSUME t.job = "send" PROVE LocalRow(t.what[1]) \in RowSet
    <3>1. t.what[1] \in Records
      BY <1>2, <2>1
    <3> QED
      BY <3>1 DEF LocalRow, RowSet, Records
  <2>2. CASE t.job = "send" /\ t.seen = <<>>
    BY <1>3, <2>1, <2>2, ShownOK
  <2> QED
    BY <1>3, <2>2
<1>5. CASE t.job = "flush" /\ t.rest # <<>>
  <2>1. /\ tasks' = (tasks \ {t}) \cup {Follow(t, "post", Head(t.rest), Tail(t.rest))} /\ listing' = v
        /\ UNCHANGED <<session, link, private, inbox, drain, again, batch, send, ack, localId>>
    BY <1>1, <1>5 DEF Posting
  <2>2. /\ Head(t.rest) \in Seq(Records) /\ Tail(t.rest) \in Entries
        /\ ItemsOf(Head(t.rest)) \cup ItemsIn(Tail(t.rest)) \subseteq TaskItems(t)
    BY <1>2, <1>5, HeadItems DEF TaskItems
  <2>3. TasksOK' /\ \A u \in tasks' : u \in tasks \/ \A i \in TaskItems(u) : i \in Public \/ Under(i)
    BY <1>5, <2>1, <2>2, Follows
  <2>4. ListOK'
    BY <1>3, <2>1, ListIs
  <2>5. PrivateInv'
    BY <1>1, <2>1, <2>3, TaskStep, SameMoves DEF TabInv
  <2> QED
    BY <1>1, <2>1, <2>3, <2>4, <2>5, Stays DEF TabInv
<1>6. CASE ~(t.job = "flush" /\ t.rest # <<>>)
  <2>1. Resume(t, tasks \ {t}, lv)
    BY <1>1, <1>6
  <2>2. /\ ModeOK' /\ ListOK' /\ TasksOK' /\ Moves /\ UNCHANGED <<session, private, inbox>> /\ batch' \in {batch, <<>>}
        /\ \A u \in tasks' : u \in tasks \/ \A i \in TaskItems(u) : i \in Public \/ Under(i)
    BY <1>4, <2>1, ResumeStep
  <2>3. PrivateInv'
    BY <1>1, <2>2, TaskStep DEF TabInv
  <2> QED
    BY <1>1, <2>2, <2>3, Stays DEF TabInv
<1> QED
  BY <1>5, <1>6

LEMMA FailsKeeps == ASSUME TabInv, PrivateInv, NEW t \in tasks, PostFails(t) PROVE TabInv' /\ PrivateInv'
<1>1. /\ t.kind = "post" /\ tasks' = (tasks \ {t}) \cup {Follow(t, "put", t.what, t.rest)}
      /\ listing' = IF t.job = "drain" THEN ShownAll(listing, LocalRows(t.what)) ELSE listing
      /\ UNCHANGED <<session, link, private, inbox, drain, again, batch, send, ack, localId, queue, rows, feed, secret>>
  BY DEF PostFails, radio, draining, sending
<1>2. t.what \in Seq(Records) /\ t.rest \in Entries
  BY TaskFields DEF TabInv, TasksOK
<1>3. ListOK'
  <2>1. CASE t.job = "drain"
    <3>1. LocalRows(t.what) \in Seq(RowSet)
      BY <1>2, LocalRowsOK
    <3> QED
      BY <1>1, <2>1, <3>1, ListSteps DEF TabInv
  <2>2. CASE t.job # "drain"
    BY <1>1, <2>2, Stays
  <2> QED
    BY <2>1, <2>2
<1>4. TasksOK' /\ \A u \in tasks' : u \in tasks \/ \A i \in TaskItems(u) : i \in Public \/ Under(i)
  <2>1. ItemsOf(t.what) \cup ItemsIn(t.rest) \subseteq TaskItems(t)
    BY DEF TaskItems
  <2> QED
    BY <1>1, <1>2, <2>1, Follows
<1>5. PrivateInv'
  BY <1>1, <1>4, TaskStep, SameMoves DEF TabInv
<1> QED
  BY <1>1, <1>3, <1>4, <1>5, Stays DEF TabInv

\* The queue is read: a put or a take has seen what is public.
LEMMA ReadsKeeps == ASSUME TabInv, PrivateInv, NEW t \in tasks, QueueReads(t) PROVE TabInv' /\ PrivateInv'
<1> PICK u : u = [t EXCEPT !.served = TRUE, !.seen = queue]
  OBVIOUS
<1>1. /\ t.kind # "post" /\ tasks' = (tasks \ {t}) \cup {u}
      /\ UNCHANGED <<session, link, private, inbox, drain, again, batch, send, ack, localId, queue, rows, feed, listing, secret>>
  BY DEF QueueReads, radio, draining, sending, history
<1>2. TaskOK(t) /\ t.session \in 1..session /\ session \in Nat /\ queue \in Entries /\ Len(queue) <= MaxQueue
  BY BrowserAssumption DEF TabInv, TasksOK, ModeOK, QueueOK
<1>3. /\ u \in TaskSet(Entries) /\ u.kind = t.kind /\ u.job = t.job /\ u.what = t.what /\ u.rest = t.rest
      /\ u.session = t.session /\ u.seen = queue
  <2>1. t \in TaskSet(Entries)
    BY <1>1, <1>2 DEF TaskOK
  <2> QED
    BY <1>2, <2>1 DEF TaskSet
<1>4. TaskOK(u)
  BY <1>1, <1>2, <1>3 DEF TaskOK, ItemOf
<1>5. TaskItems(u) \subseteq TaskItems(t) \cup ItemsIn(queue)
  BY <1>1, <1>3 DEF TaskItems
<1>6. TasksOK'
  <2>1. \A x \in tasks' : x \in tasks \/ (TaskOK(x) /\ x.session \in 1..session)
    BY <1>1, <1>2, <1>3, <1>4
  <2> QED
    BY <1>1, <1>2, <2>1, TasksKept DEF TabInv
<1>7. PrivateInv'
  <2>1. TaskItems(t) \subseteq Public /\ ItemsIn(queue) \subseteq Public
    BY TaskPublic DEF Public
  <2>2. \A x \in tasks' : x \in tasks \/ \A i \in TaskItems(x) : i \in Public \/ Under(i)
    BY <1>1, <1>5, <2>1
  <2> QED
    BY <1>1, <2>2, TaskStep, SameMoves DEF TabInv
<1> QED
  BY <1>1, <1>6, <1>7, Stays DEF TabInv

LEMMA PruneOK ==
  ASSUME NEW q \in Entries, Len(q) <= MaxQueue + 1
  PROVE  /\ PruneQueue(q) \in Entries /\ Len(PruneQueue(q)) <= MaxQueue
         /\ ItemsIn(PruneQueue(q)) \subseteq ItemsIn(q)
<1>1. MaxQueue \in Nat /\ Len(q) \in Nat
  BY BrowserAssumption DEF Entries
<1>2. CASE Len(q) > MaxQueue
  <2>1. q # <<>> /\ Len(Tail(q)) = Len(q) - 1
    BY <1>1, <1>2 DEF Entries
  <2>2. Tail(q) \in Entries /\ ItemsIn(Tail(q)) \subseteq ItemsIn(q)
    BY <2>1, HeadItems
  <2> QED
    BY <1>1, <1>2, <2>1, <2>2 DEF PruneQueue
<1>3. CASE ~(Len(q) > MaxQueue)
  BY <1>1, <1>3 DEF PruneQueue
<1> QED
  BY <1>2, <1>3

\* A put writes what it has seen and its own entry, all of it public.
LEMMA PutKeeps == ASSUME TabInv, PrivateInv, NEW t \in tasks, PutWrites(t) PROVE TabInv' /\ PrivateInv'
<1> PICK lv : lv = IF t.job = "send" THEN Shown(listing, LocalRow(t.what[1])) ELSE listing
  OBVIOUS
<1>1. /\ t.kind = "put" /\ queue' = PruneQueue(Append(t.seen, t.what)) /\ UNCHANGED <<rows, feed, secret>>
      /\ IF t.job = "flush" /\ t.rest # <<>>
         THEN /\ tasks' = (tasks \ {t}) \cup {Follow(t, "put", Head(t.rest), Tail(t.rest))}
              /\ UNCHANGED <<listing, session, link, private, inbox, drain, again, batch, send, ack, localId>>
         ELSE Resume(t, tasks \ {t}, lv)
  BY DEF PutWrites, history, radio, draining, sending
<1>2. /\ TaskOK(t) /\ t.seen \in Entries /\ Len(t.seen) <= MaxQueue /\ t.what \in Seq(Records) /\ t.rest \in Entries
      /\ t.job = "send" => t.what # <<>>
  BY <1>1, TaskFields DEF TabInv, TasksOK, TaskOK
<1>3. QueueOK' /\ ItemsIn(queue') \subseteq Public
  <2> PICK q : q = Append(t.seen, t.what)
    OBVIOUS
  <2>1. q \in Entries /\ Len(q) = Len(t.seen) + 1 /\ ItemsIn(q) = ItemsIn(t.seen) \cup ItemsOf(t.what)
    BY <1>2, AppendItems
  <2>2. Len(q) <= MaxQueue + 1
    BY <1>2, <2>1, BrowserAssumption DEF Entries
  <2>3. /\ PruneQueue(q) \in Entries /\ Len(PruneQueue(q)) <= MaxQueue
        /\ ItemsIn(PruneQueue(q)) \subseteq ItemsIn(q)
    BY <2>1, <2>2, PruneOK
  <2>4. ItemsIn(t.seen) \cup ItemsOf(t.what) \subseteq Public
    <3>1. ItemsIn(t.seen) \cup ItemsOf(t.what) \subseteq TaskItems(t)
      BY <1>1 DEF TaskItems
    <3> QED
      BY <3>1, TaskPublic
  <2> QED
    BY <1>1, <2>1, <2>3, <2>4 DEF QueueOK
<1>4. lv \subseteq RowSet /\ Single(lv)
  <2>1. ASSUME t.job = "send" PROVE LocalRow(t.what[1]) \in RowSet
    <3>1. t.what[1] \in Records
      BY <1>2, <2>1
    <3> QED
      BY <3>1 DEF LocalRow, RowSet, Records
  <2>2. listing \subseteq RowSet /\ Single(listing)
    BY TabList DEF TabInv
  <2>3. CASE t.job = "send"
    BY <2>1, <2>2, <2>3, ShownOK
  <2> QED
    BY <2>2, <2>3
<1>5. \A i \in Items : rows'[i] # "none" => rows[i] # "none" \/ i \in Public
  BY <1>1, NoneMade
<1>6. CASE t.job = "flush" /\ t.rest # <<>>
  <2>1. /\ tasks' = (tasks \ {t}) \cup {Follow(t, "put", Head(t.rest), Tail(t.rest))}
        /\ UNCHANGED <<listing, session, link, private, inbox, drain, again, batch, send, ack, localId>>
    BY <1>1, <1>6
  <2>2. /\ Head(t.rest) \in Seq(Records) /\ Tail(t.rest) \in Entries
        /\ ItemsOf(Head(t.rest)) \cup ItemsIn(Tail(t.rest)) \subseteq TaskItems(t)
    BY <1>2, <1>6, HeadItems DEF TaskItems
  <2>3. TasksOK' /\ \A u \in tasks' : u \in tasks \/ \A i \in TaskItems(u) : i \in Public \/ Under(i)
    BY <1>6, <2>1, <2>2, Follows
  <2>4. PrivateInv'
    BY <1>1, <1>3, <1>5, <2>1, <2>3, PrivacyFrame, SameMoves DEF TabInv
  <2> QED
    BY <1>1, <1>3, <2>1, <2>3, <2>4, Stays DEF TabInv
<1>7. CASE ~(t.job = "flush" /\ t.rest # <<>>)
  <2>1. Resume(t, tasks \ {t}, lv)
    BY <1>1, <1>7
  <2>2. /\ ModeOK' /\ ListOK' /\ TasksOK' /\ Moves /\ UNCHANGED <<session, private, inbox>> /\ batch' \in {batch, <<>>}
        /\ \A u \in tasks' : u \in tasks \/ \A i \in TaskItems(u) : i \in Public \/ Under(i)
    BY <1>4, <2>1, ResumeStep
  <2>3. PrivateInv'
    BY <1>1, <1>3, <1>5, <2>2, PrivacyFrame DEF TabInv
  <2> QED
    BY <1>1, <1>3, <2>2, <2>3, Stays DEF TabInv
<1> QED
  BY <1>6, <1>7

LEMMA TakeKeeps == ASSUME TabInv, PrivateInv, NEW t \in tasks, TakeWrites(t) PROVE TabInv' /\ PrivateInv'
<1>1. /\ t.kind = "take" /\ queue' = <<>>
      /\ tasks' = IF t.seen = <<>> THEN tasks \ {t} ELSE (tasks \ {t}) \cup {Follow(t, "post", Head(t.seen), Tail(t.seen))}
      /\ UNCHANGED <<session, link, private, inbox, drain, again, batch, send, ack, localId, rows, feed, listing, secret>>
  BY DEF TakeWrites, Posting, radio, draining, sending, history
<1>2. t.seen \in Entries /\ session \in Nat /\ (t.job \in {"send", "ack"} => t.what # <<>>)
  BY <1>1, TaskFields, BrowserAssumption DEF TabInv, TasksOK, ModeOK, TaskOK
<1>3. QueueOK' /\ ItemsIn(queue') \subseteq Public
  BY <1>1, NoItems, BrowserAssumption DEF QueueOK
<1>4. TasksOK' /\ \A u \in tasks' : u \in tasks \/ \A i \in TaskItems(u) : i \in Public \/ Under(i)
  <2>1. CASE t.seen = <<>>
    BY <1>1, <1>2, <2>1, TasksKept DEF TabInv
  <2>2. CASE t.seen # <<>>
    <3>1. /\ Head(t.seen) \in Seq(Records) /\ Tail(t.seen) \in Entries
          /\ ItemsOf(Head(t.seen)) \cup ItemsIn(Tail(t.seen)) \subseteq TaskItems(t)
      BY <1>1, <1>2, <2>2, HeadItems DEF TaskItems
    <3>2. t.job \notin {"send", "ack"}
      BY <1>1 DEF TabInv, TasksOK, TaskOK
    <3> QED
      BY <1>1, <2>2, <3>1, <3>2, Follows
  <2> QED
    BY <2>1, <2>2
<1>5. \A i \in Items : rows'[i] # "none" => rows[i] # "none" \/ i \in Public
  BY <1>1, NoneMade
<1>6. PrivateInv'
  BY <1>1, <1>3, <1>4, <1>5, PrivacyFrame, SameMoves DEF TabInv
<1> QED
  BY <1>1, <1>3, <1>4, <1>6, Stays DEF TabInv

---------------------------------------------------------------------------
(* Sessions.                                                               *)

\* Whatever ends a session ends its drain and fails the send under way.
LEMMA StoppedMode ==
  ASSUME ModeOK, Stopped, session' \in 0..MaxSessions, link' \in {"off", "lost"} \cup Active, link' # "off" => session' # 0,
         private' \in BOOLEAN
  PROVE  /\ ModeOK' /\ batch' = <<>> /\ \A o \in Outgoing : send'[o] \notin Waiting
         /\ \A o \in Outgoing : send'[o] = send[o] \/ (send[o] \in Waiting /\ send'[o] = "failed")
<1>1. /\ drain' = "idle" /\ again' = FALSE /\ batch' = <<>> /\ ack' = "none" /\ localId' = "none"
      /\ send' = [o \in Outgoing |-> IF send[o] \in Waiting THEN "failed" ELSE send[o]]
  BY DEF Stopped
<1>2. \A o \in Outgoing : /\ send'[o] \in {"new", "done", "failed"} /\ send'[o] \notin Waiting
                          /\ send'[o] = send[o] \/ (send[o] \in Waiting /\ send'[o] = "failed")
  BY <1>1 DEF ModeOK, Waiting
<1>3. send' \in [Outgoing -> {"new", "done", "failed"} \cup Waiting]
  BY <1>1, <1>2
<1>4. ModeOK'
  BY <1>1, <1>2, <1>3 DEF ModeOK
<1> QED
  BY <1>1, <1>2, <1>4

LEMMA StoppedMoves ==
  ASSUME \A o \in Outgoing : send'[o] = send[o] \/ (send[o] \in Waiting /\ send'[o] = "failed")
  PROVE  Moves
BY DEF Moves

\* The next session may be private or not: what the last one has read and not
\* posted is gone, and so is its send.
LEMMA StartKeeps == ASSUME TabInv, PrivateInv, NEW p \in BOOLEAN, StartBrowserRadio(p) PROVE TabInv' /\ PrivateInv'
<1>1. /\ session < MaxSessions /\ session' = session + 1 /\ link' = "syncing" /\ private' = p /\ queue' \in {queue, <<>>}
      /\ Stopped /\ UNCHANGED <<inbox, tasks, rows, feed, listing, secret>>
  BY DEF StartBrowserRadio, history
<1>2. session \in Nat /\ MaxSessions \in Nat /\ session' \in 0..MaxSessions /\ session' # 0
  BY <1>1, BrowserAssumption DEF TabInv, ModeOK
<1>3. /\ ModeOK' /\ batch' = <<>> /\ \A o \in Outgoing : send'[o] \notin Waiting
      /\ \A o \in Outgoing : send'[o] = send[o] \/ (send[o] \in Waiting /\ send'[o] = "failed")
  <2>1. link' \in {"off", "lost"} \cup Active /\ (link' # "off" => session' # 0) /\ private' \in BOOLEAN
    BY <1>1, <1>2 DEF Active
  <2> QED
    BY <1>1, <1>2, <2>1, StoppedMode DEF TabInv
<1>4. QueueOK' /\ ItemsIn(queue') \subseteq ItemsIn(queue)
  BY <1>1, NoItems, BrowserAssumption DEF TabInv, QueueOK
<1>5. TasksOK'
  BY <1>1, <1>2, TasksKept DEF TabInv
<1>6. TabInv'
  BY <1>1, <1>3, <1>4, <1>5, Stays DEF TabInv
<1>7. Public' \subseteq Public /\ Unread' = Unread
  BY <1>1, <1>3, <1>4, NoItems DEF Public, Unread
<1>8. \A o \in Outgoing : send'[o] = "new" => send[o] = "new"
  BY <1>3
<1>9. \A o \in Outgoing : send'[o] \notin {"recording", "confirming"}
  BY <1>3 DEF Waiting
<1>10. PrivateInv'
  BY <1>1, <1>3, <1>7, <1>8, <1>9 DEF PrivateInv
<1> QED
  BY <1>6, <1>10

LEMMA StopsKeeps ==
  ASSUME TabInv, PrivateInv, Stopped, link # "off", link' \in {"off", "lost"}, queue' \in {queue, <<>>}, tasks' \in {tasks, {}},
         feed' \in {feed, <<>>}, listing' \in {listing, {}}, UNCHANGED <<session, private, inbox, rows, secret>>
  PROVE  TabInv' /\ PrivateInv'
<1>1. session \in Nat /\ session' \in 0..MaxSessions /\ session' # 0 /\ private' \in BOOLEAN
  BY BrowserAssumption DEF TabInv, ModeOK
<1>2. /\ ModeOK' /\ batch' = <<>>
      /\ \A o \in Outgoing : send'[o] = send[o] \/ (send[o] \in Waiting /\ send'[o] = "failed")
  BY <1>1, StoppedMode DEF TabInv
<1>3. QueueOK' /\ ItemsIn(queue') \subseteq Public
  BY NoItems, BrowserAssumption DEF TabInv, QueueOK, Public
<1>4. TasksOK' /\ \A t \in tasks' : t \in tasks \/ \A i \in TaskItems(t) : i \in Public \/ Under(i)
  BY <1>1, TasksKept DEF TabInv
<1>5. FeedOK'
  <2>1. CASE feed' = <<>>
    BY <2>1 DEF FeedOK
  <2> QED
    BY <2>1 DEF TabInv, FeedOK
<1>6. ListOK'
  <2>1. CASE listing' = {}
    BY <2>1, ListIs DEF Single
  <2> QED
    BY <2>1, Stays
<1>7. Moves
  BY <1>2, StoppedMoves
<1>8. PrivateInv'
  BY <1>2, <1>3, <1>4, <1>7, NoneMade, PrivacyFrame DEF TabInv
<1> QED
  BY <1>2, <1>3, <1>4, <1>5, <1>6, <1>8, Stays DEF TabInv

LEMMA StopKeeps == ASSUME TabInv, PrivateInv, StopBrowserRadio \/ Disconnected \/ Reload PROVE TabInv' /\ PrivateInv'
<1>1. /\ Stopped /\ link # "off" /\ link' \in {"off", "lost"} /\ queue' \in {queue, <<>>} /\ tasks' \in {tasks, {}}
      /\ feed' \in {feed, <<>>} /\ listing' \in {listing, {}} /\ UNCHANGED <<session, private, inbox, rows, secret>>
  BY DEF StopBrowserRadio, Disconnected, Reload, history, Active
<1> QED
  BY <1>1, StopsKeeps

---------------------------------------------------------------------------
(* The tab to begin with.                                                  *)

LEMMA SetAsSeq ==
  ASSUME NEW S, IsFiniteSet(S)
  PROVE  /\ SetToSeq(S) \in Seq(S) /\ \A i, j \in DOMAIN SetToSeq(S) : SetToSeq(S)[i] = SetToSeq(S)[j] => i = j
         /\ \A i \in DOMAIN SetToSeq(S) : SetToSeq(S)[i] \in S
<1>1. Cardinality(S) \in Nat /\ \E f : f \in [1..Cardinality(S) -> S] /\ IsInjective(f)
  BY FS_CardinalityType DEF ExistsBijection, Bijection, Injection, IsInjective
<1>2. SetToSeq(S) \in [1..Cardinality(S) -> S] /\ IsInjective(SetToSeq(S))
  BY <1>1 DEF SetToSeq
<1> PICK q : q = SetToSeq(S)
  OBVIOUS
<1>3. q \in [1..Cardinality(S) -> S] /\ \A i, j \in DOMAIN q : q[i] = q[j] => i = j
  BY <1>2 DEF IsInjective
<1>4. q \in Seq(S)
  BY <1>1, <1>3, MapSeq
<1> QED
  BY <1>3, <1>4

LEMMA TabInitially == Init => TabInv /\ PrivateInv
<1> SUFFICES ASSUME Init PROVE TabInv /\ PrivateInv
  OBVIOUS
<1>1. PICK left \in SUBSET Incoming :
        /\ inbox = SetToSeq(Incoming \ left)
        /\ queue = IF left = {} THEN <<>> ELSE <<SetToSeq({Rec(i, "sent") : i \in left})>>
  BY DEF Init
<1>2. /\ inbox \in Seq(Incoming \ left) /\ \A i, j \in DOMAIN inbox : inbox[i] = inbox[j] => i = j
      /\ \A i \in DOMAIN inbox : inbox[i] \in Incoming \ left
  <2>1. IsFiniteSet(Incoming \ left)
    BY FS_Subset, BrowserAssumption
  <2> QED
    BY <1>1, <2>1, SetAsSeq
<1>3. InboxOK
  BY <1>2 DEF InboxOK
<1>4. queue \in Entries /\ Len(queue) <= 1 /\ ItemsIn(queue) \subseteq left
  <2> DEFINE S == {Rec(i, "sent") : i \in left}
  <2>1. IsFiniteSet(S)
    <3>1. IsFiniteSet(left)
      BY FS_Subset, BrowserAssumption
    <3> DEFINE f == [i \in left |-> Rec(i, "sent")]
    <3>2. f \in [left -> S] /\ \A r \in S : \E i \in left : f[i] = r
      OBVIOUS
    <3> HIDE DEF f, S
    <3>3. f \in Surjection(left, S)
      BY <3>2 DEF Surjection
    <3> QED
      BY <3>1, <3>3, FS_Surjection
  <2>2. \A r \in S : r \in Records /\ r.item \in left
    BY DEF Rec, Records, Items
  <2> PICK q : q = SetToSeq(S)
    OBVIOUS
  <2>3. q \in Seq(S) /\ \A k \in DOMAIN q : q[k] \in S
    BY <2>1, SetAsSeq
  <2> HIDE DEF S
  <2>4. q \in Seq(Records) /\ ItemsOf(q) \subseteq left
    <3>1. q \in Seq(Records)
      BY <2>2, <2>3
    <3> QED
      BY <2>2, <2>3, <3>1 DEF ItemsOf
  <2>5. CASE left = {}
    BY <1>1, <2>5, NoItems
  <2>6. CASE left # {}
    <3>1. queue = <<q>>
      BY <1>1, <2>6 DEF S
    <3>2. queue \in Entries /\ Len(queue) = 1 /\ DOMAIN queue = {1} /\ queue[1] = q
      BY <2>4, <3>1 DEF Entries
    <3> QED
      BY <2>4, <3>2 DEF ItemsIn
  <2> QED
    BY <2>5, <2>6
<1>5. QueueOK
  BY <1>4, BrowserAssumption DEF QueueOK, Entries
<1>6. ModeOK
  <2>1. session = 0 /\ link = "off" /\ private = FALSE /\ drain = "idle" /\ again = FALSE /\ ack = "none" /\ localId = "none"
    BY DEF Init
  <2>2. send = [o \in Outgoing |-> "new"]
    BY DEF Init
  <2>3. send \in [Outgoing -> {"new", "done", "failed"} \cup Waiting] /\ \A o \in Outgoing : send[o] \notin Waiting
    BY <2>2 DEF Waiting
  <2>4. 0 \in 0..MaxSessions
    BY BrowserAssumption
  <2> QED
    BY <2>1, <2>3, <2>4 DEF ModeOK
<1>7. RowsOK /\ TasksOK /\ BatchOK /\ FeedOK /\ ListOK
  BY NoItems DEF Init, RowsOK, TasksOK, BatchOK, FeedOK, ListOK, RowOnce
<1>8. Public \subseteq left /\ Unread \cap left = {}
  BY <1>2, <1>4, NoItems DEF Init, Public, Unread
<1>9. PrivateInv
  BY <1>8, BrowserAssumption DEF Init, PrivateInv, Waiting
<1> QED
  BY <1>3, <1>5, <1>6, <1>7, <1>9 DEF TabInv

---------------------------------------------------------------------------
(* The theorems.                                                           *)

LEMMA TabStep == TabInv /\ PrivateInv /\ [Next]_vars => TabInv' /\ PrivateInv'
<1> SUFFICES ASSUME TabInv, PrivateInv, [Next]_vars PROVE TabInv' /\ PrivateInv'
  OBVIOUS
<1>1. CASE MsgWaiting \/ SyncDrains \/ ReadOne \/ ReadEmpty \/ FeedDelivers \/ FlushQueue
  BY <1>1, MsgWaitingKeeps, SyncDrainsKeeps, ReadOneKeeps, ReadEmptyKeeps, FeedKeeps, FlushKeeps
<1>2. ASSUME NEW o \in Outgoing, UserSends(o) \/ Accepted(o) \/ Refused(o) \/ SendConfirmed(o) \/ AckTimeout(o)
      PROVE  TabInv' /\ PrivateInv'
  BY <1>2, UserSendsKeeps, AcceptedKeeps, RefusedKeeps, ConfirmedKeeps, TimeoutKeeps
<1>3. ASSUME NEW t \in tasks, TaskEnds(t) PROVE TabInv' /\ PrivateInv'
  BY <1>3, StoresKeeps, SucceedsKeeps, FailsKeeps, ReadsKeeps, PutKeeps, TakeKeeps DEF TaskEnds
<1>4. ASSUME NEW p \in BOOLEAN, StartBrowserRadio(p) PROVE TabInv' /\ PrivateInv'
  BY <1>4, StartKeeps
<1>5. CASE StopBrowserRadio \/ Disconnected \/ Reload
  BY <1>5, StopKeeps
<1>6. CASE UNCHANGED vars
  <2>1. UNCHANGED <<session, link, private, inbox, drain, again, batch, send, ack, localId, tasks, queue, rows, feed, listing, secret>>
    BY <1>6 DEF vars
  <2>2. PrivateInv'
    BY <2>1, QuietStep, SameMoves DEF TabInv
  <2> QED
    BY <2>1, <2>2, Stays DEF TabInv
<1> QED
  BY <1>1, <1>2, <1>3, <1>4, <1>5, <1>6 DEF Next

\* Tasks, queue, inbox and lists are what they should be, and no record is public
\* that a private session sent or read (browser-radio.ts).
THEOREM TabInvariant == Spec => [](TabInv /\ PrivateInv)
<1> QED
  BY TabInitially, TabStep, PTL DEF Spec

\* The queue is within its limit, a session that ended has no drain and no send
\* under way, and there is one direct send at a time (browser-radio.ts).
THEOREM TypeCorrect == Spec => []TypeOK
<1>1. TabInv => TypeOK
  <2> SUFFICES ASSUME TabInv PROVE TypeOK
    OBVIOUS
  <2>1. \A t \in tasks : t.kind \in {"post", "put", "take"} /\ t.job \in Jobs /\ t.session \in 1..session
    BY TaskFields DEF TabInv, TasksOK
  <2> QED
    BY <2>1 DEF TabInv, TypeOK, ModeOK, RowsOK, QueueOK
<1> QED
  BY <1>1, TabInvariant, PTL

\* What a private session reads or sends never reaches the server or the stored
\* queue, for any frames, sends, sessions and failures ("a private session skips
\* sync-back entirely", browser-radio.ts).
THEOREM PrivacyCorrect == Spec => []PrivateStaysPrivate
<1>1. TabInv /\ PrivateInv => PrivateStaysPrivate
  <2> SUFFICES ASSUME TabInv, PrivateInv, NEW i \in secret
               PROVE  /\ rows[i] = "none"
                      /\ \A k \in DOMAIN queue : \A n \in DOMAIN queue[k] : queue[k][n].item # i
    BY DEF PrivateStaysPrivate
  <2>1. i \in Items /\ i \notin Public
    BY DEF PrivateInv
  <2>2. rows[i] = "none" /\ i \notin ItemsIn(queue)
    BY <2>1 DEF Public
  <2> QED
    BY <2>2 DEF ItemsIn, ItemsOf
<1> QED
  BY <1>1, TabInvariant, PTL

\* A record has one row in the tab, whether it comes as a local row, as an answer,
\* over the feed or out of the queue (browser-radio.ts: ingestIncoming, and
\* appendMessage and updateMessageStatus of stores/app.ts).
THEOREM RowOnceCorrect == Spec => []RowOnce
<1>1. TabInv => RowOnce
  BY DEF TabInv, ListOK
<1> QED
  BY <1>1, TabInvariant, PTL

---------------------------------------------------------------------------
(* The timeline.  What happened before there was a tab, or went by without *)
(* a trace in the tab, is what only a page can bring.                      *)

Old == {h \in Happenings : at[h] > 0 /\ h \notin Members(wire) /\ h \notin timelineFeed /\ h \notin lost}

\* What a page for the query q has to have.
Asked(q) == {h \in Old : /\ RadioOf[h] \in Members(q.ids) /\ KindOf[h] \in Kinds(q.telemetry)
                         /\ q.from <= at[h] /\ at[h] <= q.to}

\* The query is for what the view is about.
Fits(q) ==
  /\ q.ids = selected /\ q.telemetry = telemetry
  /\ \A t \in Nat : view.start <= t /\ t <= view.end => q.from <= t /\ t <= q.to

WindowOK(w) == w \in [start : Int, end : Int] /\ w.start < w.end

WorldOK ==
  /\ now \in Nat \ {0} /\ at \in [Happenings -> Nat] /\ wire \in Seq(Happenings)
  /\ timelineFeed \subseteq Happenings /\ WindowOK(view)

RadiosOK ==
  /\ boot = "loading" => listed = {} /\ selected = <<>> /\ calls = {} /\ (phase = "ready" => blank)
  /\ boot # "loading" => listed = known
  /\ listed = {} => selected = <<>>

CallsOK ==
  /\ \A c, d \in calls : c = d
  /\ \A c \in calls : /\ c = [query |-> c.query, rows |-> c.rows, cut |-> c.cut]
                      /\ c.query.from \in Int /\ c.query.to \in Int
                      /\ c.rows # None => c.rows \subseteq Happenings
                      /\ c.rows # None /\ ~c.cut => Asked(c.query) \subseteq c.rows

\* What is in flight counts, unless a new request is due.
FlightOK == open /\ selected # <<>> /\ ~timer /\ ~skipped => \A c \in calls : Fits(c.query)

\* What is shown is for what is asked, unless a request is due or in flight.
RestOK ==
  open /\ phase = "ready" /\ selected # <<>> /\ ~timer /\ ~skipped /\ calls = {} /\ ~blank => Fits(fetched)

\* The page that was fetched last is shown.
PageOK ==
  phase = "ready" /\ listed # {} /\ ~truncated /\ ~blank => \A h \in Asked(fetched) : \E e \in shown : e[1] = h

FlagsOK == telemetry \in BOOLEAN /\ timer \in BOOLEAN /\ skipped \in BOOLEAN /\ blank \in BOOLEAN

OnCanvasOK == \A e \in shown : e[1] \in Happenings

FetchedOK == fetched # None => fetched.from \in Int /\ fetched.to \in Int

TimelineInv == WorldOK /\ RadiosOK /\ CallsOK /\ FlightOK /\ RestOK /\ PageOK /\ FlagsOK /\ FetchedOK /\ OnCanvasOK

---------------------------------------------------------------------------
(* A page that is not cut has all that was asked for.                      *)

LEMMA QueryWhole ==
  ASSUME NEW stored, NEW merged, IsFiniteSet(stored), NEW queries, merged \in Merges(queries, Limit + 1),
         UNION queries \subseteq stored, ~(Cardinality(merged) > Limit), NEW q \in queries
  PROVE  q \subseteq merged
<1>1. merged \subseteq stored /\ merged \cap q \in Earliest(q, Limit + 1) /\ q \subseteq stored
  BY DEF Merges
<1>2. IsFiniteSet(merged) /\ IsFiniteSet(q) /\ Cardinality(q) \in Nat /\ Cardinality(merged) \in Nat
  BY <1>1, FS_Subset, FS_CardinalityType
<1>3. Cardinality(merged \cap q) \in Nat /\ Cardinality(merged \cap q) <= Cardinality(merged)
  BY <1>2, FS_Subset, FS_CardinalityType
<1>4. Cardinality(merged \cap q) # Limit + 1
  BY <1>2, <1>3, TimelineAssumption
<1>5. merged \cap q \in {q}
  BY <1>1, <1>4 DEF Earliest
<1> QED
  BY <1>5

LEMMA SliceWhole ==
  ASSUME NEW merged, IsFiniteSet(merged), ~(Cardinality(merged) > Limit), \A a \in merged : a.ts \in Nat /\ a.id \in Nat
  PROVE  Slice(merged, Limit) = merged
<1> SUFFICES ASSUME NEW a \in merged PROVE Cardinality({b \in merged : Before(b, a)}) < Limit
  BY DEF Slice
<1>1. a \notin {b \in merged : Before(b, a)} /\ {b \in merged : Before(b, a)} \subseteq merged
  BY DEF Before
<1>2. {b \in merged : Before(b, a)} \subseteq merged \ {a}
  BY <1>1
<1>3. IsFiniteSet(merged \ {a}) /\ Cardinality(merged \ {a}) = Cardinality(merged) - 1
  BY FS_RemoveElement
<1>4. Cardinality({b \in merged : Before(b, a)}) <= Cardinality(merged \ {a})
  BY <1>2, <1>3, FS_Subset
<1>5. /\ Cardinality({b \in merged : Before(b, a)}) \in Nat /\ Cardinality(merged) \in Nat
  BY <1>1, FS_Subset, FS_CardinalityType
<1> QED
  BY <1>3, <1>4, <1>5, TimelineAssumption

LEMMA PageWhole ==
  ASSUME NEW stored, IsFiniteSet(stored), \A a \in stored : a.ts \in Nat /\ a.id \in Nat,
         NEW radios, NEW t, NEW from, NEW to,
         NEW answer \in GetTimeline(stored, radios, Kinds(t), from, to, Limit), ~answer.truncated,
         NEW a \in stored, a.radio \in radios, a.kind \in Kinds(t), from <= a.ts, a.ts <= to
  PROVE  a \in answer.events
<1> DEFINE Q == Queries(stored, radios, Kinds(t), from, to)
<1>1. PICK merged \in Merges(Q, Limit + 1) :
        answer = [events |-> Slice(merged, Limit), truncated |-> Cardinality(merged) > Limit]
  BY DEF GetTimeline
<1>2. ~(Cardinality(merged) > Limit) /\ answer.events = Slice(merged, Limit)
  BY <1>1
<1>3. UNION Q \subseteq stored
  BY DEF Queries
<1>4. merged \subseteq stored /\ IsFiniteSet(merged)
  BY <1>3, FS_Subset DEF Merges
<1>5. PICK source \in Sources : a.kind \in source
  BY DEF Kinds, BASE_KINDS, Sources
<1> DEFINE q == {b \in stored : b.radio = a.radio /\ b.kind \in source \cap Kinds(t) /\ from <= b.ts /\ b.ts <= to}
<1>6. q \in Q
  BY DEF Queries
<1>7. a \in q
  BY <1>5
<1> HIDE DEF q, Q
<1>8. a \in merged
  BY <1>2, <1>3, <1>6, <1>7, QueryWhole
<1> QED
  BY <1>2, <1>4, <1>8, SliceWhole

---------------------------------------------------------------------------
(* The window keeps its order.                                             *)

LEMMA Clamped ==
  ASSUME NEW s \in Int, NEW e \in Int, NEW n \in Nat
  PROVE  WindowOK(ClampWindow(s, e, n))
BY SpanAssumption DEF WindowOK, ClampWindow, Least, Most, Headroom

LEMMA Zoomed ==
  ASSUME WorldOK, NEW anchor \in Int, NEW num \in Int, NEW den \in Nat \ {0}
  PROVE  WindowOK(ZoomAround(view, anchor, num, den, now))
<1>1. view.start \in Int /\ view.end \in Int /\ view.start < view.end /\ now \in Nat
  BY DEF WorldOK, WindowOK
<1>2. Span(view) \in Nat \ {0}
  BY <1>1 DEF Span
<1>3. (Span(view) * num) \div den \in Int
  <2>1. Span(view) * num \in Int
    BY <1>2
  <2> QED
    BY <2>1
<1>4. Least(Most((Span(view) * num) \div den, MinSpan), MaxSpan) \in Int
  BY <1>3, SpanAssumption DEF Least, Most
<1>5. PICK newSpan \in Int : newSpan = Least(Most((Span(view) * num) \div den, MinSpan), MaxSpan)
  BY <1>4
<1>6. (anchor - view.start) * newSpan \in Int
  BY <1>1
<1>7. ((anchor - view.start) * newSpan) \div Span(view) \in Int
  BY <1>2, <1>6
<1>8. PICK s \in Int : s = anchor - ((anchor - view.start) * newSpan) \div Span(view)
  BY <1>7
<1>9. ZoomAround(view, anchor, num, den, now) = ClampWindow(s, s + newSpan, now)
  BY <1>5, <1>8 DEF ZoomAround
<1>10. s + newSpan \in Int
  BY <1>5, <1>8
<1>11. WindowOK(ClampWindow(s, s + newSpan, now))
  BY <1>1, <1>10, Clamped
<1> QED
  BY <1>9, <1>11

LEMMA Panned ==
  ASSUME WorldOK, NEW d \in Int
  PROVE  WindowOK(PanBy(view, d, now))
<1>1. view.start \in Int /\ view.end \in Int /\ now \in Nat
  BY DEF WorldOK, WindowOK
<1>2. view.start + d \in Int /\ view.end + d \in Int
  BY <1>1
<1>3. WindowOK(ClampWindow(view.start + d, view.end + d, now))
  BY <1>1, <1>2, Clamped
<1> QED
  BY <1>3 DEF PanBy

LEMMA Centred ==
  ASSUME WorldOK, NEW ts \in Int
  PROVE  WindowOK(CenterOn(view, ts, now))
<1>1. view.start \in Int /\ view.end \in Int /\ now \in Nat
  BY DEF WorldOK, WindowOK
<1>2. PICK half \in Int : half = Span(view) \div 2
  BY <1>1 DEF Span
<1>3. PICK s \in Int, e \in Int : s = ts - half /\ e = ts - half + Span(view)
  BY <1>1 DEF Span
<1>4. CenterOn(view, ts, now) = ClampWindow(s, e, now)
  BY <1>2, <1>3 DEF CenterOn
<1>5. WindowOK(ClampWindow(s, e, now))
  BY <1>1, Clamped
<1> QED
  BY <1>4, <1>5


---------------------------------------------------------------------------
(* What a page owes does not grow.                                         *)

LEMMA AskedLess ==
  ASSUME Old' \subseteq Old, \A h \in Old' : at'[h] = at[h], NEW q
  PROVE  Asked(q)' \subseteq Asked(q)
BY DEF Asked

LEMMA SameOld == ASSUME UNCHANGED <<at, wire, timelineFeed, lost>> PROVE Old' \subseteq Old /\ \A h \in Old' : at'[h] = at[h]
BY DEF Old

\* Calls that stay, while the world goes on.
LEMMA CallsStay ==
  ASSUME CallsOK, Old' \subseteq Old, \A h \in Old' : at'[h] = at[h], calls' \subseteq calls
  PROVE  CallsOK'
BY AskedLess DEF CallsOK

\* A step that asks for nothing and shows no less.
LEMMA PageStays ==
  ASSUME PageOK, Old' \subseteq Old, \A h \in Old' : at'[h] = at[h],
         phase' \in {phase, "error"}, UNCHANGED <<fetched, truncated, blank>>, shown \subseteq shown', listed' = listed
  PROVE  PageOK'
<1> PICK f : f = fetched
  OBVIOUS
<1>1. Asked(fetched)' \subseteq Asked(fetched)
  <2>1. Asked(f)' \subseteq Asked(f)
    BY AskedLess
  <2> QED
    BY <2>1
<1> QED
  BY <1>1 DEF PageOK

LEMMA FitsStay == ASSUME UNCHANGED <<selected, telemetry, view>>, NEW q PROVE Fits(q)' <=> Fits(q)
BY DEF Fits

\* The view stays or a request is due.
LEMMA FlightStays ==
  ASSUME FlightOK, \/ timer'
                   \/ UNCHANGED <<open, selected, timer, telemetry, view, skipped>>,
         calls' \subseteq calls
  PROVE  FlightOK'
BY FitsStay DEF FlightOK

LEMMA RestStays ==
  ASSUME RestOK, \/ timer'
                 \/ UNCHANGED <<open, selected, timer, telemetry, view, skipped, calls, fetched, blank, phase>>
  PROVE  RestOK'
<1>1. CASE timer'
  BY <1>1 DEF RestOK
<1>2. CASE UNCHANGED <<open, selected, timer, telemetry, view, skipped, calls, fetched, blank, phase>>
  <2> PICK f : f = fetched
    OBVIOUS
  <2>1. Fits(f)' <=> Fits(f)
    BY <1>2, FitsStay
  <2>2. Fits(fetched)' <=> Fits(fetched)
    BY <1>2, <2>1
  <2> QED
    BY <1>2, <2>2 DEF RestOK
<1> QED
  BY <1>1, <1>2

LEMMA RadiosStay == ASSUME RadiosOK, UNCHANGED <<boot, listed, selected, calls, phase, blank, known>> PROVE RadiosOK'
BY DEF RadiosOK

---------------------------------------------------------------------------
(* Requests.                                                               *)

\* A request is for all times of the view.
LEMMA PaddedFits ==
  ASSUME NEW w, WindowOK(w), NEW ids, NEW t
  PROVE  /\ Padded(w, ids, t).ids = ids /\ Padded(w, ids, t).telemetry = t
         /\ Padded(w, ids, t).from \in Int /\ Padded(w, ids, t).to \in Int
         /\ \A u \in Nat : w.start <= u /\ u <= w.end => Padded(w, ids, t).from <= u /\ u <= Padded(w, ids, t).to
BY DEF Padded, Span, Most, WindowOK

LEMMA Requested ==
  ASSUME WindowOK(view'), Request(selected', telemetry', view')
  PROVE  CallsOK' /\ FlightOK' /\ RestOK'
<1>1. PICK w, ids, t : w = view' /\ ids = selected' /\ t = telemetry'
  OBVIOUS
<1>2. PICK q : q = Padded(w, ids, t)
  OBVIOUS
<1>3. calls' = {[query |-> q, rows |-> None, cut |-> FALSE]}
  BY <1>1, <1>2 DEF Request
<1>4. PICK c : c = [query |-> q, rows |-> None, cut |-> FALSE]
  OBVIOUS
<1>5. c.query = q /\ c.rows = None /\ c.cut = FALSE /\ calls' = {c}
  BY <1>3, <1>4
<1>6. Fits(q)'
  BY <1>1, <1>2, PaddedFits DEF Fits
<1>7. CallsOK'
  <2>1. q.from \in Int /\ q.to \in Int
    BY <1>1, <1>2, PaddedFits
  <2> QED
    BY <1>4, <1>5, <2>1 DEF CallsOK
<1>8. FlightOK'
  BY <1>5, <1>6 DEF FlightOK
<1>9. RestOK'
  BY <1>5 DEF RestOK
<1> QED
  BY <1>7, <1>8, <1>9

LEMMA Loaded ==
  ASSUME TimelineInv, LoadEvents(selected', telemetry, view), UNCHANGED <<server, socket, open, telemetry, view>>,
         timer' \in BOOLEAN, listed' = listed \/ (phase = "ready" => blank)
  PROVE  WorldOK' /\ CallsOK' /\ FlightOK' /\ RestOK' /\ PageOK' /\ FlagsOK' /\ FetchedOK' /\ OnCanvasOK'
<1>1. UNCHANGED <<now, at, known, wire, lost, timelineFeed>>
  BY DEF server, socket
<1>2. WorldOK'
  BY <1>1 DEF TimelineInv, WorldOK
<1>3. Old' \subseteq Old /\ \A h \in Old' : at'[h] = at[h]
  BY <1>1, SameOld
<1>4. CASE selected' = <<>>
  <2>1. phase' = "ready" /\ blank' = TRUE /\ shown' = {} /\ UNCHANGED <<fetched, calls, truncated, skipped>>
    BY <1>4 DEF LoadEvents
  <2>2. CallsOK'
    BY <1>3, <2>1, CallsStay DEF TimelineInv
  <2>3. FlightOK' /\ RestOK' /\ PageOK' /\ OnCanvasOK'
    BY <1>4, <2>1 DEF FlightOK, RestOK, PageOK, OnCanvasOK
  <2> QED
    BY <1>2, <2>1, <2>2, <2>3 DEF TimelineInv, FlagsOK, FetchedOK
<1>5. CASE selected' # <<>>
  <2>1. /\ Request(selected', telemetry, view) /\ skipped' = FALSE
        /\ UNCHANGED <<shown, fetched, phase, truncated, blank>>
    BY <1>5 DEF LoadEvents
  <2>2. WindowOK(view') /\ Request(selected', telemetry', view')
    BY <2>1 DEF TimelineInv, WorldOK
  <2>3. CallsOK' /\ FlightOK' /\ RestOK'
    BY <2>2, Requested
  <2>4. PageOK'
    <3>1. CASE listed' = listed
      BY <1>3, <2>1, <3>1, PageStays DEF TimelineInv
    <3>2. CASE phase = "ready" => blank
      BY <2>1, <3>2 DEF PageOK
    <3> QED
      BY <3>1, <3>2
  <2> QED
    BY <1>2, <2>1, <2>3, <2>4 DEF TimelineInv, FlagsOK, FetchedOK, OnCanvasOK
<1> QED
  BY <1>4, <1>5

LEMMA TimerKeeps == ASSUME TimelineInv, TimerFires PROVE TimelineInv'
<1>1. timer /\ timer' = FALSE /\ UNCHANGED <<server, socket, boot, listed, open, selected, telemetry, view>> /\ known' = known
  BY DEF TimerFires, tab, canvas, server
<1>2. CASE Escaped
  <2>1. LoadEvents(selected', telemetry, view)
    BY <1>1, <1>2 DEF TimerFires
  <2>2. WorldOK' /\ CallsOK' /\ FlightOK' /\ RestOK' /\ PageOK' /\ FlagsOK' /\ FetchedOK' /\ OnCanvasOK'
    BY <1>1, <2>1, Loaded
  <2>3. RadiosOK'
    <3>1. CASE selected = <<>>
      <4>1. phase' = "ready" /\ blank' = TRUE /\ calls' = calls
        BY <1>1, <2>1, <3>1 DEF LoadEvents
      <4> QED
        BY <1>1, <4>1 DEF TimelineInv, RadiosOK
    <3>2. CASE selected # <<>>
      BY <1>1, <3>2 DEF TimelineInv, RadiosOK
    <3> QED
      BY <3>1, <3>2
  <2> QED
    BY <2>2, <2>3 DEF TimelineInv
<1>3. CASE ~Escaped
  <2>1. skipped' = (skipped \/ calls # {}) /\ UNCHANGED <<shown, fetched, calls, phase, truncated, blank>>
    BY <1>3 DEF TimerFires
  <2>2. UNCHANGED <<now, at, known, wire, lost, timelineFeed>>
    BY <1>1 DEF server, socket
  <2>3. Old' \subseteq Old /\ \A h \in Old' : at'[h] = at[h]
    BY <2>2, SameOld
  <2>4. Fits(fetched)
    <3>1. /\ fetched.ids = selected /\ fetched.telemetry = telemetry /\ fetched.from <= view.start /\ view.end <= fetched.to
          /\ fetched.from \in Int /\ fetched.to \in Int
      BY <1>3 DEF Escaped, Covers, TimelineInv, FetchedOK
    <3>2. view.start \in Int /\ view.end \in Int
      BY DEF TimelineInv, WorldOK, WindowOK
    <3> QED
      BY <3>1, <3>2 DEF Fits
  <2>5. WorldOK' /\ RadiosOK' /\ CallsOK' /\ PageOK'
    BY <1>1, <2>1, <2>2, <2>3, CallsStay, PageStays, RadiosStay DEF TimelineInv, WorldOK
  <2>6. FlightOK'
    BY <2>1 DEF FlightOK, FlagsOK, TimelineInv
  <2>7. RestOK'
    <3> PICK f : f = fetched
      OBVIOUS
    <3>1. Fits(f)'
      BY <1>1, <2>4, FitsStay
    <3> QED
      BY <2>1, <3>1 DEF RestOK
  <2> QED
    BY <1>1, <2>1, <2>5, <2>6, <2>7 DEF TimelineInv, FlagsOK, FetchedOK, OnCanvasOK
<1> QED
  BY <1>2, <1>3

LEMMA RefreshKeeps == ASSUME TimelineInv, Refresh PROVE TimelineInv'
<1>1. /\ UNCHANGED <<server, socket, boot, listed, open, selected, telemetry, view>> /\ known' = known /\ timer' = timer
      /\ LoadEvents(selected', telemetry, view)
  BY DEF Refresh, tab, canvas, server
<1>2. WorldOK' /\ CallsOK' /\ FlightOK' /\ RestOK' /\ PageOK' /\ FlagsOK' /\ FetchedOK' /\ OnCanvasOK'
  BY <1>1, Loaded DEF TimelineInv, FlagsOK, FetchedOK, OnCanvasOK
<1>3. RadiosOK'
  <2>1. CASE selected = <<>>
    <3>1. phase' = "ready" /\ blank' = TRUE /\ calls' = calls
      BY <1>1, <2>1 DEF LoadEvents
    <3> QED
      BY <1>1, <3>1 DEF TimelineInv, RadiosOK
  <2>2. CASE selected # <<>>
    BY <1>1, <2>2 DEF TimelineInv, RadiosOK
  <2> QED
    BY <2>1, <2>2
<1> QED
  BY <1>2, <1>3 DEF TimelineInv

---------------------------------------------------------------------------
(* Steps without a request.                                                *)

LEMMA Calm ==
  ASSUME TimelineInv, WorldOK', Old' \subseteq Old, \A h \in Old' : at'[h] = at[h],
         timer' \in BOOLEAN, telemetry' \in BOOLEAN, shown \subseteq shown', OnCanvasOK',
         timer' \/ UNCHANGED <<open, selected, timer, telemetry, view>>,
         selected' = selected \/ listed # {},
         UNCHANGED <<boot, listed, known, calls, phase, blank, skipped, fetched, truncated>>
  PROVE  TimelineInv'
<1>1. CallsOK' /\ PageOK'
  BY CallsStay, PageStays DEF TimelineInv
<1>2. RadiosOK'
  BY DEF TimelineInv, RadiosOK
<1>3. FlightOK'
  BY FlightStays DEF TimelineInv
<1>4. RestOK'
  BY RestStays DEF TimelineInv
<1>5. FlagsOK' /\ FetchedOK' /\ OnCanvasOK'
  BY DEF TimelineInv, FlagsOK, FetchedOK, OnCanvasOK
<1> QED
  BY <1>1, <1>2, <1>3, <1>4, <1>5 DEF TimelineInv

LEMMA ViewKeeps ==
  ASSUME TimelineInv, NEW w, WindowOK(w), view' = w, timer' = (timer \/ w # view), UNCHANGED <<server, socket, tab, open, selected, telemetry, page>>
  PROVE  TimelineInv'
<1>1. UNCHANGED <<now, at, known, wire, lost, timelineFeed, boot, listed, open, selected, telemetry, calls, phase, blank, skipped, fetched, truncated, shown>>
  BY DEF server, socket, tab, page
<1>2. WorldOK'
  BY <1>1 DEF TimelineInv, WorldOK
<1>3. Old' \subseteq Old /\ \A h \in Old' : at'[h] = at[h]
  BY <1>1, SameOld
<1>4. timer' \in BOOLEAN /\ telemetry' \in BOOLEAN /\ (timer' \/ UNCHANGED <<timer, view>>) /\ OnCanvasOK'
  BY <1>1 DEF TimelineInv, FlagsOK, OnCanvasOK
<1> QED
  BY <1>1, <1>2, <1>3, <1>4, Calm

LEMMA ForwardedOK == ASSUME WorldOK, NEW f PROVE WindowOK(Forwarded(f))
BY DEF WorldOK, WindowOK, Forwarded, Span

LEMMA FollowKeeps == ASSUME TimelineInv, FollowTimer PROVE TimelineInv'
<1>1. /\ WindowOK(Forwarded(follow)) /\ view' = Forwarded(follow) /\ timer' = (timer \/ Forwarded(follow) # view)
      /\ UNCHANGED <<server, socket, tab, open, selected, telemetry, page>>
  BY ForwardedOK DEF FollowTimer, TimelineInv
<1> QED
  BY <1>1, ViewKeeps

LEMMA UserKeeps == ASSUME TimelineInv, UserActs PROVE TimelineInv'
<1>1. WorldOK /\ view.start \in Int /\ view.end \in Int /\ view.start < view.end /\ now \in Nat
  BY DEF TimelineInv, WorldOK, WindowOK
<1>2. ASSUME NEW w, NEW f, WindowOK(w), ViewSet(w, f) PROVE TimelineInv'
  BY <1>2, ViewKeeps DEF ViewSet
<1>3. ASSUME NEW ts \in (view.start)..(view.end), NEW f \in {<<1, 2>>, <<2, 1>>}, Zoom(ts, f) PROVE TimelineInv'
  <2>1. ts \in Int /\ f[1] \in Int /\ f[2] \in Nat \ {0}
    BY <1>1
  <2>2. WindowOK(ZoomAround(view, ts, f[1], f[2], now))
    BY <1>1, <2>1, Zoomed
  <2> QED
    BY <1>2, <1>3, <2>2 DEF Zoom, SetView
<1>4. ASSUME NEW d \in {-1, 1}, Pan(d) \/ Drag(d) PROVE TimelineInv'
  <2>1. WindowOK(PanBy(view, d, now))
    BY <1>1, Panned
  <2> QED
    BY <1>2, <1>4, <2>1 DEF Pan, Drag, SetView
<1>5. ASSUME NEW ts \in 1..now, Scrub(ts) PROVE TimelineInv'
  <2>1. WindowOK(CenterOn(view, ts, now))
    BY <1>1, Centred
  <2> QED
    BY <1>2, <1>5, <2>1 DEF Scrub, SetView
<1>6. ASSUME NEW secs \in {MinSpan, MaxSpan}, SetSpanPreset(secs) PROVE TimelineInv'
  <2>1. PICK end \in Int : ViewSet([start |-> end - secs, end |-> end], follow)
    BY <1>1, <1>6 DEF SetSpanPreset
  <2>2. WindowOK([start |-> end - secs, end |-> end])
    BY SpanAssumption DEF WindowOK
  <2> QED
    BY <1>2, <2>1, <2>2
<1>7. CASE JumpToNow
  <2>1. WindowOK([start |-> now - Span(view), end |-> now])
    BY <1>1 DEF WindowOK, Span
  <2> QED
    BY <1>2, <1>7, <2>1 DEF JumpToNow
<1>8. ASSUME NEW e \in shown, ZoomToCluster(e) PROVE TimelineInv'
  <2>1. PICK n \in Nat : n = at[e[1]] /\ SetView([start |-> n - 1, end |-> n + 1])
    <3>1. Wanted(e[1]) /\ SetView([start |-> at[e[1]] - 1, end |-> at[e[1]] + 1])
      BY <1>8 DEF ZoomToCluster
    <3>2. at[e[1]] \in Nat
      BY DEF TimelineInv, WorldOK, OnCanvasOK
    <3> QED
      BY <3>1, <3>2
  <2>2. WindowOK([start |-> n - 1, end |-> n + 1])
    BY DEF WindowOK
  <2> QED
    BY <1>2, <2>1, <2>2 DEF SetView
<1>9. CASE Refresh
  BY <1>9, RefreshKeeps
<1>10. ASSUME ToggleTelemetry \/ \E r \in Radios : ToggleRadio(r) PROVE TimelineInv'
  <2>1. /\ timer' = TRUE /\ telemetry' \in BOOLEAN /\ (selected' = selected \/ listed # {})
        /\ UNCHANGED <<now, at, known, wire, lost, timelineFeed, boot, listed, view, calls, phase, blank, skipped, fetched, truncated, shown>>
    BY <1>10 DEF ToggleTelemetry, ToggleRadio, TimelineInv, FlagsOK, server, socket, tab, page
  <2>2. WorldOK'
    BY <1>1, <2>1 DEF WorldOK
  <2>3. Old' \subseteq Old /\ \A h \in Old' : at'[h] = at[h]
    BY <2>1, SameOld
  <2>4. OnCanvasOK'
    BY <2>1 DEF TimelineInv, OnCanvasOK
  <2> QED
    BY <2>1, <2>2, <2>3, <2>4, Calm
<1> QED
  BY <1>3, <1>4, <1>5, <1>6, <1>7, <1>8, <1>9, <1>10 DEF UserActs

LEMMA WorldKeeps ==
  ASSUME TimelineInv, Tick \/ SocketCloses \/ (\E h \in Happenings : Happens(h)) \/ UNCHANGED timelineVars
  PROVE  TimelineInv'
<1>1. UNCHANGED <<known, boot, listed, open, selected, telemetry, timer, view, calls, phase, blank, skipped, fetched, truncated, shown>>
  BY DEF Tick, SocketCloses, Happens, timelineVars, server, socket, tab, canvas, page
<1>2. timer \in BOOLEAN /\ telemetry \in BOOLEAN /\ WorldOK /\ OnCanvasOK'
  BY <1>1 DEF TimelineInv, FlagsOK, OnCanvasOK
<1>3. CASE Tick
  <2>1. now' = now + 1 /\ UNCHANGED <<at, wire, lost, timelineFeed>>
    BY <1>3 DEF Tick, socket
  <2>2. WorldOK'
    BY <1>1, <1>2, <2>1 DEF WorldOK
  <2> QED
    BY <1>1, <1>2, <2>1, <2>2, SameOld, Calm
<1>4. CASE SocketCloses
  <2>1. /\ lost' = lost \cup Members(wire) /\ wire' = <<>> /\ UNCHANGED <<now, at, timelineFeed>>
    BY <1>4 DEF SocketCloses, server
  <2>2. WorldOK'
    BY <1>1, <1>2, <2>1 DEF WorldOK
  <2>3. Old' \subseteq Old /\ \A h \in Old' : at'[h] = at[h]
    BY <2>1 DEF Old
  <2> QED
    BY <1>1, <1>2, <2>2, <2>3, Calm
<1>5. ASSUME NEW h \in Happenings, Happens(h) PROVE TimelineInv'
  <2>1. at[h] = 0 /\ at' = [at EXCEPT ![h] = now] /\ wire' = Append(wire, h) /\ UNCHANGED <<now, lost, timelineFeed>>
    BY <1>5 DEF Happens
  <2>2. now \in Nat /\ at \in [Happenings -> Nat] /\ wire \in Seq(Happenings)
    BY <1>2 DEF WorldOK
  <2>3. at' \in [Happenings -> Nat] /\ \A g \in Happenings \ {h} : at'[g] = at[g]
    BY <2>1, <2>2
  <2>4. wire' \in Seq(Happenings) /\ h \in Members(wire') /\ Members(wire) \subseteq Members(wire')
    <3>1. /\ wire' \in Seq(Happenings) /\ Len(wire) + 1 \in DOMAIN wire' /\ wire'[Len(wire) + 1] = h
          /\ \A k \in DOMAIN wire : k \in DOMAIN wire' /\ wire'[k] = wire[k]
      BY <2>1, <2>2
    <3> QED
      BY <3>1 DEF Members
  <2>5. WorldOK'
    BY <1>1, <1>2, <2>1, <2>3, <2>4 DEF WorldOK
  <2>6. Old' \subseteq Old /\ \A g \in Old' : at'[g] = at[g]
    BY <2>1, <2>3, <2>4 DEF Old
  <2> QED
    BY <1>1, <1>2, <2>5, <2>6, Calm
<1>6. CASE UNCHANGED timelineVars
  <2>1. UNCHANGED <<now, at, wire, lost, timelineFeed>>
    BY <1>6 DEF timelineVars, server, socket
  <2>2. WorldOK'
    BY <1>1, <1>2, <2>1 DEF WorldOK
  <2> QED
    BY <1>1, <1>2, <2>1, <2>2, SameOld, Calm
<1> QED
  BY <1>3, <1>4, <1>5, <1>6

LEMMA DeliversKeeps == ASSUME TimelineInv, SocketDelivers PROVE TimelineInv'
<1>1. /\ wire # <<>> /\ wire' = Tail(wire) /\ timelineFeed' = timelineFeed \cup {Head(wire)} /\ shown \subseteq shown'
      /\ view' \in {view, Forwarded(follow)} /\ timer' \in {timer, (timer \/ view' # view)} /\ (view' # view => timer' = (timer \/ view' # view))
      /\ UNCHANGED <<now, at, known, lost, boot, listed, open, selected, telemetry, calls, phase, blank, skipped, fetched, truncated>>
  BY DEF SocketDelivers, server, tab
<1>2. timer \in BOOLEAN /\ telemetry \in BOOLEAN /\ WorldOK
  BY DEF TimelineInv, FlagsOK
<1>3. wire \in Seq(Happenings) /\ WindowOK(view) /\ WindowOK(Forwarded(follow))
  BY <1>2, ForwardedOK DEF WorldOK
<1>4. Tail(wire) \in Seq(Happenings) /\ Members(wire) \subseteq Members(Tail(wire)) \cup {Head(wire)}
  <2>1. \A k \in DOMAIN wire : wire[k] # Head(wire) => k - 1 \in DOMAIN Tail(wire) /\ Tail(wire)[k - 1] = wire[k]
    BY <1>1, <1>3
  <2> QED
    BY <1>1, <1>3, <2>1 DEF Members
<1>8. Head(wire) \in Happenings
  BY <1>1, <1>3
<1>5. WorldOK'
  BY <1>1, <1>2, <1>3, <1>4, <1>8 DEF WorldOK
<1>9. OnCanvasOK'
  <2>1. shown' \subseteq shown \cup {<<h, Synthetic(h)>> : h \in timelineFeed \cup {Head(wire)}}
    BY DEF SocketDelivers
  <2>2. \A e \in shown : e[1] \in Happenings
    BY DEF TimelineInv, OnCanvasOK
  <2>3. timelineFeed \cup {Head(wire)} \subseteq Happenings
    BY <1>2, <1>8 DEF WorldOK
  <2> QED
    BY <2>1, <2>2, <2>3 DEF OnCanvasOK
<1>6. Old' \subseteq Old /\ \A h \in Old' : at'[h] = at[h]
  BY <1>1, <1>4 DEF Old
<1>7. timer' \in BOOLEAN /\ (timer' \/ UNCHANGED <<timer, view>>)
  BY <1>1, <1>2
<1> QED
  BY <1>1, <1>2, <1>5, <1>6, <1>7, <1>9, Calm

---------------------------------------------------------------------------
(* Answers.                                                                *)

LEMMA ServedCall ==
  ASSUME NEW q, NEW r, NEW k, NEW c, c = [query |-> q, rows |-> r, cut |-> k], NEW x, NEW y,
         NEW d, d = [c EXCEPT !.rows = x, !.cut = y]
  PROVE  d = [query |-> d.query, rows |-> d.rows, cut |-> d.cut] /\ d.query = q /\ d.rows = x /\ d.cut = y
<1>1. c \in [query : {q}, rows : {r, x}, cut : {k, y}]
  OBVIOUS
<1>2. d \in [query : {q}, rows : {r, x}, cut : {k, y}] /\ d.query = c.query /\ d.rows = x /\ d.cut = y
  BY <1>1
<1> QED
  BY <1>2

LEMMA ServeKept == ASSUME TimelineInv, NEW c \in calls, Serve(c) PROVE TimelineInv'
<1>1. PICK answer \in GetTimeline({Row(h) : h \in StoredEvents}, Members(c.query.ids), Kinds(c.query.telemetry),
                                  c.query.from, c.query.to, Limit) :
        calls' = (calls \ {c}) \cup {[c EXCEPT !.rows = {a.id : a \in answer.events}, !.cut = answer.truncated]}
  BY DEF Serve
<1>2. /\ c.rows = None /\ Members(c.query.ids) \subseteq known
      /\ UNCHANGED <<now, at, known, wire, lost, timelineFeed, boot, listed, open, selected, telemetry, view, shown, fetched, phase, truncated, blank, skipped, timer>>
  BY DEF Serve, server, socket, tab, canvas
<1>3. /\ c = [query |-> c.query, rows |-> c.rows, cut |-> c.cut] /\ c.query.from \in Int /\ c.query.to \in Int
      /\ calls = {c}
  BY DEF TimelineInv, CallsOK
<1>4. WorldOK /\ at \in [Happenings -> Nat]
  BY DEF TimelineInv, WorldOK
<1> DEFINE ids == {a.id : a \in answer.events}
           stored == {Row(h) : h \in StoredEvents}
<1>5. stored \in SUBSET [id : Happenings, radio : {RadioOf[h] : h \in Happenings}, kind : {KindOf[h] : h \in Happenings}, ts : Nat]
  BY <1>4 DEF Row, StoredEvents
<1>6. ids \subseteq Happenings
  <2>1. PICK merged \in Merges(Queries(stored, Members(c.query.ids), Kinds(c.query.telemetry), c.query.from, c.query.to), Limit + 1) :
          answer.events = Slice(merged, Limit)
    BY DEF GetTimeline
  <2>2. answer.events \subseteq stored
    <3>1. merged \subseteq stored
      BY DEF Merges, Queries
    <3> QED
      BY <2>1, <3>1 DEF Slice
  <2> QED
    BY <1>5, <2>2
<1>7. ~answer.truncated => Asked(c.query) \subseteq ids
  <2> SUFFICES ASSUME ~answer.truncated, NEW h \in Asked(c.query) PROVE h \in ids
    OBVIOUS
  <2>1. IsFiniteSet(stored)
    <3>1. IsFiniteSet(StoredEvents)
      BY TimelineAssumption, FS_Subset DEF StoredEvents
    <3> DEFINE f == [g \in StoredEvents |-> Row(g)]
    <3>2. f \in [StoredEvents -> stored] /\ \A r \in stored : \E g \in StoredEvents : f[g] = r
      OBVIOUS
    <3> HIDE DEF f, stored
    <3>3. f \in Surjection(StoredEvents, stored)
      BY <3>2 DEF Surjection
    <3> QED
      BY <3>1, <3>3, FS_Surjection
  <2>2. \A a \in stored : a.ts \in Nat /\ a.id \in Nat
    BY <1>5, TimelineAssumption
  <2>3. h \in StoredEvents /\ RadioOf[h] \in Members(c.query.ids) /\ KindOf[h] \in Kinds(c.query.telemetry)
        /\ c.query.from <= at[h] /\ at[h] <= c.query.to
    BY <1>2 DEF Asked, Old, StoredEvents
  <2>4. Row(h) \in stored /\ Row(h).radio = RadioOf[h] /\ Row(h).kind = KindOf[h] /\ Row(h).ts = at[h] /\ Row(h).id = h
    BY <2>3 DEF Row
  <2> HIDE DEF stored
  <2>5. answer \in GetTimeline(stored, Members(c.query.ids), Kinds(c.query.telemetry), c.query.from, c.query.to, Limit)
    BY DEF stored
  <2>6. Row(h) \in answer.events
    BY <2>1, <2>2, <2>3, <2>4, <2>5, PageWhole
  <2> QED
    BY <2>4, <2>6
<1> PICK s, cut : s = ids /\ cut = answer.truncated
  OBVIOUS
<1>8. PICK d : d = [c EXCEPT !.rows = s, !.cut = cut]
  OBVIOUS
<1>9. d = [query |-> d.query, rows |-> d.rows, cut |-> d.cut] /\ d.query = c.query /\ d.rows = s /\ d.cut = cut
  <2> PICK q, r, k : q = c.query /\ r = c.rows /\ k = c.cut
    OBVIOUS
  <2>1. c = [query |-> q, rows |-> r, cut |-> k]
    BY <1>3
  <2> QED
    BY <1>8, <2>1, ServedCall
<1>10. calls' = {d}
  BY <1>1, <1>3, <1>8
<1> HIDE DEF ids, stored
<1>11. Old' \subseteq Old /\ \A h \in Old' : at'[h] = at[h]
  BY <1>2, SameOld
<1>12. CallsOK'
  <2>1. Asked(c.query)' \subseteq Asked(c.query)
    BY <1>2 DEF Asked, Old
  <2> QED
    BY <1>3, <1>6, <1>7, <1>9, <1>10, <2>1 DEF CallsOK
<1>13. FlightOK'
  BY <1>2, <1>3, <1>9, <1>10 DEF TimelineInv, FlightOK, Fits
<1>14. RestOK' /\ RadiosOK'
  BY <1>2, <1>3, <1>10 DEF TimelineInv, RestOK, RadiosOK
<1>15. PageOK' /\ WorldOK' /\ FlagsOK' /\ FetchedOK' /\ OnCanvasOK'
  BY <1>2, <1>11, PageStays DEF TimelineInv, WorldOK, FlagsOK, FetchedOK, OnCanvasOK
<1> QED
  BY <1>12, <1>13, <1>14, <1>15 DEF TimelineInv

LEMMA AnsweredKeeps == ASSUME TimelineInv, NEW c \in calls, Answered(c) PROVE TimelineInv'
<1>1. /\ c.rows # None /\ shown' = StillShown(c.query) \cup {<<h, FALSE>> : h \in c.rows}
      /\ fetched' = c.query /\ truncated' = c.cut /\ phase' = "ready" /\ blank' = FALSE
      /\ UNCHANGED <<now, at, known, wire, lost, timelineFeed, boot, listed, open, selected, telemetry, view, skipped, timer>>
  BY DEF Answered, server, socket, tab, canvas
<1>2. calls' = {} /\ c.query.from \in Int /\ c.query.to \in Int /\ c.rows \subseteq Happenings /\ (~c.cut => Asked(c.query) \subseteq c.rows)
  BY <1>1 DEF Answered, TimelineInv, CallsOK
<1>3. StillShown(c.query) \subseteq shown
  BY DEF StillShown
<1>4. WorldOK' /\ FlagsOK' /\ FetchedOK' /\ CallsOK' /\ FlightOK' /\ RadiosOK'
  BY <1>1, <1>2 DEF TimelineInv, WorldOK, FlagsOK, FetchedOK, CallsOK, FlightOK, RadiosOK
<1>5. OnCanvasOK'
  <2>1. ASSUME NEW e \in {<<h, FALSE>> : h \in c.rows} PROVE e[1] \in Happenings
    <3>1. PICK h \in c.rows : e = <<h, FALSE>>
      BY <2>1, Zenon
    <3> QED
      BY <1>2, <3>1
  <2>2. \A e \in StillShown(c.query) : e[1] \in Happenings
    BY <1>3 DEF TimelineInv, OnCanvasOK
  <2> QED
    BY <1>1, <2>1, <2>2 DEF OnCanvasOK
<1>6. RestOK'
  BY <1>1 DEF TimelineInv, FlightOK, RestOK, Fits
<1>7. PageOK'
  <2>1. Asked(fetched)' \subseteq Asked(c.query)
    BY <1>1 DEF Asked, Old
  <2>2. ~truncated' => \A h \in Asked(fetched)' : <<h, FALSE>> \in shown' /\ <<h, FALSE>>[1] = h
    BY <1>1, <1>2, <2>1
  <2> QED
    BY <2>2 DEF PageOK
<1> QED
  BY <1>4, <1>5, <1>6, <1>7 DEF TimelineInv

LEMMA RequestFails == ASSUME TimelineInv, NEW c \in calls, Fails(c) PROVE TimelineInv'
<1>1. /\ phase' = "error" /\ calls' = {}
      /\ UNCHANGED <<now, at, known, wire, lost, timelineFeed, boot, listed, open, selected, telemetry, view, shown, fetched, truncated, blank, skipped, timer>>
  BY DEF Fails, server, socket, tab, canvas, TimelineInv, CallsOK
<1>2. WorldOK' /\ FlagsOK' /\ FetchedOK' /\ OnCanvasOK'
  BY <1>1 DEF TimelineInv, WorldOK, FlagsOK, FetchedOK, OnCanvasOK
<1> QED
  BY <1>1, <1>2 DEF TimelineInv, CallsOK, FlightOK, RestOK, PageOK, RadiosOK

---------------------------------------------------------------------------
(* The radios there are.                                                   *)

LEMMA PreferredKeeps ==
  ASSUME TimelineInv, Preferred, open, boot' # "loading", listed' = known, listed' = listed \/ boot = "loading",
         UNCHANGED <<server, socket, open, telemetry, view, follow>>
  PROVE  TimelineInv'
<1>1. UNCHANGED <<now, at, known, wire, lost, timelineFeed>>
  BY DEF server, socket
<1>2. boot = "loading" => listed = {} /\ selected = <<>> /\ calls = {} /\ (phase = "ready" => blank)
  BY DEF TimelineInv, RadiosOK
<1>3. CASE selected = <<>> /\ listed' # {}
  <2>1. selected' # <<>> /\ LoadEvents(selected', telemetry, view) /\ timer' = TRUE
    BY <1>3 DEF Preferred
  <2>2. WorldOK' /\ CallsOK' /\ FlightOK' /\ RestOK' /\ PageOK' /\ FlagsOK' /\ FetchedOK' /\ OnCanvasOK'
    BY <1>2, <2>1, Loaded
  <2>3. RadiosOK'
    BY <1>1, <1>3 DEF RadiosOK
  <2> QED
    BY <2>2, <2>3 DEF TimelineInv
<1>4. CASE ~(selected = <<>> /\ listed' # {})
  <2>1. /\ UNCHANGED <<selected, timer, shown, fetched, calls, truncated, blank, skipped>>
        /\ phase' = IF boot = "loading" /\ listed' = {} THEN "ready" ELSE phase
    BY <1>4 DEF Preferred
  <2>2. WorldOK' /\ FlagsOK' /\ FetchedOK' /\ OnCanvasOK'
    BY <1>1, <2>1 DEF TimelineInv, WorldOK, FlagsOK, FetchedOK, OnCanvasOK
  <2>3. Old' \subseteq Old /\ \A h \in Old' : at'[h] = at[h]
    BY <1>1, SameOld
  <2>4. CallsOK'
    BY <2>1, <2>3, CallsStay DEF TimelineInv
  <2>5. RadiosOK'
    BY <1>1, <1>2, <1>4, <2>1 DEF TimelineInv, RadiosOK
  <2>6. FlightOK'
    BY <2>1, FlightStays DEF TimelineInv
  <2>7. RestOK' /\ PageOK'
    <3>1. CASE boot = "loading"
      BY <1>2, <1>4, <2>1, <3>1 DEF RestOK, PageOK
    <3>2. CASE boot # "loading"
      <4>1. phase' = phase /\ listed' = listed
        BY <2>1, <3>2
      <4> QED
        BY <2>1, <2>3, <4>1, RestStays, PageStays DEF TimelineInv
    <3> QED
      BY <3>1, <3>2
  <2> QED
    BY <2>2, <2>4, <2>5, <2>6, <2>7 DEF TimelineInv
<1> QED
  BY <1>3, <1>4

LEMMA StatusKeeps == ASSUME TimelineInv, StatusArrives PROVE TimelineInv'
<1>1. /\ Preferred /\ open /\ boot = "ready" /\ boot' = "ready" /\ listed' = known /\ open' = open
      /\ UNCHANGED <<server, socket, telemetry, view, follow>>
  BY DEF StatusArrives
<1>2. listed' = listed
  BY <1>1 DEF TimelineInv, RadiosOK
<1> QED
  BY <1>1, <1>2, PreferredKeeps

LEMMA BootstrapsKeep == ASSUME TimelineInv, Bootstraps PROVE TimelineInv'
<1>1. boot = "loading" /\ boot' = "ready" /\ listed' = known /\ UNCHANGED <<server, socket, open, telemetry, view, follow>>
  BY DEF Bootstraps
<1>2. CASE open
  <2>1. Preferred
    BY <1>2 DEF Bootstraps
  <2> QED
    BY <1>1, <1>2, <2>1, PreferredKeeps
<1>3. CASE ~open
  <2>1. UNCHANGED <<now, at, known, wire, lost, timelineFeed, selected, timer, calls, phase, blank, skipped, fetched, truncated, shown>>
    BY <1>1, <1>3 DEF Bootstraps, page, server, socket
  <2>2. WorldOK' /\ FlagsOK' /\ FetchedOK' /\ OnCanvasOK'
    BY <1>1, <2>1 DEF TimelineInv, WorldOK, FlagsOK, FetchedOK, OnCanvasOK
  <2>3. listed = {} /\ selected = <<>> /\ calls = {} /\ (phase = "ready" => blank)
    BY <1>1 DEF TimelineInv, RadiosOK
  <2>4. CallsOK' /\ FlightOK' /\ RestOK' /\ PageOK' /\ RadiosOK'
    BY <1>1, <2>1, <2>3 DEF CallsOK, FlightOK, RestOK, PageOK, RadiosOK
  <2> QED
    BY <2>2, <2>4 DEF TimelineInv
<1> QED
  BY <1>2, <1>3

LEMMA OpensKeeps == ASSUME TimelineInv, Opens PROVE TimelineInv'
<1>1. /\ view' = [start |-> now - MinSpan, end |-> now] /\ telemetry' = FALSE /\ shown' = {} /\ fetched' = None
      /\ blank' = FALSE /\ skipped' = FALSE
      /\ UNCHANGED <<now, at, known, wire, lost, timelineFeed, boot, listed>>
  BY DEF Opens, server, socket, tab
<1>2. WindowOK(view')
  BY <1>1, SpanAssumption DEF TimelineInv, WorldOK, WindowOK
<1>3. WorldOK' /\ FetchedOK' /\ OnCanvasOK'
  BY <1>1, <1>2 DEF TimelineInv, WorldOK, FetchedOK, OnCanvasOK
<1>4. CASE listed = {}
  <2>1. selected' = <<>> /\ timer' = FALSE /\ calls' = {} /\ phase' = (IF boot = "ready" THEN "ready" ELSE "loading")
    BY <1>4 DEF Opens
  <2>2. RadiosOK'
    BY <1>1, <1>4, <2>1 DEF TimelineInv, RadiosOK
  <2>3. CallsOK' /\ FlightOK' /\ RestOK' /\ PageOK' /\ FlagsOK'
    BY <1>1, <1>4, <2>1 DEF CallsOK, FlightOK, RestOK, PageOK, FlagsOK
  <2> QED
    BY <1>3, <2>2, <2>3 DEF TimelineInv
<1>5. CASE listed # {}
  <2>1. timer' = TRUE /\ phase' = "loading" /\ Request(selected', FALSE, view')
    BY <1>5 DEF Opens
  <2>2. CallsOK' /\ FlightOK' /\ RestOK'
    <3>1. Request(selected', telemetry', view')
      BY <1>1, <2>1
    <3> QED
      BY <1>2, <3>1, Requested
  <2>3. RadiosOK' /\ PageOK' /\ FlagsOK'
    BY <1>1, <1>5, <2>1 DEF TimelineInv, RadiosOK, PageOK, FlagsOK
  <2> QED
    BY <1>3, <2>2, <2>3 DEF TimelineInv
<1> QED
  BY <1>4, <1>5

---------------------------------------------------------------------------
LEMMA TimelineInitially == TimelineInit => TimelineInv
<1> SUFFICES ASSUME TimelineInit PROVE TimelineInv
  OBVIOUS
<1>1. WorldOK
  BY SpanAssumption DEF TimelineInit, WorldOK, WindowOK
<1>2. RadiosOK /\ CallsOK /\ FlightOK
  BY DEF TimelineInit, RadiosOK, CallsOK, FlightOK
<1>3. RestOK /\ PageOK /\ FlagsOK /\ FetchedOK /\ OnCanvasOK
  BY DEF TimelineInit, RestOK, PageOK, FlagsOK, FetchedOK, OnCanvasOK
<1> QED
  BY <1>1, <1>2, <1>3 DEF TimelineInv

LEMMA TimelineStep == TimelineInv /\ [TimelineNext]_timelineVars => TimelineInv'
<1> SUFFICES ASSUME TimelineInv, [TimelineNext]_timelineVars PROVE TimelineInv'
  OBVIOUS
<1>1. CASE Bootstraps \/ StatusArrives \/ Opens
  BY <1>1, BootstrapsKeep, StatusKeeps, OpensKeeps
<1>2. CASE TimerFires \/ FollowTimer \/ UserActs \/ SocketDelivers
  BY <1>2, TimerKeeps, FollowKeeps, UserKeeps, DeliversKeeps
<1>3. ASSUME NEW c \in calls, Serve(c) \/ Answered(c) \/ Fails(c) PROVE TimelineInv'
  BY <1>3, ServeKept, AnsweredKeeps, RequestFails
<1>4. CASE Tick \/ SocketCloses \/ (\E h \in Happenings : Happens(h)) \/ UNCHANGED timelineVars
  BY <1>4, WorldKeeps
<1> QED
  BY <1>1, <1>2, <1>3, <1>4 DEF TimelineNext, Loads

\* What a request in flight or the page that came last has, or owes the view, for
\* any happenings, moves and failures (TimelineView.vue).
THEOREM TimelineInvariant == TimelineSpec => []TimelineInv
<1> QED
  BY TimelineInitially, TimelineStep, PTL DEF TimelineSpec

\* At rest the view has every stored event of its radios, kinds and window, but what
\* came and went over the socket (loadEvents, scheduleFetch).
THEOREM SettledCorrect == TimelineSpec => []Settled
<1>1. TimelineInv => Settled
  <2> SUFFICES ASSUME TimelineInv, open, phase = "ready", selected # <<>>, ~timer, calls = {}, wire = <<>>, ~truncated,
                      ~blank, ~skipped, NEW h \in StoredEvents, Wanted(h), view.start <= at[h], at[h] <= view.end,
                      h \notin {e[1] : e \in shown}, h \notin timelineFeed, h \notin lost
               PROVE  FALSE
    BY DEF Settled
  <2>1. Fits(fetched) /\ listed # {}
    BY DEF TimelineInv, RestOK, RadiosOK
  <2>2. h \in Old /\ at[h] \in Nat
    BY DEF StoredEvents, Old, Members, TimelineInv, WorldOK
  <2>3. h \in Asked(fetched)
    BY <2>1, <2>2 DEF Asked, Fits, Wanted
  <2> QED
    BY <2>1, <2>3 DEF TimelineInv, PageOK
<1> QED
  BY <1>1, TimelineInvariant, PTL
===============================================================================
