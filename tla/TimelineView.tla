---------------------------- MODULE TimelineView ----------------------------
(***************************************************************************)
(* The timeline of the browser (TimelineView.vue): a window that is moved  *)
(* and follows the time, pages of stored events that are requested after a *)
(* delay and answered in any order, and live events that come over the     *)
(* socket in between.                                                      *)
(*                                                                         *)
(* A happening is stored, and put on the wire, when it happens; some have  *)
(* happened before there was a tab.  The unit of time is a minute or more: *)
(* 250 ms pass within it.                                                  *)
(***************************************************************************)
EXTENDS TimelineQueries

CONSTANTS
  Happenings, RadioOf, KindOf,  \* what may happen once, to which radio, of which kind
  Radios, None,
  Limit,                        \* 2,000 events in a page
  MaxNow, MaxMoves              \* bounds: time, and what the user does

ASSUME TimelineAssumption ==
  /\ Happenings \subseteq Nat /\ IsFiniteSet(Happenings) /\ Radios \subseteq Nat
  /\ Limit \in Nat /\ MaxNow \in Nat /\ MaxMoves \in Nat

VARIABLES
  now,
  at,        \* when each happening was stored; 0 before
  known,     \* the radios the server has
  wire,      \* events on the way to the tab
  lost,      \* events that went with a socket
  timelineFeed, \* 200 events, here all that came
  listed,    \* the radios the tab knows of
  boot,      \* bootstrapPhase
  open,      \* whether the view is mounted
  selected,  \* selectedRadioIds
  telemetry, \* showTelemetry
  view, follow,
  shown,     \* eventsById: <<happening, live>>, where a live one has a synthetic id
  fetched,
  timer,     \* fetchTimer is set
  calls,     \* the request for a page that counts, if there is one
  phase, truncated,
  blank, skipped, \* history: events were cleared; a fetch was left out for one in flight
  moves

server == <<now, at, known>>
socket == <<wire, lost, timelineFeed>>
tab    == <<listed, boot>>
canvas == <<open, selected, telemetry, view, follow>>
page   == <<shown, fetched, calls, phase, truncated, blank, skipped>>
timelineVars == <<server, socket, tab, canvas, page, timer, moves>>

Synthetic(h) == KindOf[h] = "telemetry"
StoredEvents == {h \in Happenings : at[h] > 0 /\ RadioOf[h] \in known}
Row(h) == [id |-> h, radio |-> RadioOf[h], kind |-> KindOf[h], ts |-> at[h]]
Kinds(t) == BASE_KINDS \cup IF t THEN {"telemetry"} ELSE {}
Members(ids) == {ids[i] : i \in DOMAIN ids}

---------------------------------------------------------------------------
(* Pages.                                                                  *)

Padded(w, ids, t) ==
  [from |-> Most(0, w.start - Span(w)), to |-> w.end + Span(w), ids |-> ids, telemetry |-> t]

\* What was in flight is superseded: its answer will count for nothing.
Request(ids, t, w) == calls' = {[query |-> Padded(w, ids, t), rows |-> None, cut |-> FALSE]}

LoadEvents(ids, t, w) ==
  IF ids = <<>>
  THEN /\ shown' = {} /\ phase' = "ready" /\ blank' = TRUE
       /\ UNCHANGED <<fetched, calls, truncated, skipped>>
  ELSE /\ Request(ids, t, w) /\ skipped' = FALSE
       /\ UNCHANGED <<shown, fetched, phase, truncated, blank>>

\* Faulty variant: the kinds of the last page are not looked at.
CoversAnyKind(f, ids, t, w) ==
  f # None /\ f.ids = ids /\ f.from <= w.start /\ w.end <= f.to

Covers(f, ids, t, w) ==
  f # None /\ f.ids = ids /\ f.telemetry = t /\ f.from <= w.start /\ w.end <= f.to

Escaped == ~Covers(fetched, selected, telemetry, view)

\* Nothing is fetched if the last page that arrived has it all, whatever is in flight.
TimerFires ==
  /\ timer /\ timer' = FALSE
  /\ IF Escaped THEN LoadEvents(selected, telemetry, view)
     ELSE /\ skipped' = (skipped \/ calls # {})
          /\ UNCHANGED <<shown, fetched, calls, phase, truncated, blank>>
  /\ UNCHANGED <<server, socket, tab, canvas, moves>>

\* The server answers, unless a radio is not there.
Serve(c) ==
  /\ c.rows = None /\ Members(c.query.ids) \subseteq known
  /\ \E answer \in GetTimeline({Row(h) : h \in StoredEvents}, Members(c.query.ids), Kinds(c.query.telemetry),
                               c.query.from, c.query.to, Limit) :
       calls' = (calls \ {c}) \cup
                  {[c EXCEPT !.rows = {a.id : a \in answer.events}, !.cut = answer.truncated]}
  /\ UNCHANGED <<server, socket, tab, canvas, shown, fetched, phase, truncated, blank, skipped, timer, moves>>

StillShown(q) ==
  IF fetched = None \/ fetched.ids # q.ids \/ fetched.telemetry # q.telemetry THEN {}
  ELSE {e \in shown : at[e[1]] < q.from \/ at[e[1]] > q.to}

Answered(c) ==
  /\ c.rows # None /\ calls' = calls \ {c}
  /\ shown' = StillShown(c.query) \cup {<<h, FALSE>> : h \in c.rows}
  /\ fetched' = c.query /\ truncated' = c.cut /\ phase' = "ready" /\ blank' = FALSE
  /\ UNCHANGED <<server, socket, tab, canvas, skipped, timer, moves>>

\* Faulty variant: a failure is passed over.
FailsQuietly(c) ==
  /\ calls' = calls \ {c}
  /\ UNCHANGED <<server, socket, tab, canvas, shown, fetched, phase, truncated, blank, skipped, timer, moves>>

\* The request is lost, or refused for a radio that is not there.
Fails(c) ==
  /\ calls' = calls \ {c} /\ phase' = "error"
  /\ UNCHANGED <<server, socket, tab, canvas, shown, fetched, truncated, blank, skipped, timer, moves>>

---------------------------------------------------------------------------
(* What happens, and comes over the socket.                                *)

Tick ==
  /\ now < MaxNow /\ now' = now + 1
  /\ UNCHANGED <<at, known, socket, tab, canvas, page, timer, moves>>

Happens(h) ==
  /\ at[h] = 0 /\ RadioOf[h] \in known
  /\ at' = [at EXCEPT ![h] = now] /\ wire' = Append(wire, h)
  /\ UNCHANGED <<now, known, lost, timelineFeed, tab, canvas, page, timer, moves>>

SocketCloses ==
  /\ wire # <<>>
  /\ lost' = lost \cup Members(wire) /\ wire' = <<>>
  /\ UNCHANGED <<server, timelineFeed, tab, canvas, page, timer, moves>>

Wanted(h) == RadioOf[h] \in Members(selected) /\ KindOf[h] \in Kinds(telemetry)

Forwarded(f) == IF f /\ view.end < now THEN [start |-> now - Span(view), end |-> now] ELSE view

\* The whole feed is looked at again.
SocketDelivers ==
  /\ wire # <<>> /\ wire' = Tail(wire)
  /\ LET came == timelineFeed \cup {Head(wire)}
         added == {<<h, Synthetic(h)>> : h \in {g \in came : Wanted(g)}} \ shown
     IN  /\ timelineFeed' = came
         /\ IF open /\ added # {}
            THEN /\ shown' = shown \cup added
                 /\ view' = Forwarded(follow) /\ timer' = (timer \/ view' # view)
            ELSE UNCHANGED <<shown, view, timer>>
  /\ UNCHANGED <<server, lost, tab, open, selected, telemetry, follow, fetched, calls, phase, truncated,
                 blank, skipped, moves>>

\* followTimer, twice a minute.
FollowTimer ==
  /\ open /\ Forwarded(follow) # view
  /\ view' = Forwarded(follow) /\ timer' = TRUE
  /\ UNCHANGED <<server, socket, tab, open, selected, telemetry, follow, page, moves>>

---------------------------------------------------------------------------
(* The user, and the list of radios.                                       *)

Move == open /\ moves < MaxMoves /\ moves' = moves + 1

\* Whatever moves the window starts the timer again.
ViewSet(w, f) ==
  /\ view' = w /\ follow' = f /\ timer' = (timer \/ w # view)
  /\ UNCHANGED <<server, socket, tab, open, selected, telemetry, page>>

SetView(w) == ViewSet(w, w.end >= now)

\* The wheel, the buttons and the keys + and -.
Zoom(anchor, factor) ==
  Move /\ SetView(ZoomAround(view, anchor, factor[1], factor[2], now))

\* The arrows follow the time again when they reach it; a drag stops following.
Pan(delta)  == Move /\ SetView(PanBy(view, delta, now))
Drag(delta) == Move /\ ViewSet(PanBy(view, delta, now), FALSE)

Scrub(ts) == Move /\ SetView(CenterOn(view, ts, now))

SetSpanPreset(secs) ==
  LET end == IF follow THEN now ELSE view.end
  IN  Move /\ ViewSet([start |-> end - secs, end |-> end], follow)

JumpToNow == Move /\ ViewSet([start |-> now - Span(view), end |-> now], TRUE)

\* A cluster of events of one time.
ZoomToCluster(e) ==
  /\ Move /\ Wanted(e[1]) /\ view.start <= at[e[1]] /\ at[e[1]] <= view.end
  /\ SetView([start |-> at[e[1]] - 1, end |-> at[e[1]] + 1])

ToggleTelemetry ==
  /\ Move /\ telemetry' = ~telemetry /\ timer' = TRUE
  /\ UNCHANGED <<server, socket, tab, open, selected, view, follow, page>>

Toggled(r) ==
  IF r \in Members(selected) THEN SelectSeq(selected, LAMBDA other : other # r) ELSE Append(selected, r)

ToggleRadio(r) ==
  /\ Move /\ r \in listed /\ selected' = Toggled(r) /\ timer' = TRUE
  /\ UNCHANGED <<server, socket, tab, open, telemetry, view, follow, page>>

Refresh ==
  /\ Move /\ LoadEvents(selected, telemetry, view)
  /\ UNCHANGED <<server, socket, tab, canvas, timer>>

\* The radio in view, here the first.
First(radios) == CHOOSE r \in radios : \A other \in radios : r <= other

\* The first radios there are, and any list while none is selected, select the one in view.
Preferred ==
  IF selected = <<>> /\ listed' # {}
  THEN /\ selected' = <<First(listed')>>
       /\ LoadEvents(selected', telemetry, view) /\ timer' = TRUE
  ELSE UNCHANGED <<selected, timer, shown, fetched, calls, truncated, blank, skipped>> /\
       phase' = IF boot = "loading" /\ listed' = {} THEN "ready" ELSE phase

Bootstraps ==
  /\ boot = "loading" /\ boot' = "ready" /\ listed' = known
  /\ IF open THEN Preferred ELSE UNCHANGED <<selected, timer, page>>
  /\ UNCHANGED <<server, socket, open, telemetry, view, follow, moves>>

\* The list of radios comes with each status.
StatusArrives ==
  /\ boot = "ready" /\ open /\ listed' = known /\ (listed # known \/ selected = <<>>)
  /\ Preferred
  /\ UNCHANGED <<server, socket, boot, open, telemetry, view, follow, moves>>

\* The view is mounted: it selects a radio and loads, twice over.
Opens ==
  /\ ~open /\ open' = TRUE
  /\ view' = [start |-> now - MinSpan, end |-> now] /\ follow' = TRUE /\ telemetry' = FALSE
  /\ shown' = {} /\ fetched' = None /\ truncated' = FALSE /\ blank' = FALSE /\ skipped' = FALSE
  /\ IF listed = {} THEN selected' = <<>> /\ timer' = FALSE /\ calls' = {} /\
                         phase' = IF boot = "ready" THEN "ready" ELSE "loading"
     ELSE /\ selected' = <<First(listed)>> /\ timer' = TRUE /\ phase' = "loading"
          /\ Request(selected', FALSE, view')
  /\ UNCHANGED <<server, socket, tab, moves>>

---------------------------------------------------------------------------
TimelineInit ==
  /\ now = 1 /\ at \in [Happenings -> {0, 1}] /\ known \in {{}, Radios}
  /\ wire = <<>> /\ lost = {} /\ timelineFeed = {}
  /\ listed = {} /\ boot = "loading" /\ open = FALSE
  /\ selected = <<>> /\ telemetry = FALSE /\ view = [start |-> 1 - MinSpan, end |-> 1] /\ follow = TRUE
  /\ shown = {} /\ fetched = None /\ timer = FALSE /\ calls = {} /\ phase = "loading" /\ truncated = FALSE
  /\ blank = FALSE /\ skipped = FALSE /\ moves = 0

Loads == \E c \in calls : Serve(c) \/ Answered(c)

UserActs ==
  \/ \E ts \in (view.start)..(view.end), f \in {<<1, 2>>, <<2, 1>>} : Zoom(ts, f)
  \/ \E d \in {-1, 1} : Pan(d) \/ Drag(d)
  \/ \E ts \in 1..now : Scrub(ts)
  \/ \E secs \in {MinSpan, MaxSpan} : SetSpanPreset(secs)
  \/ JumpToNow \/ ToggleTelemetry \/ Refresh
  \/ \E r \in Radios : ToggleRadio(r)
  \/ \E e \in shown : ZoomToCluster(e)

TimelineNext ==
  \/ Bootstraps \/ StatusArrives \/ Opens \/ TimerFires \/ FollowTimer \/ Loads
  \/ \E c \in calls : Fails(c)
  \/ Tick \/ SocketCloses \/ SocketDelivers
  \/ \E h \in Happenings : Happens(h)
  \/ UserActs

TimelineSpec == TimelineInit /\ [][TimelineNext]_timelineVars

\* The bootstrap answers, and requests are answered or fail.
TimelineFair == TimelineSpec /\ WF_timelineVars(Bootstraps) /\ WF_timelineVars(Loads \/ \E c \in calls : Fails(c))

---------------------------------------------------------------------------
(* What is promised.                                                       *)

\* At rest the canvas has every stored event of the selected radios, the kinds and
\* the window, if the page was not too long: what is missing is still in the feed,
\* or went with a socket.  Not so after the last radio was deselected, and after a
\* fetch that was left out while another was in flight (loadEvents, scheduleFetch).
Settled ==
  LET missing == {h \in StoredEvents : /\ Wanted(h) /\ view.start <= at[h] /\ at[h] <= view.end
                                 /\ h \notin {e[1] : e \in shown}}
  IN  open /\ phase = "ready" /\ selected # <<>> /\ ~timer /\ calls = {} /\ wire = <<>> /\ ~truncated
        /\ ~blank /\ ~skipped => missing \subseteq timelineFeed \cup lost

\* "A server with no stored radios has nothing to load - don't spin forever": the
\* view does not go on loading, whether it is opened before or after the radios
\* are known.
LoadingEnds == open /\ phase = "loading" ~> phase # "loading"
=============================================================================
