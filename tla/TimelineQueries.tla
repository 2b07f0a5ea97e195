--------------------------- MODULE TimelineQueries ---------------------------
(***************************************************************************)
(* What the timeline is computed with: the merged page and the density     *)
(* summary of the server (store.ts, getTimeline and getTimelineOverview)   *)
(* and the window arithmetic and clusters of the browser (timeline.ts).    *)
(*                                                                         *)
(* A row is [id, radio, kind, ts].  Times and spans are whole numbers of a *)
(* unit, so divisions round where the browser's numbers do not.            *)
(***************************************************************************)
EXTENDS Integers, FiniteSets, Sequences

CONSTANTS
  MinSpan, MaxSpan  \* 300 seconds and 90 days

ASSUME SpanAssumption == MinSpan \in Nat \ {0} /\ MaxSpan \in Nat /\ MinSpan <= MaxSpan

Least(a, b) == IF a <= b THEN a ELSE b
Most(a, b)  == IF a >= b THEN a ELSE b

BASE_KINDS == {"advert", "message", "alert", "link"}

---------------------------------------------------------------------------
(* The page: each source gives its earliest rows, one more than the limit. *)

\* Adverts and link events are one table and one query.
Sources == {{"advert", "link"}, {"message"}, {"alert"}, {"telemetry"}}

\* ORDER BY ts LIMIT n leaves open which of several rows of one time are taken.
Earliest(rows, n) ==
  IF Cardinality(rows) <= n THEN {rows}
  ELSE {some \in SUBSET rows : Cardinality(some) = n /\ \A a \in some, b \in rows \ some : a.ts <= b.ts}

Before(a, b) == a.ts < b.ts \/ (a.ts = b.ts /\ a.id < b.id)

\* The first n rows of the merged and sorted list.
Slice(merged, n) == {a \in merged : Cardinality({b \in merged : Before(b, a)}) < n}

\* Every way to take a page from each of the queries.
Merges(queries, n) ==
  {merged \in SUBSET UNION queries : \A q \in queries : merged \cap q \in Earliest(q, n)}

Queries(stored, radios, kinds, from, to) ==
  {{a \in stored : a.radio = r /\ a.kind \in source \cap kinds /\ from <= a.ts /\ a.ts <= to} :
     r \in radios, source \in Sources}

\* The answers there may be: rows, and whether there were more.
GetTimeline(stored, radios, kinds, from, to, limit) ==
  {[events |-> Slice(merged, limit), truncated |-> Cardinality(merged) > limit] :
     merged \in Merges(Queries(stored, radios, kinds, from, to), limit + 1)}

---------------------------------------------------------------------------
(* The density summary over all of time.                                   *)

CeilDiv(a, b) == (a + b - 1) \div b

BucketOf(ts, from, secs) == from + ((ts - from) \div secs) * secs

GetTimelineOverview(stored, radios, kinds, count) ==
  LET rows == {a \in stored : a.radio \in radios /\ a.kind \in kinds}
      times == {a.ts : a \in rows}
      from == CHOOSE t \in times : \A u \in times : t <= u
      to == CHOOSE t \in times : \A u \in times : t >= u
      secs == Most(1, CeilDiv(Most(to - from, 1), Most(count, 1)))
      In(b, k) == Cardinality({a \in rows : a.kind = k /\ BucketOf(a.ts, from, secs) = b})
  IN  IF rows = {} THEN [from |-> 0, to |-> 0, secs |-> 0, buckets |-> {}, total |-> 0]
      ELSE [from |-> from, to |-> to, secs |-> secs, total |-> Cardinality(rows),
            buckets |-> {[ts |-> b, counts |-> [k \in kinds |-> In(b, k)]] :
                           b \in {BucketOf(t, from, secs) : t \in times}}]

---------------------------------------------------------------------------
(* The window on the screen.                                               *)

Span(view) == view.end - view.start

\* FUTURE_HEADROOM is a twentieth of the span.
Headroom(span) == span \div 20

ClampWindow(start, end, now) ==
  LET span == Least(Most(end - start, MinSpan), MaxSpan)
      clamped == Least(end, now + Headroom(span))
  IN  [start |-> clamped - span, end |-> clamped]

\* The factor is num / den.
ZoomAround(view, anchor, num, den, now) ==
  LET newSpan == Least(Most((Span(view) * num) \div den, MinSpan), MaxSpan)
      start == anchor - ((anchor - view.start) * newSpan) \div Span(view)
  IN  ClampWindow(start, start + newSpan, now)

PanBy(view, delta, now) == ClampWindow(view.start + delta, view.end + delta, now)

CenterOn(view, ts, now) ==
  LET half == Span(view) \div 2 IN ClampWindow(ts - half, ts - half + Span(view), now)

\* The strip is drawn over all that is stored, and over the window.
OverviewDomain(extent, view) ==
  LET start == Least(extent.from, view.start)
      end == Most(extent.to, view.end)
  IN  [start |-> start, end |-> IF end > start THEN end ELSE start + MinSpan]

---------------------------------------------------------------------------
\* Events of one lane and kind, sorted by time, whose dots would touch.
ClusterEvents(times, gap) ==
  LET opens == {i \in DOMAIN times : i = 1 \/ times[i] - times[i - 1] > gap}
  IN  {{j \in DOMAIN times : i <= j /\ \A k \in opens : k <= i \/ k > j} : i \in opens}
=============================================================================
