------------------------- MODULE MCTimelineQueries -------------------------
(* The queries and the arithmetic of the timeline against what they are for, *)
(* on all small inputs.                                                      *)
EXTENDS TimelineQueries

Rows == {[id |-> i, radio |-> IF i = 4 THEN 2 ELSE 1, ts |-> t,
          kind |-> IF i = 3 THEN "message" ELSE "advert"] : i \in 1..4, t \in 1..3}
RowSets == {s \in SUBSET Rows : \A a, b \in s : a.id = b.id => a = b}

\* getTimeline: the earliest rows there are of all the sources together, and it
\* is known whether there were more.
ASSUME PageExact ==
  \A s \in RowSets, limit \in 1..2 :
    LET due == {a \in s : a.ts <= 2}
    IN  \A answer \in GetTimeline(s, {1, 2}, {"advert", "message"}, 1, 2, limit) :
          /\ answer.events \subseteq due /\ Cardinality(answer.events) = Least(limit, Cardinality(due))
          /\ answer.truncated <=> Cardinality(due) > limit
          /\ \A a \in answer.events, b \in due \ answer.events : a.ts <= b.ts

\* getTimelineOverview: every row is in the bucket of its time, and there may be one
\* bucket more than was asked for.
ASSUME OverviewExact ==
  \A s \in RowSets, count \in 1..2 :
    LET o == GetTimelineOverview(s, {1, 2}, {"advert", "message"}, count)
    IN  /\ Cardinality(o.buckets) <= count + 1
        /\ \A b \in o.buckets, k \in {"advert", "message"} :
             b.counts[k] = Cardinality({a \in s : a.kind = k /\ b.ts <= a.ts /\ a.ts < b.ts + o.secs})
        /\ \A a \in s : \E b \in o.buckets : b.ts <= a.ts /\ a.ts < b.ts + o.secs

\* zoomAround, panBy and centerOn: the window keeps to the spans there may be and
\* does not pass the time by more than the headroom.
ASSUME WindowsLegal ==
  \A start \in 0..4, span \in MinSpan..MaxSpan, anchor \in 0..6, now0 \in 3..6 :
    LET w == [start |-> start, end |-> start + span]
        legal(v) == Span(v) \in MinSpan..MaxSpan /\ v.end <= now0 + Headroom(Span(v))
    IN  /\ legal(ZoomAround(w, anchor, 1, 2, now0)) /\ legal(ZoomAround(w, anchor, 2, 1, now0))
        /\ legal(PanBy(w, 1, now0)) /\ legal(CenterOn(w, anchor, now0))
        /\ Span(PanBy(w, -1, now0)) = span /\ Span(CenterOn(w, anchor, now0)) = span
        /\ LET d == OverviewDomain([from |-> anchor, to |-> anchor + 1], w)
           IN  d.start <= w.start /\ d.end >= w.end /\ d.start <= anchor /\ anchor < d.end

\* clusterEvents: every dot is in one cluster, neighbours within the gap share
\* theirs, and clusters are apart.
ASSUME ClustersApart ==
  \A times \in {t \in [1..4 -> 0..4] : \A i \in 1..3 : t[i] <= t[i + 1]}, gap \in 0..2 :
    LET clusters == ClusterEvents(times, gap)
    IN  /\ UNION clusters = 1..4
        /\ \A c, d \in clusters : c = d \/ \A i \in c, j \in d : times[i] - times[j] \notin (-gap)..gap
        /\ \A c \in clusters, i \in 1..3 : {i, i + 1} \subseteq c => times[i + 1] - times[i] <= gap
=============================================================================
