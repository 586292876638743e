---------------------------- MODULE WindowQuery ----------------------------
(***************************************************************************)
(* What a query answers: TimeSeriesDB.query and aggregate (builder.py),    *)
(* the aggregation functions (agg.py), the scans of the storage engine     *)
(* (store.py) and the rollup's partials (rollup.py), as functions of the   *)
(* stored rows.  Three paths answer the same question: the rollup with its *)
(* raw edges, a GROUP BY inside SQLite, and Python over fetched rows.      *)
(*                                                                         *)
(* An hour is Hour ticks and a month's partition Month ticks; tick 0 is    *)
(* 1970.  A value is a whole number of 300ths, so that the means and the   *)
(* percentiles of a few values are exact.  Steps of writers, of rollup     *)
(* passes and of retention between a query's scans are module Rollup's and *)
(* SeriesStore's; here a query is one step, and the rollup is exact.       *)
(***************************************************************************)
EXTENDS Integers, Sequences, FiniteSets, FiniteSetsExt, SequencesExt

CONSTANTS
    Hour,        \* ticks of an hour, HOUR_NS
    Month,       \* ticks of a partition
    Caps,        \* values of query.max_rows; 0 is no cap
    MaxLimit,    \* the largest limit /read takes
    Now,         \* the clock, beyond which a client's clock may run ahead
    Times,       \* timestamps of rows
    Sids,        \* series of the queried metric
    RowBound,    \* bound on stored rows
    Starts, Ends, Buckets, Limits, Funcs, Gaps,  \* what queries ask for
    None         \* an argument that was not given: a number beyond all others

VARIABLES
    rows,        \* stored rows, [sid, ts]
    falling,     \* times whose rows SQLite returns by falling series
    watermark,   \* rollup_watermark: earlier hours are in rollup_hourly
    maxRows,     \* query.max_rows
    query,       \* the last query, or NotAsked
    answer       \* its answer

windowVars == <<rows, falling, watermark, maxRows, query, answer>>

NaN == 100000

Value(r) == 300 * (((2 * r.ts + 3 * r.sid) % 5) - 1)
HourOf(t) == (t \div Hour) * Hour

(* str.lower on an aggregation's name. *)
Lower(f) == IF f = "COUNT" THEN "count" ELSE f

ROLLUP_FUNCS == {"avg", "sum", "min", "max", "count"}
AGGREGATORS == ROLLUP_FUNCS \cup {"first", "last", "median", "p95", "p99"}

ASSUME WindowAssumption ==
    /\ Hour \in Nat \ {0} /\ Month \in Nat \ {0} /\ Month % Hour = 0
    /\ None \in Nat /\ Now \in Nat /\ Now < None
    /\ MaxLimit \in Nat /\ MaxLimit + 1 < None
    /\ \A c \in Caps : c \in Nat /\ c + 1 < None
    /\ \A t \in Times \cup Starts \cup Ends : t \in Int /\ t <= None
    /\ None \notin Times /\ Buckets \subseteq Nat

-----------------------------------------------------------------------------
(* Scans of the storage engine. *)

Matching(start, end) ==
    {r \in rows : (start = None \/ r.ts >= start) /\ (end = None \/ r.ts <= end)}

(* _partitions_for_range: the partitions a window meets, oldest first. *)
Meeting(start, end) ==
    {p \in {r.ts \div Month : r \in rows} :
        \/ start \in {0, None} /\ end \in {0, None}
        \/ /\ start = None \/ (p + 1) * Month - 1 >= start
           /\ end = None \/ p * Month <= end}
PartitionsForRange(start, end) == SetToSortSeq(Meeting(start, end), <)

InPartition(p) == {r \in rows : r.ts \div Month = p}

(* ORDER BY timestamp_ns leaves the order of equal times to SQLite. *)
Before(r, s) ==
    \/ r.ts < s.ts
    \/ r.ts = s.ts /\ IF r.ts \in falling THEN r.sid > s.sid ELSE r.sid < s.sid
Sorted(S, order) ==
    SetToSortSeq(S, LAMBDA r, s : IF order = "asc" THEN Before(r, s) ELSE Before(s, r))

Take(s, n) == IF n = None \/ n >= Len(s) THEN s ELSE SubSeq(s, 1, n)

(* query_time_range: partition by partition in the query's order, each in    *)
(* the order of time, until the limit is reached.                            *)
QueryTimeRange(start, end, limit, order) ==
    LET parts == PartitionsForRange(start, end)
        ordered == IF order = "desc" THEN Reverse(parts) ELSE parts
        scan(got, p) ==
            IF limit # None /\ Len(got) >= limit THEN got
            ELSE got \o Take(Sorted(InPartition(p) \cap Matching(start, end), order),
                             IF limit = None THEN None ELSE limit - Len(got))
    IN FoldLeft(scan, <<>>, ordered)

CountInRange(start, end) == Cardinality(Matching(start, end))

(* first_sample_ts. *)
FirstSampleTs(start, end) ==
    IF Matching(start, end) = {} THEN None ELSE Min({r.ts : r \in Matching(start, end)})

-----------------------------------------------------------------------------
(* Partial aggregates: count, sum, min and max per bucket. *)

Partial(S) ==
    [cnt |-> Cardinality(S), sum |-> MapThenSumSet(Value, S),
     mn |-> Min({Value(r) : r \in S}), mx |-> Max({Value(r) : r \in S})]

Combine(p, q) ==
    [cnt |-> p.cnt + q.cnt, sum |-> p.sum + q.sum,
     mn |-> Min({p.mn, q.mn}), mx |-> Max({p.mx, q.mx})]

GroupBy(S, Key(_)) ==
    [k \in {Key(r) : r \in S} |-> Partial({r \in S : Key(r) = k})]

(* _merge_partials. *)
MergePartials(groups) ==
    LET merge(f, g) ==
            [k \in DOMAIN f \cup DOMAIN g |->
                IF k \notin DOMAIN f THEN g[k]
                ELSE IF k \notin DOMAIN g THEN f[k] ELSE Combine(f[k], g[k])]
    IN FoldLeft(merge, <<>>, groups)

(* _bucket_partials over fetched rows. *)
BucketOf(t, bucket) == IF bucket = None THEN None ELSE (t \div bucket) * bucket
BucketPartials(seq, bucket) == GroupBy(ToSet(seq), LAMBDA r : BucketOf(r.ts, bucket))

(* SQLite's division cuts towards zero. *)
SqlDiv(t, b) == IF t >= 0 THEN t \div b ELSE -((-t) \div b)
FloorBySql(t, b) == IF t >= 0 THEN SqlDiv(t, b) ELSE -SqlDiv(-t + b - 1, b)

(* downsample_sqlite: one GROUP BY per partition, merged oldest first. *)
DownsampleSqlite(start, end, bucket) ==
    LET parts == PartitionsForRange(start, end)
    IN MergePartials([i \in 1..Len(parts) |->
           GroupBy(InPartition(parts[i]) \cap Matching(start, end),
                   LAMBDA r : FloorBySql(r.ts, bucket))])

(* rollup_hourly: the rows of the hours from 0 to the watermark, as one      *)
(* aggregate an hour; query_rollup_partial takes the hours in [from, to).    *)
RolledUp(from, to) ==
    {r \in rows : r.ts >= 0 /\ HourOf(r.ts) < watermark /\ HourOf(r.ts) >= from /\ HourOf(r.ts) < to}
BucketOfHour(t, bucket) == IF bucket = None THEN None ELSE SqlDiv(HourOf(t), bucket) * bucket
QueryRollupPartial(from, to, bucket) ==
    GroupBy(RolledUp(from, to), LAMBDA r : BucketOfHour(r.ts, bucket))

(* _value. *)
ValueOf(f, p) ==
    CASE f = "avg" -> p.sum \div p.cnt
      [] f = "sum" -> p.sum
      [] f = "count" -> 300 * p.cnt
      [] f = "min" -> p.mn
      [] f = "max" -> p.mx

-----------------------------------------------------------------------------
(* agg.py, over a sequence of values. *)

SumOf(vals) == FoldLeft(LAMBDA a, v : a + v, 0, vals)
InOrder(vals) == SortSeq(vals, <)

(* _percentile, q in hundredths: between the ranks below and above. *)
Percentile(vals, q) ==
    LET s == InOrder(vals)
        rank == (Len(s) - 1) * q
        lower == rank \div 100
        frac == rank % 100
    IN IF frac = 0 THEN s[lower + 1]
       ELSE (s[lower + 1] * (100 - frac) + s[lower + 2] * frac) \div 100

Median(vals) ==
    LET s == InOrder(vals)
        h == Len(s) \div 2
    IN IF Len(s) % 2 = 1 THEN s[h + 1] ELSE (s[h] + s[h + 1]) \div 2

Aggregator(f, vals) ==
    CASE f = "avg" -> SumOf(vals) \div Len(vals)
      [] f = "sum" -> SumOf(vals)
      [] f = "min" -> Min(ToSet(vals))
      [] f = "max" -> Max(ToSet(vals))
      [] f = "count" -> 300 * Len(vals)
      [] f = "first" -> vals[1]
      [] f = "last" -> vals[Len(vals)]
      [] f = "median" -> Median(vals)
      [] f = "p95" -> Percentile(vals, 95)
      [] f = "p99" -> Percentile(vals, 99)

Values(seq) == [i \in 1..Len(seq) |-> Value(seq[i])]

(* aggregate_series: an empty window counts and sums to 0, by the name as    *)
(* it was written.                                                           *)
AggregateSeries(seq, f) ==
    IF seq = <<>> THEN (IF f \in {"count", "sum"} THEN 0 ELSE NaN)
                  ELSE Aggregator(Lower(f), Values(seq))

Point(ts, v) == [ts |-> ts, v |-> v]

(* downsample: the rows of a bucket in the order they came. *)
Downsample(seq, bucket, f) ==
    LET keys == SetToSortSeq({r.ts \div bucket : r \in ToSet(seq)}, <)
        of(k) == SelectSeq(seq, LAMBDA r : r.ts \div bucket = k)
    IN [i \in 1..Len(keys) |-> Point(keys[i] * bucket, Aggregator(Lower(f), Values(of(keys[i]))))]

Points(seq) == [i \in 1..Len(seq) |-> Point(seq[i].ts, Value(seq[i]))]

(* gap_fill_linear: a point halfway of every gap that is not too long. *)
GapFillLinear(pts, gap) ==
    LET fill(i) ==
            LET d == pts[i + 1].ts - pts[i].ts
            IN IF i < Len(pts) /\ d > 0 /\ d <= gap
               THEN <<pts[i], Point(pts[i].ts + d \div 2, (pts[i].v + pts[i + 1].v) \div 2)>>
               ELSE <<pts[i]>>
    IN FlattenSeq([i \in 1..Len(pts) |-> IF i = Len(pts) THEN <<pts[i]>> ELSE fill(i)])

-----------------------------------------------------------------------------
(* TimeSeriesDB. *)

(* An answer as the HTTP routes give it: 413 for MaxRowsExceededError, 400   *)
(* for ValueError.                                                           *)
Ok(pts) == [status |-> 200, points |-> pts]
Refused(code) == [status |-> code, points |-> <<>>]
MaxRowsExceeded == Refused(413)
BadRequest == Refused(400)

(* Mutant of FetchLimit: no row more than the cap is fetched. *)
FetchLimitAtCap(limit) == IF maxRows = 0 THEN limit ELSE Min({maxRows, limit})

(* _fetch: one row more than the cap tells full from over; a smaller limit   *)
(* of the caller bounds it further.                                          *)
FetchLimit(limit) == IF maxRows = 0 THEN limit ELSE Min({maxRows + 1, limit})
Exceeds(n) == maxRows > 0 /\ n > maxRows
Fetch(start, end, order, limit) == QueryTimeRange(start, end, FetchLimit(limit), order)
TooMany(seq) == Exceeds(Len(seq))

EffEnd(q) == IF q.end = None THEN Now ELSE q.end
StartHour(q) == IF q.start = None THEN 0 ELSE HourOf(q.start)
EndHour(q) == HourOf(EffEnd(q))

(* Mutant of Covered: the window's end may lie in the hour after.  *)
CoveredNext(q) == watermark > 0 /\ EndHour(q) <= watermark + Hour

(* Every hour inside the window is rolled up. *)
Covered(q) == watermark > 0 /\ EndHour(q) <= watermark

(* _rollup_eligible. *)
RollupEligible(q) ==
    /\ Lower(q.agg) \in ROLLUP_FUNCS
    /\ q.bucket # None => q.bucket > 0 /\ q.bucket % Hour = 0
    /\ Covered(q)
    /\ EndHour(q) >= StartHour(q) + 2 * Hour
    /\ q.start # None => q.start < watermark

LeftEnd(q) == Min({StartHour(q) + Hour - 1, EffEnd(q)})
Edges(q) ==
    [left   |-> Fetch(q.start, LeftEnd(q), "asc", None),
     right  |-> Fetch(EndHour(q), EffEnd(q), "asc", None),
     middle |-> QueryRollupPartial(StartHour(q) + Hour, EndHour(q), q.bucket)]

WindowPartials(q, e) ==
    MergePartials(<<BucketPartials(e.left, q.bucket), BucketPartials(e.right, q.bucket), e.middle>>)

(* _finalize_buckets, and the like loop of _downsample_sql. *)
Buckets2Points(partials, f, unit) ==
    LET keys == SetToSortSeq(DOMAIN partials, <)
    IN [i \in 1..Len(keys) |-> Point(keys[i] * unit, ValueOf(Lower(f), partials[keys[i]]))]

(* _query_rollup: a whole window's answer is dated by its first sample. *)
QueryRollup(q) ==
    LET e == Edges(q)
        merged == WindowPartials(q, e)
        first == FirstSampleTs(q.start, q.end)
        anchor == IF first # None THEN first ELSE IF q.start # None THEN q.start ELSE 0
    IN IF TooMany(e.left) \/ TooMany(e.right) THEN MaxRowsExceeded
       ELSE IF q.bucket # None THEN Ok(Take(Buckets2Points(merged, q.agg, 1), q.limit))
       ELSE IF merged = <<>> THEN Ok(<<>>)
       ELSE Ok(<<Point(anchor, ValueOf(Lower(q.agg), merged[None]))>>)

(* _downsample_sql; a bucket of 0 is an interval that parse_interval refuses. *)
DownsampleSql(q) ==
    LET partials == DownsampleSqlite(q.start, q.end, q.bucket)
    IN IF q.bucket = 0 THEN BadRequest
       ELSE IF Exceeds(Cardinality(DOMAIN partials)) THEN MaxRowsExceeded
       ELSE Ok(Take(Buckets2Points(partials, q.agg, q.bucket), q.limit))

(* The rows of the raw path, transformed. *)
Transform(q, seq) ==
    IF q.agg # "none" /\ q.bucket # None THEN Downsample(seq, q.bucket, q.agg)
    ELSE IF q.agg # "none"
    THEN IF seq = <<>> THEN <<>>
         ELSE <<Point((IF q.order # "desc" THEN seq[1] ELSE seq[Len(seq)]).ts,
                      AggregateSeries(seq, q.agg))>>
    ELSE IF q.gap # 0 THEN GapFillLinear(Points(seq), q.gap)
    ELSE Points(seq)

QueryRaw(q) ==
    LET rawLimited == q.agg = "none" /\ q.gap = 0
        seq == Fetch(q.start, q.end, q.order, IF rawLimited THEN q.limit ELSE None)
    IN IF TooMany(seq) THEN MaxRowsExceeded
       ELSE IF q.agg # "none" /\ q.bucket = 0 THEN BadRequest
       ELSE Ok(Take(Transform(q, seq), q.limit))

UsesSql(q) == q.agg # "none" /\ q.bucket # None /\ Lower(q.agg) \in ROLLUP_FUNCS

Unsupported(f) == Lower(f) \notin AGGREGATORS

(* query: an unknown function raises before anything is read. *)
DbQuery(q) ==
    IF q.agg # "none" /\ Unsupported(q.agg) THEN BadRequest
    ELSE IF RollupEligible(q) THEN QueryRollup(q)
    ELSE IF UsesSql(q) THEN DownsampleSql(q) ELSE QueryRaw(q)

(* aggregate, for one function: the count guards the fetch, and an unknown   *)
(* function raises after it.                                                 *)
Aggregate(q) ==
    LET e == Edges(q)
        merged == WindowPartials(q, e)
    IN IF RollupEligible([q EXCEPT !.agg = Lower(q.agg)])
       THEN IF TooMany(e.left) \/ TooMany(e.right) THEN MaxRowsExceeded
            ELSE Ok(<<Point(None, IF merged = <<>> THEN AggregateSeries(<<>>, Lower(q.agg))
                                  ELSE ValueOf(Lower(q.agg), merged[None]))>>)
       ELSE IF Exceeds(CountInRange(q.start, q.end)) THEN MaxRowsExceeded
       ELSE IF Unsupported(q.agg) THEN BadRequest
       ELSE Ok(<<Point(None, AggregateSeries(Fetch(q.start, q.end, "asc", None), q.agg))>>)

(* A limit the routes' Query(ge=1, le=100000) takes; others never reach the  *)
(* handler.                                                                  *)
LimitAccepted(q) == q.limit \in 1..MaxLimit \cup {None}

(* The routes /read and /aggregate. *)
Route(q) ==
    IF ~LimitAccepted(q) THEN Refused(422)
    ELSE IF q.api = "query" THEN DbQuery(q) ELSE Aggregate(q)

-----------------------------------------------------------------------------
(* What a route refuses whatever the window holds. *)
Malformed(q) ==
    \/ ~LimitAccepted(q)
    \/ q.agg # "none" /\ (Unsupported(q.agg) \/ q.bucket = 0)

Queries ==
    {q \in [api : {"query", "aggregate"}, start : Starts, end : Ends, agg : Funcs,
            bucket : Buckets, limit : Limits, order : {"asc", "desc"}, gap : Gaps] :
        /\ q.agg = "none" => q.bucket = None /\ q.api = "query"
        /\ q.agg # "none" => q.gap = 0
        /\ Malformed(q) => q.start = None /\ q.end = None
        /\ q.api = "aggregate" => q.bucket = None /\ q.limit = None /\ q.order = "asc"}
NotAsked == [api |-> "none"]

WindowInit ==
    /\ rows = {}
    /\ falling = {}
    /\ watermark \in {h \in 0..Now : h % Hour = 0}
    /\ maxRows \in Caps
    /\ query = NotAsked
    /\ answer = Ok(<<>>)

(* TimeSeriesDB.insert; the watermark goes back as in module Rollup, and has *)
(* come forward again in the states that keep it.                            *)
InsertRow(r) ==
    /\ r \notin rows /\ Cardinality(rows) < RowBound
    /\ rows' = rows \cup {r}
    /\ \/ UNCHANGED falling
       \/ (\E s \in rows : s.ts = r.ts) /\ falling' = falling \cup {r.ts}
    /\ UNCHANGED <<watermark, maxRows, query, answer>>

Ask(q) ==
    /\ query' = q
    /\ answer' = Route(q)
    /\ UNCHANGED <<rows, falling, watermark, maxRows>>

(* _run_query's timeout: the reply is 504, whatever the query's thread still *)
(* finds.                                                                    *)
AskTimesOut ==
    /\ answer' = Refused(504)
    /\ UNCHANGED <<rows, falling, watermark, maxRows, query>>

(* A behaviour ends with the answer to its one query. *)
WindowNext ==
    /\ query = NotAsked /\ answer.status = 200
    /\ \/ \E r \in [sid : Sids, ts : Times] : InsertRow(r)
       \/ \E q \in Queries : Ask(q)
       \/ AskTimesOut

WindowSpec == WindowInit /\ [][WindowNext]_windowVars
-----------------------------------------------------------------------------
(* What an answer is compared with. *)

Asked == Matching(query.start, query.end)
OnFastPath == RollupEligible(query)

(* The newest samples of a set; two series may have one at the same time. *)
Newest(S) == {r \in S : \A s \in S : s.ts <= r.ts}

IsAggregate(f, S, v) ==
    LET vals == {Value(r) : r \in S}
        above == Cardinality({r \in S : Value(r) > v})
        below == Cardinality({r \in S : Value(r) < v})
    IN CASE f = "avg" -> v * Cardinality(S) = MapThenSumSet(Value, S)
         [] f = "sum" -> v = MapThenSumSet(Value, S)
         [] f = "count" -> v = 300 * Cardinality(S)
         [] f = "min" -> v \in vals /\ \A w \in vals : v <= w
         [] f = "max" -> v \in vals /\ \A w \in vals : v >= w
         [] f = "last" -> \E r \in Newest(S) : v = Value(r)
         [] f = "median" -> 2 * above <= Cardinality(S) /\ 2 * below <= Cardinality(S)
         [] f = "p95" -> above <= 1 /\ (above = 0 => v \in vals)
                         /\ (Cardinality(S) > 1 => below >= Cardinality(S) - 1 \/ v \in vals)

(* Two cases in which the fast path does answer differently: rows from a     *)
(* client whose clock is ahead lie after its end of an open window, and the  *)
(* rollup holds no hour before 1970.                                         *)
FastPathDiffers ==
    /\ OnFastPath
    /\ \/ query.end = None /\ \E r \in Asked : r.ts > Now
       \/ query.start < 0

(* The parts of an aggregate hold each row of the window once and no other:  *)
(* the two edges that the fast path fetches and the rolled up hours between  *)
(* them, or the months the GROUP BY visits; and every path puts a row into   *)
(* the same bucket.                                                          *)
EachRowOnce ==
    query.api # "none" /\ query.agg # "none" /\ ~FastPathDiffers =>
        LET left   == Matching(query.start, LeftEnd(query))
            right  == Matching(EndHour(query), EffEnd(query))
            middle == RolledUp(StartHour(query) + Hour, EndHour(query))
            months == Meeting(query.start, query.end)
        IN IF OnFastPath
           THEN /\ left \cup middle \cup right = Asked
                /\ left \cap middle = {} /\ left \cap right = {} /\ middle \cap right = {}
                /\ \A r \in middle : BucketOfHour(r.ts, query.bucket) = BucketOf(r.ts, query.bucket)
           ELSE \A r \in Asked :
                    /\ \E p \in months : r \in InPartition(p)
                    /\ query.bucket \notin {0, None} =>
                         FloorBySql(r.ts, query.bucket) * query.bucket = BucketOf(r.ts, query.bucket)

(* A query for rows answers with every row of the window in the order asked  *)
(* for, or the first ones when it has a limit, whatever months they lie in   *)
(* and however SQLite orders rows of one time; a gap filled keeps the rows   *)
(* and adds points between them.  It is refused for its limit alone, or with *)
(* 413 only when the window holds more than max_rows, where it would have to *)
(* cut; with max_rows = 0 never.                                             *)
RowsExact ==
    query.api = "query" /\ query.agg = "none" =>
        LET pts == answer.points
            wanted == Points(Sorted(Asked, query.order))
            times(ps) == [i \in 1..Len(ps) |-> ps[i].ts]
        IN IF answer.status # 200
           THEN IF LimitAccepted(query) THEN answer.status = 413 /\ Exceeds(Len(wanted))
                                        ELSE answer.status = 422
           ELSE IF query.gap = 0
           THEN /\ LimitAccepted(query)
                /\ times(pts) = Take(times(wanted), query.limit)
                /\ IsInjective(pts) /\ ToSet(pts) \subseteq ToSet(wanted)
           ELSE /\ \A i \in 1..(Len(pts) - 1) :
                      IF query.order = "asc" THEN pts[i].ts <= pts[i + 1].ts
                                             ELSE pts[i].ts >= pts[i + 1].ts
                /\ \A i \in 1..Len(pts) :
                      \/ pts[i] \in ToSet(wanted)
                      \/ i > 1 /\ (i < Len(pts) => 2 * pts[i].v = pts[i - 1].v + pts[i + 1].v)
                /\ query.limit = None => ToSet(wanted) \subseteq ToSet(pts)

(* The start of a time's bucket, and the starts of the buckets that hold     *)
(* rows.                                                                     *)
StartOf(t) == (t \div query.bucket) * query.bucket
BucketStarts == SetToSortSeq({StartOf(r.ts) : r \in Asked}, <)


Bucketed == /\ query.api = "query" /\ query.agg # "none" /\ query.bucket # None
            /\ answer.status = 200

(* "last: Newest value in the bucket" (queries.html).  Refuted: the raw path *)
(* hands agg.py the rows in the query's order, so with order=desc last is    *)
(* the oldest value.                                                         *)
LastIsNewest ==
    Bucketed /\ Lower(query.agg) = "last" =>
        \A i \in 1..Len(answer.points) :
            \E r \in Newest({s \in Asked : StartOf(s.ts) = answer.points[i].ts}) :
                answer.points[i].v = Value(r)

(* A limit "keeps the first N in the selected order" (builder.py).  Refuted: *)
(* buckets always come oldest first, so with order=desc the limit keeps the  *)
(* oldest ones.                                                              *)
BucketsInOrder ==
    Bucketed =>
        LET starts == IF query.order = "desc" THEN Reverse(BucketStarts) ELSE BucketStarts
        IN [i \in 1..Len(answer.points) |-> answer.points[i].ts] = Take(starts, query.limit)
=============================================================================
