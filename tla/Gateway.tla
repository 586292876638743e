------------------------------ MODULE Gateway ------------------------------
(***************************************************************************)
(* The HTTP gateway's requests: the rate limiter every request passes      *)
(* (ratelimit.py), the write route with its validation, its insert in a    *)
(* thread under a timeout, and its broadcast (routes.py, app.py), beside   *)
(* the ZeroMQ writes that share the table (protocol.py).  How both paths   *)
(* read a timestamp is modelled by what the conversions do.                *)
(*                                                                         *)
(* Time is in nanoseconds, NS to a second, and all clock reads of one      *)
(* instant agree: the clock is coarser than a burst of writes.  The table  *)
(* has one row per series and nanosecond.                                  *)
(***************************************************************************)
EXTENDS Integers, Sequences, FiniteSets, SequencesExt

CONSTANTS
    Reqs,        \* HTTP requests
    Addrs,       \* client addresses
    Batches,     \* payloads: sequences of items [series, stamp]
    ZmqBatches,  \* batches of the ingest path
    Stamps,      \* timestamps as clients write them: [kind, n]
    Dates,       \* digits that read as a date without separators: their nanoseconds
    NS,          \* nanoseconds to a second
    Big,         \* 10**12: a larger integer is nanoseconds
    MaxInt,      \* 2**63 - 1
    MaxSkew,     \* reject_client_timestamp_skew_s
    Limit,       \* rate_limit_per_minute
    MaxKeys,     \* the rate limiter's table, 10_000
    Minute,      \* nanoseconds to its window
    Start, End   \* the clock's first and last instant; stamps end there too

ASSUME GatewayAssumption ==
    /\ NS \in Nat \ {0} /\ Limit \in Nat \ {0} /\ MaxKeys \in Nat \ {0} /\ Minute \in Nat \ {0}
    /\ {Big, MaxInt, MaxSkew, Start, End} \subseteq Nat /\ Start <= End
    /\ \A b \in Batches \cup ZmqBatches : Len(b) \in Nat
    /\ \A s \in Stamps : s.n \in Int
    /\ {"server", "client"} \cap Reqs = {}
    /\ Start - MaxSkew * NS > Big /\ End \div NS + MaxSkew < Big /\ End + MaxSkew * NS < MaxInt

(* A text of digits that is a date has 8 of them or more than 10: read as    *)
(* seconds it is before 1974 or after 2286, and not near the clock.          *)
ASSUME DatesAssumption ==
    \A n \in DOMAIN Dates :
        /\ n \in Int /\ Dates[n] \in Int
        /\ n * NS < Start - MaxSkew * NS \/ n * NS > End + MaxSkew * NS

VARIABLES
    clock,
    hits,        \* the limiter's _hits in insertion order: [addr, count, window]
    admitted,    \* per address: requests let through in this window
    forgotten,   \* addresses whose count of this window was evicted from hits
    req,         \* per request: its coroutine's step, its batch, its reply
    thread,      \* per request: its executor thread
    table,       \* stored rows [series, ns, by, i]
    published,   \* per request: rows republished
    lastTs,      \* protocol._server_last_ts_ns
    zmq,         \* rows of the ingest batch between to_rows and the sink
    zmqLost      \* server-stamped ingest rows lost to a key the ingest path itself wrote

limiterVars == <<hits, admitted, forgotten>>
zmqVars == <<lastTs, zmq, zmqLost>>
httpVars == <<clock, limiterVars, req, thread, table, published, zmqVars>>

NoReq == [pc |-> "idle", batch |-> <<>>, reply |-> "none"]
NoThread == [pc |-> "none", rows |-> {}]

HttpInit ==
    /\ clock = Start
    /\ hits = <<>>
    /\ admitted = [a \in Addrs |-> 0]
    /\ forgotten = {}
    /\ req = [r \in Reqs |-> NoReq]
    /\ thread = [r \in Reqs |-> NoThread]
    /\ table = {}
    /\ published = [r \in Reqs |-> 0]
    /\ lastTs = 0
    /\ zmq = {}
    /\ zmqLost = FALSE

-----------------------------------------------------------------------------
(* Timestamps.  A stamp is "none", "bad" (an item no path accepts), a JSON   *)
(* integer or float, a text of "digits", whose n is the number it reads as,  *)
(* or another ISO-8601 text, whose n is in nanoseconds.                      *)

Abs(n) == IF n < 0 THEN -n ELSE n
Near(ns) == MaxSkew = 0 \/ Abs(clock - ns) <= MaxSkew * NS

(* parse_ingest gives every text to iso_to_ns, which reads digits as a date  *)
(* (20261117) or not at all (1700000000).                                    *)
IngestReads(s) == s.kind # "bad" /\ (s.kind = "digits" => s.n \in DOMAIN Dates)
IngestNumber(s) == IF s.kind = "digits" THEN Dates[s.n] ELSE s.n

(* Mutant of IsNs: a number is always seconds. *)
IsNsNever(s) == FALSE

(* iso_to_ns makes an integer of a text, and a large integer is nanoseconds. *)
IsNs(s) == s.kind \in {"int", "iso", "digits"} /\ Abs(IngestNumber(s)) > Big

(* parse_ingest and to_rows: what a ZeroMQ message's time becomes. *)
ZmqNs(s) == IF IsNs(s) THEN IngestNumber(s) ELSE IngestNumber(s) * NS
ZmqAccepts(s) == IngestReads(s) /\ (s.kind # "none" => Near(ZmqNs(s)))

(* _validate_row and _to_ns: a number is seconds, and so is a text that      *)
(* float() takes; the result must fit 64 bits.                               *)
HttpNs(s) == IF s.kind = "iso" THEN s.n ELSE s.n * NS
HttpAccepts(s) ==
    s.kind # "bad" /\ (s.kind # "none" => HttpNs(s) \in (-MaxInt - 1)..MaxInt /\ Near(HttpNs(s)))

-----------------------------------------------------------------------------
(* The rate limiter. *)

Window == clock \div Minute

(* A table over its bound loses the keys of other windows, then the oldest.  *)
Swept(h) ==
    LET current[n \in 0..Len(h)] ==
            IF n = 0 THEN <<>>
            ELSE IF h[n].window = Window THEN Append(current[n - 1], h[n]) ELSE current[n - 1]
        kept == current[Len(h)]
        excess == Len(kept) - MaxKeys
    IN IF Len(h) <= MaxKeys THEN h
       ELSE IF excess > 0 THEN SubSeq(kept, excess + 1, Len(kept)) ELSE kept

Keys(h) == {h[i].addr : i \in 1..Len(h)}
Counted(h, a) ==
    LET e == h[CHOOSE i \in 1..Len(h) : h[i].addr = a]
    IN IF a \in Keys(h) /\ e.window = Window THEN e.count ELSE 0

Recorded(h, a) ==
    LET e == [addr |-> a, count |-> Counted(h, a) + 1, window |-> Window]
    IN IF a \in Keys(h) THEN [i \in 1..Len(h) |-> IF h[i].addr = a THEN e ELSE h[i]]
                        ELSE Append(h, e)

(* Within its window a key may count to the limit. *)
AllowedOneMore(h, a) == Counted(h, a) <= Limit
Allowed(h, a) == Counted(h, a) = 0 \/ Counted(h, a) < Limit

(* RateLimitMiddleware.__call__ and, for a request let through, the write    *)
(* route up to its await: every item is validated before a thread is asked   *)
(* to insert any.                                                            *)
Reply(r, code) == req' = [req EXCEPT ![r].pc = "answered", ![r].reply = code]

Valid(b) == \A i \in 1..Len(b) : HttpAccepts(b[i].stamp)

Arrive(r, a, b) ==
    LET swept == Swept(hits) IN
    /\ req[r].pc = "idle"
    /\ forgotten' = forgotten \cup {k \in Keys(hits) \ Keys(swept) : Counted(hits, k) > 0}
    /\ IF Allowed(swept, a)
       THEN /\ hits' = Recorded(swept, a)
            /\ admitted' = [admitted EXCEPT ![a] = @ + 1]
            /\ IF Valid(b)
               THEN /\ req' = [req EXCEPT ![r] = [pc |-> "waiting", batch |-> b, reply |-> "none"]]
                    /\ thread' = [thread EXCEPT ![r].pc = "pending"]
               ELSE Reply(r, "400") /\ UNCHANGED thread
       ELSE /\ hits' = swept
            /\ Reply(r, "429")
            /\ UNCHANGED <<admitted, thread>>
    /\ UNCHANGED <<clock, table, published, zmqVars>>

-----------------------------------------------------------------------------
(* The write. *)

(* _insert_validated_batch and TimeSeriesDB.insert, in the executor: rows    *)
(* without a time get the clock's, each its own nanosecond.                  *)
ServerNs(i) == clock + i - 1
Prepare(r) ==
    LET b == req[r].batch
        ns(i) == IF b[i].stamp.kind = "none" THEN ServerNs(i) ELSE HttpNs(b[i].stamp)
    IN
    /\ thread[r].pc = "pending"
    /\ thread' = [thread EXCEPT ![r] =
            [pc |-> "prepared",
             rows |-> {[series |-> b[i].series, ns |-> ns(i), by |-> r, i |-> i] : i \in 1..Len(b)}]]
    /\ UNCHANGED <<clock, limiterVars, req, table, published, zmqVars>>

(* The primary key (series_id, timestamp_ns) holds rows apart. *)
Collides(row, others) == \E o \in others \ {row} : o.series = row.series /\ o.ns = row.ns
Fits(rs) == \A row \in rs : ~Collides(row, table \cup rs)

(* insert_many: one transaction, of all rows or of none. *)
StoredEach(rs) == {row \in rs : ~Collides(row, table \cup rs)}
Stored(rs) == IF Fits(rs) THEN rs ELSE {}
Commit(r) ==
    /\ thread[r].pc = "prepared"
    /\ table' = table \cup Stored(thread[r].rows)
    /\ thread' = [thread EXCEPT ![r].pc = IF Fits(thread[r].rows) THEN "returned" ELSE "raised"]
    /\ UNCHANGED <<clock, limiterVars, req, published, zmqVars>>

(* The insert raises for another reason: the database is locked or the      *)
(* engine closed; a TimeoutError is told apart from _run_query's own nowhere. *)
InsertFails(r) ==
    /\ thread[r].pc = "prepared"
    /\ \E pc \in {"raised", "timedout"} : thread' = [thread EXCEPT ![r].pc = pc]
    /\ UNCHANGED <<clock, limiterVars, req, table, published, zmqVars>>

(* _run_query's timeout: a thread not begun is cancelled, one that runs goes *)
(* on, and nobody takes its result.                                          *)
TimesOut(r) ==
    /\ req[r].pc = "waiting"
    /\ Reply(r, "504")
    /\ thread' = [thread EXCEPT ![r].pc = IF @ = "pending" THEN "cancelled" ELSE @]
    /\ UNCHANGED <<clock, limiterVars, table, published, zmqVars>>

(* The coroutine resumes: an exception of the insert is a 500. *)
Resume(r) ==
    /\ req[r].pc = "waiting"
    /\ \/ thread[r].pc = "returned" /\ req' = [req EXCEPT ![r].pc = "broadcast"]
       \/ thread[r].pc = "raised" /\ Reply(r, "500")
       \/ thread[r].pc = "timedout" /\ Reply(r, "504")
    /\ UNCHANGED <<clock, limiterVars, thread, table, published, zmqVars>>

(* _broadcast, which a failing publish does not stop, and the answer. *)
Broadcast(r) ==
    /\ req[r].pc = "broadcast"
    /\ \E n \in {0, Len(req[r].batch)} : published' = [published EXCEPT ![r] = n]
    /\ Reply(r, "200")
    /\ UNCHANGED <<clock, limiterVars, thread, table, zmqVars>>

-----------------------------------------------------------------------------
(* The ingest path on the same table. *)

(* to_rows' stamps: strictly increasing in the process. *)
NextStampClock(last) == clock
NextStamp(last) == IF clock <= last THEN last + 1 ELSE clock

(* One drained batch: the messages parse_ingest accepts become rows. *)
ZmqReceive(b) ==
    LET kept == {i \in 1..Len(b) : ZmqAccepts(b[i].stamp)}
        fresh == {i \in kept : b[i].stamp.kind = "none"}
        stamp[i \in 0..Len(b)] ==
            IF i = 0 THEN lastTs
            ELSE IF i \in fresh THEN NextStamp(stamp[i - 1]) ELSE stamp[i - 1]
        ns(i) == IF i \in fresh THEN stamp[i] ELSE ZmqNs(b[i].stamp)
        by(i) == IF i \in fresh THEN "server" ELSE "client"
    IN
    /\ zmq = {} /\ kept # {} /\ lastTs < End
    /\ zmq' = {[series |-> b[i].series, ns |-> ns(i), by |-> by(i), i |-> i] : i \in kept}
    /\ lastTs' = stamp[Len(b)]
    /\ UNCHANGED <<clock, limiterVars, req, thread, table, published, zmqLost>>

(* The sink's insert: a collision drops the batch. *)
ZmqCommit ==
    /\ zmq # {}
    /\ table' = table \cup Stored(zmq)
    /\ zmqLost' = (zmqLost \/ \E row \in zmq :
            row.by = "server" /\ Collides(row, {o \in table \cup zmq : o.by = "server"}))
    /\ zmq' = {}
    /\ UNCHANGED <<clock, limiterVars, req, thread, published, lastTs>>

(* Time passes; a new window forgets what was admitted in the last. *)
Tick ==
    /\ clock < End
    /\ clock' = clock + 1
    /\ IF (clock + 1) \div Minute # Window
       THEN admitted' = [a \in Addrs |-> 0] /\ forgotten' = {}
       ELSE UNCHANGED <<admitted, forgotten>>
    /\ UNCHANGED <<hits, req, thread, table, published, zmqVars>>

HttpNext ==
    \/ \E r \in Reqs, a \in Addrs, b \in Batches : Arrive(r, a, b)
    \/ \E r \in Reqs : \/ Prepare(r) \/ Commit(r) \/ InsertFails(r)
                       \/ TimesOut(r) \/ Resume(r) \/ Broadcast(r)
    \/ \E b \in ZmqBatches : ZmqReceive(b)
    \/ ZmqCommit
    \/ Tick

HttpSpec == HttpInit /\ [][HttpNext]_httpVars
-----------------------------------------------------------------------------
RowsOf(r) == Cardinality({row \in table : row.by = r})

(* What a writer is told is what happened to its whole batch, however        *)
(* requests, timeouts and threads interleave: 200 means stored, an error     *)
(* before or in the insert means nothing is stored, now or later, and a 504  *)
(* leaves all or nothing; subscribers never see a row that is not stored.    *)
ReplyTruthful ==
    \A r \in Reqs :
        /\ RowsOf(r) \in {0, Len(req[r].batch)}
        /\ req[r].reply = "200" => RowsOf(r) = Len(req[r].batch)
        /\ req[r].reply \in {"429", "400", "500"} =>
              RowsOf(r) = 0 /\ thread[r].pc \in {"none", "raised"}
        /\ published[r] > 0 => RowsOf(r) = Len(req[r].batch)

(* Within a window an address gets no more than its limit through, unless    *)
(* its count was evicted, and the table of counts stays bounded.             *)
LimitUnlessEvicted ==
    /\ \A a \in Addrs \ forgotten : admitted[a] <= Limit
    /\ Len(hits) <= MaxKeys + 1

(* With the skew guard on, any time both paths accept is stored as the same  *)
(* nanosecond, an ISO text with separators is accepted by both or by none,   *)
(* and no accepted time is beyond 64 bits, which would fail the sink's whole *)
(* batch.  A text of digits, which HTTP reads as seconds and ingest as a     *)
(* date, is never accepted by both, so that it has one meaning at most.  The *)
(* first 1000 seconds of 1970 are left out: the ingest path reads their      *)
(* nanoseconds as seconds.                                                   *)
SameTimeOnBothPaths ==
    MaxSkew > 0 => \A s \in {s \in Stamps : s.kind \in {"int", "float", "digits"}
                                          \/ (s.kind = "iso" /\ s.n > Big)} :
        /\ s.kind = "iso" => (ZmqAccepts(s) <=> HttpAccepts(s))
        /\ s.kind = "digits" => ~(ZmqAccepts(s) /\ HttpAccepts(s))
        /\ ZmqAccepts(s) /\ HttpAccepts(s) => ZmqNs(s) = HttpNs(s)
        /\ ZmqAccepts(s) => ZmqNs(s) <= MaxInt

(* Rows of the ingest path that the server stamps never collide with each    *)
(* other, however many come in one instant.                                  *)
ServerStampsDistinct == ~zmqLost
=============================================================================
