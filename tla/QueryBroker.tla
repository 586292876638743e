---------------------------- MODULE QueryBroker ----------------------------
(***************************************************************************)
(* messaging/broker.py on its ROUTER socket, Service._query_handler in the *)
(* executor's threads, and the cache they share, messaging/query_cache.py, *)
(* which has no lock.                                                      *)
(*                                                                         *)
(* The event loop's steps are those between two awaits.  A thread's steps  *)
(* are those between two calls inside get and put, where the interpreter   *)
(* may switch threads; a statement without a call is atomic.  Requests are *)
(* numbered in the order in which the ROUTER delivers them, each from a    *)
(* client of its own: REQ sends one and waits.  What a reply says is left  *)
(* out, and so are the statistics other than replies_dropped.              *)
(***************************************************************************)
EXTENDS Integers, Sequences, FiniteSets, SequencesExt, Sums

CONSTANTS
    MaxRequests,  \* bound: requests sent
    RawKeys,      \* queries answered with a list of rows, by their cache key
    AggKeys,      \* queries with "aggregations", answered with one dict
    RowCounts,    \* lengths a list of rows may have
    Workers,      \* threads of the executor
    MaxInflight,  \* max_inflight
    MaxSize,      \* QueryResultCache: maxsize
    MaxWeight,    \* QueryResultCache: max_weight
    MaxRows,      \* MAX_CACHED_ROWS
    TTL,          \* QueryResultCache: ttl_s
    MaxClock      \* bound: the clock

ASSUME BrokerAssumption ==
    /\ MaxRequests \in Nat
    /\ RowCounts \subseteq Nat
    /\ Workers \in Nat \ {0} /\ MaxInflight \in Nat \ {0}
    /\ MaxSize \in Nat /\ MaxWeight \in Nat /\ MaxRows \in Nat
    /\ TTL \in Nat /\ MaxClock \in Nat

Requests  == 1..MaxRequests
Keys      == RawKeys \cup AggKeys
Malformed == "malformed"     \* no payload, or not JSON
NoKey     == "none"
Entry     == [key : Keys \cup {NoKey}, ts : 0..MaxClock, rows : Nat]
NoEntry   == [key |-> NoKey, ts |-> 0, rows |-> 0]

VARIABLES
    now,      \* time.monotonic
    broker,   \* "up", "draining" (the pump is stopped), "closed"
    key,      \* what each request sent so far asks for
    taken,    \* requests taken from the ROUTER's pipe
    task,     \* where each _handle_router task stands
    served,   \* replies sent
    dropped,  \* replies_dropped
    thread,   \* where each handler stands
    ent,      \* the cache entry it has read, popped or made
    rows,     \* _row_count of its result
    cache,    \* _data, least recently used first
    weight,   \* _weight
    overlap   \* history: two operations on one key have overlapped

loopVars   == <<broker, key, taken, task, served, dropped>>
cacheVars  == <<cache, weight>>
threadVars == <<thread, ent, rows>>
brokerVars == <<now, loopVars, threadVars, cacheVars, overlap>>

(* _row_count: an aggregate is a dict under "data" and weighs 1. *)
Counts(k) == IF k \in AggKeys THEN {1} ELSE RowCounts

(* A result put refuses. *)
Oversize(n) == n > MaxRows \/ n > MaxWeight

Weigh(c) == SumTo([i \in DOMAIN c |-> c[i].rows], Len(c))

(* What earlier requests can have left in the cache. *)
Warm ==
    {c \in UNION {[1..n -> [key : Keys, ts : {0}, rows : RowCounts \cup {1}]] : n \in 0..MaxSize} :
        /\ \A i, j \in DOMAIN c : c[i].key = c[j].key => i = j
        /\ \A i \in DOMAIN c : c[i].rows \in Counts(c[i].key) /\ ~Oversize(c[i].rows)
        /\ Weigh(c) <= MaxWeight}

BrokerInit ==
    /\ now = 0
    /\ broker = "up"
    /\ key = << >>
    /\ taken = 0
    /\ task = [r \in Requests |-> "none"]
    /\ served = 0
    /\ dropped = 0
    /\ thread = [r \in Requests |-> "none"]
    /\ ent = [r \in Requests |-> NoEntry]
    /\ rows = [r \in Requests |-> 0]
    /\ cache \in Warm
    /\ weight = Weigh(cache)
    /\ overlap = "no"

Tick ==
    /\ now < MaxClock
    /\ now' = now + 1
    /\ UNCHANGED <<loopVars, threadVars, cacheVars, overlap>>

-----------------------------------------------------------------------------
(* A client sends a request. *)
Ask ==
    /\ Len(key) < MaxRequests /\ broker # "closed"
    /\ \E k \in Keys \cup {Malformed} : key' = Append(key, k)
    /\ UNCHANGED <<now, broker, taken, task, served, dropped, threadVars, cacheVars,
                   overlap>>

Inflight == {r \in Requests : task[r] \in {"await", "reply"}}

(* run_once: below max_inflight it takes one request from the pipe and       *)
(* starts its task; at the limit it leaves the pipe alone.  loads fails at   *)
(* once, otherwise _dispatch hands the handler to the executor.              *)
RunOnce ==
    /\ broker = "up"
    /\ taken < Len(key)
    /\ Cardinality(Inflight) < MaxInflight
    /\ taken' = taken + 1
    /\ \/ /\ key[taken'] = Malformed
          /\ task' = [task EXCEPT ![taken'] = "reply"]
          /\ UNCHANGED thread
       \/ /\ key[taken'] # Malformed
          /\ task' = [task EXCEPT ![taken'] = "await"]
          /\ thread' = [thread EXCEPT ![taken'] = "queued"]
    /\ UNCHANGED <<now, broker, key, served, dropped, ent, rows, cacheVars, overlap>>

(* wait_for returns the handler's result, or its exception. *)
HandlerDone(r) ==
    /\ task[r] = "await" /\ thread[r] = "done"
    /\ task' = [task EXCEPT ![r] = "reply"]
    /\ UNCHANGED <<now, broker, key, taken, served, dropped, threadVars, cacheVars,
                   overlap>>

(* Mutant of BudgetOver: handler_timeout_s is not passed. *)
BudgetOverNever(r) == FALSE

(* handler_timeout_s passes before the loop has the result. *)
BudgetOver(r) == task[r] = "await"

(* wait_for gives up: a handler still queued in the executor is cancelled, a *)
(* running one goes on and its result is discarded.                          *)
HandlerTimeout(r) ==
    /\ BudgetOver(r)
    /\ task' = [task EXCEPT ![r] = "reply"]
    /\ thread' = IF thread[r] = "queued" THEN [thread EXCEPT ![r] = "done"] ELSE thread
    /\ UNCHANGED <<now, broker, key, taken, served, dropped, ent, rows, cacheVars,
                   overlap>>

(* _send_router: one reply sent, or one dropped because the peer is gone or  *)
(* its pipe is full; on a closed socket it returns at once.                  *)
SendOutcomes ==
    IF broker = "closed" THEN {[sent |-> 0, lost |-> 0]}
    ELSE {[sent |-> 1, lost |-> 0], [sent |-> 0, lost |-> 1]}

SendRouter(r) ==
    /\ task[r] = "reply"
    /\ task' = [task EXCEPT ![r] = "end"]
    /\ \E o \in SendOutcomes :
         served' = served + o.sent /\ dropped' = dropped + o.lost
    /\ UNCHANGED <<now, broker, key, taken, threadVars, cacheVars, overlap>>

(* Mutant of TasksGone: close does not wait for the tasks. *)
TasksGoneNot == TRUE

(* stop gathers the tasks first. *)
TasksGone == Inflight = {}

(* Service.shutdown: WorkerPool.stop ends the pump, then QueryBroker.stop    *)
(* closes the socket; what is left in the pipe is discarded.                 *)
StopPump ==
    /\ broker = "up"
    /\ broker' = "draining"
    /\ UNCHANGED <<now, key, taken, task, served, dropped, threadVars, cacheVars,
                   overlap>>

Stop ==
    /\ broker = "draining"
    /\ TasksGone
    /\ broker' = "closed"
    /\ UNCHANGED <<now, key, taken, task, served, dropped, threadVars, cacheVars,
                   overlap>>

-----------------------------------------------------------------------------
Has(k)     == \E i \in DOMAIN cache : cache[i].key = k
Place(k)   == CHOOSE i \in DOMAIN cache : cache[i].key = k
Lookup(k)  == cache[Place(k)]
Without(k) == IF Has(k) THEN RemoveAt(cache, Place(k)) ELSE cache

(* A thread between two accesses of one get, or of one put up to its count.  *)
Mid(pc) == pc \in {"found", "popped", "timed", "stored"}

(* Thread r moves to pc. *)
Goto(r, pc) ==
    /\ thread' = [thread EXCEPT ![r] = pc]
    /\ overlap' = IF Mid(pc) /\ \E s \in Requests \ {r} : Mid(thread[s]) /\ key[s] = key[r]
                  THEN "yes" ELSE overlap

(* It returns, or raises. *)
Return(r) ==
    /\ Goto(r, "done")
    /\ ent' = [ent EXCEPT ![r] = NoEntry]
    /\ rows' = [rows EXCEPT ![r] = 0]

Running == {r \in Requests : thread[r] \notin {"none", "queued", "done"}}

(* The executor starts the handler: get looks the key up. *)
CacheGet(r) ==
    /\ thread[r] = "queued"
    /\ Cardinality(Running) < Workers
    /\ \/ /\ Has(key[r])
          /\ ent' = [ent EXCEPT ![r] = Lookup(key[r])]
          /\ Goto(r, "found")
       \/ /\ ~Has(key[r])
          /\ Goto(r, "query")
          /\ UNCHANGED ent
    /\ UNCHANGED <<now, loopVars, rows, cacheVars>>

Stale(e) == now - e.ts > TTL

(* get goes on with the entry it read: a stale one is deleted, a fresh one   *)
(* returned; if the key has left the cache since, del or move_to_end raises  *)
(* KeyError and the client gets INTERNAL_ERROR.                              *)
CacheCheck(r) ==
    /\ thread[r] = "found"
    /\ \/ /\ ~Has(key[r])
          /\ Return(r)
          /\ UNCHANGED cacheVars
       \/ /\ Has(key[r]) /\ Stale(ent[r])
          /\ cache' = Without(key[r])
          /\ weight' = weight - ent[r].rows
          /\ Goto(r, "query")
          /\ UNCHANGED <<ent, rows>>
       \/ /\ Has(key[r]) /\ ~Stale(ent[r])
          /\ cache' = Append(Without(key[r]), Lookup(key[r]))
          /\ Return(r)
          /\ UNCHANGED weight
    /\ UNCHANGED <<now, loopVars>>

(* The query is refused (MAX_ROWS_EXCEEDED, INVALID_QUERY), or the database  *)
(* raises.                                                                   *)
QueryFails(r) ==
    /\ thread[r] = "query"
    /\ Return(r)
    /\ UNCHANGED <<now, loopVars, cacheVars>>

(* The query gives its rows; put skips an oversize result... *)
QueryOversize(r) ==
    /\ thread[r] = "query"
    /\ \E n \in Counts(key[r]) : Oversize(n)
    /\ Return(r)
    /\ UNCHANGED <<now, loopVars, cacheVars>>

(* ...or pops the entry that the key has... *)
PutPop(r) ==
    /\ thread[r] = "query"
    /\ \E n \in Counts(key[r]) : ~Oversize(n) /\ rows' = [rows EXCEPT ![r] = n]
    /\ ent' = [ent EXCEPT ![r] = IF Has(key[r]) THEN Lookup(key[r]) ELSE NoEntry]
    /\ cache' = Without(key[r])
    /\ Goto(r, "popped")
    /\ UNCHANGED <<now, loopVars, weight>>

(* Mutant of Uncounted: the popped entry stays counted. *)
UncountedNot(e) == weight

(* The popped entry is no longer counted. *)
Uncounted(e) == weight - e.rows

(* ...reads the clock for the new one... *)
PutUncount(r) ==
    /\ thread[r] = "popped"
    /\ weight' = Uncounted(ent[r])
    /\ ent' = [ent EXCEPT ![r] = [key |-> key[r], ts |-> now, rows |-> rows[r]]]
    /\ Goto(r, "timed")
    /\ UNCHANGED <<now, loopVars, rows, cache>>

Stored(e) == Append(Without(e.key), e)

(* ...stores it as the most recently used... *)
PutStore(r) ==
    /\ thread[r] = "timed"
    /\ cache' = Stored(ent[r])
    /\ Goto(r, "stored")
    /\ UNCHANGED <<now, loopVars, ent, rows, weight>>

(* ...counts it... *)
PutCount(r) ==
    /\ thread[r] = "stored"
    /\ weight' = weight + rows[r]
    /\ Goto(r, "test")
    /\ UNCHANGED <<now, loopVars, ent, rows, cache>>

OverBound == cache # << >> /\ (Len(cache) > MaxSize \/ weight > MaxWeight)

(* ...and while a bound is exceeded... *)
PutTest(r) ==
    /\ thread[r] = "test"
    /\ \/ OverBound /\ Goto(r, "evict") /\ UNCHANGED <<ent, rows>>
       \/ ~OverBound /\ Return(r)
    /\ UNCHANGED <<now, loopVars, cacheVars>>

(* ...pops the least recently used entry: KeyError if other threads have     *)
(* emptied the cache...                                                      *)
PutEvict(r) ==
    /\ thread[r] = "evict"
    /\ \/ /\ cache # << >>
          /\ ent' = [ent EXCEPT ![r] = Head(cache)]
          /\ cache' = Tail(cache)
          /\ Goto(r, "evicted")
          /\ UNCHANGED rows
       \/ /\ cache = << >>
          /\ Return(r)
          /\ UNCHANGED cache
    /\ UNCHANGED <<now, loopVars, weight>>

(* ...and uncounts it. *)
PutEvicted(r) ==
    /\ thread[r] = "evicted"
    /\ weight' = weight - ent[r].rows
    /\ Goto(r, "test")
    /\ UNCHANGED <<now, loopVars, ent, rows, cache>>

-----------------------------------------------------------------------------
Handler(r) == HandlerDone(r) \/ HandlerTimeout(r) \/ SendRouter(r)
Put(r)     == PutPop(r) \/ PutUncount(r) \/ PutStore(r) \/ PutCount(r)
              \/ PutTest(r) \/ PutEvict(r) \/ PutEvicted(r)
Thread(r)  == CacheGet(r) \/ CacheCheck(r) \/ QueryFails(r) \/ QueryOversize(r) \/ Put(r)

BrokerNext ==
    \/ Tick \/ Ask \/ RunOnce \/ StopPump \/ Stop
    \/ \E r \in Requests : Handler(r) \/ Thread(r)

BrokerSpec == BrokerInit /\ [][BrokerNext]_brokerVars

(* The event loop runs: the pump takes requests, tasks go on and time out,   *)
(* stop goes on.  A handler's thread may hang: nothing is assumed of it.     *)
BrokerFairSpec ==
    /\ BrokerSpec
    /\ WF_brokerVars(RunOnce) /\ WF_brokerVars(Stop)
    /\ \A r \in Requests : WF_brokerVars(Handler(r))

-----------------------------------------------------------------------------
(* Every variable has its type, and a key is cached once. *)
BrokerTypeOK ==
    /\ now \in 0..MaxClock
    /\ broker \in {"up", "draining", "closed"}
    /\ \A i \in DOMAIN key : key[i] \in Keys \cup {Malformed}
    /\ taken \in 0..Len(key)
    /\ task \in [Requests -> {"none", "await", "reply", "end"}]
    /\ served \in 0..taken /\ dropped \in 0..taken
    /\ thread \in [Requests -> {"none", "queued", "found", "query", "popped", "timed",
                                "stored", "test", "evict", "evicted", "done"}]
    /\ ent \in [Requests -> Entry]
    /\ rows \in [Requests -> Nat]
    /\ \A i, j \in DOMAIN cache :
         cache[i] \in Entry /\ (cache[i].key = cache[j].key => i = j)
    /\ weight \in Int
    /\ overlap \in {"no", "yes"}

At(pc) == {r \in Requests : thread[r] = pc}

(* What each thread has stored and not counted, or taken out and not         *)
(* uncounted.                                                                *)
ToCount   == [r \in Requests |-> IF thread[r] = "stored" THEN rows[r] ELSE 0]
ToUncount == [r \in Requests |-> IF thread[r] \in {"popped", "evicted"} THEN ent[r].rows ELSE 0]

(* The weight the cache keeps is the weight of what it holds, up to what the *)
(* threads inside put and get have still to count, whatever expires, is      *)
(* replaced and is evicted meanwhile, and when no put is under way the cache *)
(* is within both its bounds, as long as no two operations on one key        *)
(* overlap.                                                                  *)
WeightUnlessOverlap ==
    /\ BrokerTypeOK
    /\ overlap = "no" =>
        /\ weight + SumTo(ToCount, MaxRequests) = Weigh(cache) + SumTo(ToUncount, MaxRequests)
        /\ At("stored") \cup At("test") \cup At("evict") \cup At("evicted") = {}
             => Len(cache) <= MaxSize /\ Weigh(cache) <= MaxWeight

(* "Counted so nothing is silently discarded": a dispatched request's reply  *)
(* reached its client or is in replies_dropped, through stop as well.        *)
NoSilentDiscard ==
    served + dropped = Cardinality({r \in Requests : task[r] = "end"})

(* A dispatched request is answered although its handler may hang, and a     *)
(* handler that hangs holds up the broker's stop no more than a client.      *)
AnswerComes ==
    /\ \A r \in Requests : task[r] = "await" ~> task[r] = "end"
    /\ broker = "draining" ~> broker = "closed"
-----------------------------------------------------------------------------
(* "Drop any previous entry for this key (its weight must not count twice)":  *)
(* when no thread is inside the cache its weight is that of its entries.     *)
WeightIsSum ==
    (\A r \in Requests : thread[r] \in {"none", "queued", "query", "done"})
        => weight = Weigh(cache)
=============================================================================
