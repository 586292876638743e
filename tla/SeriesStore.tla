---------------------------- MODULE SeriesStore ----------------------------
(***************************************************************************)
(* engine/store.py: the series registry with its two LRU caches, the       *)
(* transaction of insert_many with its failures, the cached partition list *)
(* and a streamed query beside retention's drops.                          *)
(*                                                                         *)
(* A key stands for (metric, tags_json).  A measurement keeps its value's  *)
(* identity as "n", the call of insert_many that wrote it, and history     *)
(* "key", the series it was written for.  The rewind of the rollup's       *)
(* watermark, in the same transaction, is in module Rollup.                *)
(***************************************************************************)
EXTENDS Naturals, Sequences, FiniteSets, SequencesExt

CONSTANTS
    Keys,          \* (metric, tags_json) combinations
    Times,         \* timestamps
    TimesPerPart,  \* timestamps in a monthly partition
    CacheSize,     \* StorageEngine's cache_size
    MaxBatch,      \* bound: rows of one insert_many
    MaxCalls,      \* bound: calls of insert_many
    MaxDrops,      \* bound: partitions retention drops
    MaxRestarts    \* bound: restarts of the process

ASSUME StoreAssumption ==
    /\ IsFiniteSet(Keys)
    /\ Times \subseteq Nat
    /\ TimesPerPart \in Nat \ {0}
    /\ CacheSize \in Nat \ {0}
    /\ MaxBatch \in Nat /\ MaxCalls \in Nat
    /\ MaxDrops \in Nat /\ MaxRestarts \in Nat
    /\ "none" \notin Keys

Ids      == 1..Cardinality(Keys)
Part(ts) == ts \div TimesPerPart
Parts    == {Part(ts) : ts \in Times}
NoKey    == "none"
Row      == [sid : Ids, ts : Times, n : 1..MaxCalls, key : Keys]

VARIABLES
    series,      \* the series table: key of each id
    seq,         \* sqlite_sequence of the series table
    rows,        \* rows of the measurement partitions
    parts,       \* the partition tables
    cache,       \* _series_cache, least recently used first
    idCache,     \* _id_cache
    wpc,         \* where insert_many stands
    batch,       \* its rows still to resolve
    tseries,     \* the transaction's view of series and seq
    tseq,
    resolved,    \* by_partition
    calls,       \* calls of insert_many so far
    rolledBack,  \* history: keys whose row a failed transaction had created
    list,        \* _parts_cache: the cached list, if there is one
    dpc,         \* where drop_partition stands
    drops,       \* partitions dropped so far
    qpc,         \* where query_time_range stands
    qlist,       \* the partitions it still has to read
    qowed,       \* history: rows it owes, committed when it listed them
    qres,        \* what it has yielded
    restarts     \* restarts so far

tableVars  == <<series, seq, rows, parts>>
cacheVars  == <<cache, idCache>>
insertVars == <<wpc, batch, tseries, tseq, resolved, calls, rolledBack>>
dropVars   == <<dpc, drops>>
queryVars  == <<qpc, qlist, qowed, qres>>
vars == <<tableVars, cacheVars, insertVars, list, dropVars, queryVars, restarts>>

Init ==
    /\ series = [i \in Ids |-> NoKey]
    /\ seq = 0
    /\ rows = {}
    /\ parts = {}
    /\ cache = << >>
    /\ idCache = << >>
    /\ wpc = "idle"
    /\ batch = << >>
    /\ tseries = series
    /\ tseq = 0
    /\ resolved = << >>
    /\ calls = 0
    /\ rolledBack = {}
    /\ list = {}
    /\ dpc = "idle"
    /\ drops = 0
    /\ qpc = "idle"
    /\ qlist = {}
    /\ qowed = {}
    /\ qres = {}
    /\ restarts = 0

-----------------------------------------------------------------------------
(* _LRUCache: an entry has a key and a value, and a key has one entry. *)
Has(c, k)      == \E i \in DOMAIN c : c[i].key = k
Position(c, k) == CHOOSE i \in DOMAIN c : c[i].key = k
Without(c, k)  == IF Has(c, k) THEN RemoveAt(c, Position(c, k)) ELSE c

(* put makes k the most recently used entry and pops the least recently used *)
(* one over the size.                                                        *)
Put(c, k, v) ==
    LET s == Append(Without(c, k), [key |-> k, val |-> v])
    IN  IF Len(s) > CacheSize THEN Tail(s) ELSE s

(* get moves a hit to the end. *)
Touch(c, i) == Append(Without(c, c[i].key), c[i])

-----------------------------------------------------------------------------
(* insert_many takes the writer lock and begins its transaction. *)
Begin ==
    /\ wpc = "idle"
    /\ calls < MaxCalls
    /\ calls' = calls + 1
    /\ \E len \in 1..MaxBatch :
         batch' \in [1..len -> [key : Keys, ts : Times]]
    /\ tseries' = series
    /\ tseq' = seq
    /\ resolved' = << >>
    /\ wpc' = "resolve"
    /\ UNCHANGED <<tableVars, cacheVars, rolledBack, list, dropVars, queryVars,
                   restarts>>

Resolved(sid) ==
    /\ resolved' = Append(resolved, [sid |-> sid, ts |-> Head(batch).ts,
                                     n |-> calls, key |-> Head(batch).key])
    /\ batch' = Tail(batch)
    /\ UNCHANGED <<tableVars, wpc, calls, rolledBack, list, dropVars, queryVars,
                   restarts>>

(* resolve_series: a hit in the series cache is believed... *)
ResolveCached ==
    /\ wpc = "resolve" /\ batch # << >>
    /\ \E i \in DOMAIN cache :
         /\ cache[i].key = Head(batch).key
         /\ cache' = Touch(cache, i)
         /\ Resolved(cache[i].val)
    /\ UNCHANGED <<idCache, tseries, tseq>>

(* Mutant of NewId: lastrowid of an earlier insert. *)
NewIdStale == IF tseq = 0 THEN 1 ELSE tseq

(* The AUTOINCREMENT id of a new series row. *)
NewId == tseq + 1

Remembered(sid, k) == Put(idCache, sid, k)

(* ...otherwise the row is selected, or inserted, and both caches take it    *)
(* while the transaction is still open.                                      *)
ResolveFromTable ==
    /\ wpc = "resolve" /\ batch # << >>
    /\ LET k == Head(batch).key IN
       /\ ~Has(cache, k)
       /\ \E sid \in Ids :
            /\ \/ /\ tseries[sid] = k
                  /\ UNCHANGED <<tseries, tseq>>
               \/ /\ \A i \in Ids : tseries[i] # k
                  /\ sid = NewId
                  /\ tseries' = [tseries EXCEPT ![sid] = k]
                  /\ tseq' = sid
            /\ cache' = Put(cache, k, sid)
            /\ idCache' = Remembered(sid, k)
            /\ Resolved(sid)

(* The primary key (series_id, timestamp_ns) admits the batch. *)
PrimaryKeyHolds ==
    /\ \A i, j \in DOMAIN resolved :
         i # j => <<resolved[i].sid, resolved[i].ts>> # <<resolved[j].sid, resolved[j].ts>>
    /\ \A i \in DOMAIN resolved, r \in rows :
         <<resolved[i].sid, resolved[i].ts>> # <<r.sid, r.ts>>

(* Partition DDL, executemany and commit: all of the transaction or nothing. *)
Commit ==
    /\ wpc = "resolve" /\ batch = << >>
    /\ PrimaryKeyHolds
    /\ series' = tseries
    /\ seq' = tseq
    /\ rows' = rows \cup {resolved[i] : i \in DOMAIN resolved}
    /\ parts' = parts \cup {Part(resolved[i].ts) : i \in DOMAIN resolved}
    /\ resolved' = << >>
    /\ wpc' = "invalidate"
    /\ UNCHANGED <<cacheVars, batch, tseries, tseq, calls, rolledBack, list,
                   dropVars, queryVars, restarts>>

Created == {tseries[i] : i \in {j \in Ids : tseries[j] # series[j]}}

(* A statement or the commit raises (busy, disk full, a duplicate primary    *)
(* key): the writer is quarantined, SQLite discards the transaction.  The    *)
(* caches keep what resolve_series put.                                      *)
RollBack ==
    /\ wpc = "resolve"
    /\ rolledBack' = rolledBack \cup Created
    /\ batch' = << >>
    /\ resolved' = << >>
    /\ tseries' = series
    /\ tseq' = seq
    /\ wpc' = "idle"
    /\ UNCHANGED <<tableVars, cacheVars, calls, list, dropVars, queryVars, restarts>>

(* After the transaction: invalidate_partitions, and insert_many returns. *)
Invalidate ==
    /\ wpc = "invalidate"
    /\ list' = {}
    /\ wpc' = "idle"
    /\ UNCHANGED <<tableVars, cacheVars, batch, tseries, tseq, resolved, calls,
                   rolledBack, dropVars, queryVars, restarts>>

(* get_series_meta of a known id: from the id cache or from the table. *)
GetSeriesMeta ==
    /\ \E sid \in Ids :
         \/ \E i \in DOMAIN idCache :
              idCache[i].key = sid /\ idCache' = Touch(idCache, i)
         \/ /\ ~Has(idCache, sid)
            /\ series[sid] # NoKey
            /\ idCache' = Put(idCache, sid, series[sid])
    /\ UNCHANGED <<tableVars, cache, insertVars, list, dropVars, queryVars, restarts>>

-----------------------------------------------------------------------------
(* drop_partition's transaction, under the writer lock... *)
Drop ==
    /\ dpc = "idle"
    /\ wpc # "resolve"
    /\ drops < MaxDrops
    /\ \E p \in parts :
         /\ parts' = parts \ {p}
         /\ rows' = {r \in rows : Part(r.ts) # p}
    /\ drops' = drops + 1
    /\ dpc' = "changed"
    /\ UNCHANGED <<series, seq, cacheVars, insertVars, list, queryVars, restarts>>

(* ...then on_change invalidates the list. *)
DropChanged ==
    /\ dpc = "changed"
    /\ list' = {}
    /\ dpc' = "idle"
    /\ UNCHANGED <<tableVars, cacheVars, insertVars, drops, queryVars, restarts>>

-----------------------------------------------------------------------------
(* query_time_range lists the partitions from the cache, or scans            *)
(* sqlite_master...                                                          *)
QueryList ==
    /\ qpc = "idle"
    /\ \/ qlist' \in list /\ qpc' = "read"
       \/ list = {} /\ qlist' = parts /\ qpc' = "store"
    /\ qowed' = {r \in rows : Part(r.ts) \in qlist'}
    /\ qres' = {}
    /\ UNCHANGED <<tableVars, cacheVars, insertVars, list, dropVars, restarts>>

(* ...and stores what it scanned, whatever has happened since. *)
QueryStore ==
    /\ qpc = "store"
    /\ list' = {qlist}
    /\ qpc' = "read"
    /\ UNCHANGED <<tableVars, cacheVars, insertVars, dropVars, qlist, qowed, qres,
                   restarts>>

(* Mutant of Expires: the cached list never expires. *)
ExpiresNever == FALSE

(* 2 s after the scan the list is no longer used. *)
Expires == list # {}

ListExpires ==
    /\ Expires
    /\ list' = {}
    /\ UNCHANGED <<tableVars, cacheVars, insertVars, dropVars, queryVars, restarts>>

(* Mutant of AfterSkip: a dropped partition ends the query. *)
AfterSkipNothing(p) == {}

(* "continue": the other partitions are still read. *)
AfterSkip(p) == qlist \ {p}

(* One partition is read, or found dropped: the list is invalidated and the  *)
(* partition skipped.                                                        *)
QueryRead ==
    /\ qpc = "read"
    /\ \E p \in qlist :
         \/ /\ p \in parts
            /\ qres' = qres \cup {r \in rows : Part(r.ts) = p}
            /\ qlist' = qlist \ {p}
            /\ UNCHANGED list
         \/ /\ p \notin parts
            /\ qlist' = AfterSkip(p)
            /\ list' = {}
            /\ UNCHANGED qres
    /\ UNCHANGED <<tableVars, cacheVars, insertVars, dropVars, qpc, qowed, restarts>>

QueryEnd ==
    /\ qpc = "read" /\ qlist = {}
    /\ qpc' = "idle"
    /\ qowed' = {}
    /\ qres' = {}
    /\ UNCHANGED <<tableVars, cacheVars, insertVars, list, dropVars, qlist, restarts>>

-----------------------------------------------------------------------------
(* The process is restarted: an open transaction is gone, caches are empty. *)
Restart ==
    /\ restarts < MaxRestarts
    /\ restarts' = restarts + 1
    /\ cache' = << >> /\ idCache' = << >> /\ list' = {}
    /\ wpc' = "idle" /\ batch' = << >> /\ resolved' = << >>
    /\ tseries' = series /\ tseq' = seq
    /\ dpc' = "idle"
    /\ qpc' = "idle" /\ qlist' = {} /\ qowed' = {} /\ qres' = {}
    /\ UNCHANGED <<tableVars, calls, rolledBack, drops>>

Insert == ResolveCached \/ ResolveFromTable \/ Commit \/ RollBack \/ Invalidate
Query  == QueryStore \/ QueryRead \/ QueryEnd

Next == \/ Begin \/ Insert \/ GetSeriesMeta
        \/ Drop \/ DropChanged
        \/ QueryList \/ Query \/ ListExpires
        \/ Restart

Spec == Init /\ [][Next]_vars

(* Two seconds pass. *)
FairSpec == Spec /\ WF_vars(ListExpires)

-----------------------------------------------------------------------------
(* Every variable has its type. *)
TypeOK ==
    /\ series \in [Ids -> Keys \cup {NoKey}]
    /\ seq \in {0} \cup Ids
    /\ rows \in SUBSET Row
    /\ parts \in SUBSET Parts
    /\ cache \in Seq([key : Keys, val : Ids]) /\ Len(cache) <= CacheSize
    /\ idCache \in Seq([key : Ids, val : Keys]) /\ Len(idCache) <= CacheSize
    /\ wpc \in {"idle", "resolve", "invalidate"}
    /\ batch \in Seq([key : Keys, ts : Times])
    /\ tseries \in [Ids -> Keys \cup {NoKey}]
    /\ tseq \in {0} \cup Ids
    /\ resolved \in Seq(Row)
    /\ calls \in 0..MaxCalls
    /\ rolledBack \in SUBSET Keys
    /\ list \in SUBSET (SUBSET Parts) /\ Cardinality(list) <= 1
    /\ dpc \in {"idle", "changed"}
    /\ drops \in 0..MaxDrops
    /\ qpc \in {"idle", "store", "read"}
    /\ qlist \in SUBSET Parts
    /\ qowed \in SUBSET Row
    /\ qres \in SUBSET Row
    /\ restarts \in 0..MaxRestarts

(* A measurement carries the id of the series it was written for, unless a   *)
(* transaction that created that series' row was rolled back.  And after any *)
(* mix of failed transactions, evictions and restarts, neither cache         *)
(* contradicts a committed series row: a key that has a row is cached under  *)
(* that row's id, and an id that has a row is cached under its key.          *)
AttributedUnlessRolledBack ==
    /\ TypeOK
    /\ \A r \in rows : r.key \notin rolledBack => series[r.sid] = r.key
    /\ \A i \in DOMAIN cache :
         (\E sid \in Ids : series[sid] = cache[i].key)
           => series[cache[i].val] = cache[i].key
    /\ \A i \in DOMAIN idCache :
         series[idCache[i].key] \in {NoKey, idCache[i].val}

(* A query yields every row that was in the partitions it listed, whatever   *)
(* retention drops meanwhile: only rows that are gone are missing.           *)
SurvivorsFound == qpc = "read" /\ qlist = {} => qowed \cap rows \subseteq qres

(* A partition that exists is not hidden by the cached list for ever, even   *)
(* if a query stored a list it had scanned before the partition was created. *)
PartitionSurfaces ==
    \A p \in Parts : p \in parts ~> (p \notin parts \/ \A l \in list : p \in l)

(* "A failure rolls everything back (no orphan series rows survive a failed  *)
(* insert)": what a later batch stores belongs to its own series.            *)
Attributed == \A r \in rows : series[r.sid] = r.key
=============================================================================
