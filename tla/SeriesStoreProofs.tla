-------------------------- MODULE SeriesStoreProofs --------------------------
(***************************************************************************)
(* Proofs about SeriesStore: a measurement keeps the series it was written *)
(* for, and a query misses nothing that survives, for any number of keys,  *)
(* calls, failures, restarts and drops and any size of the caches.         *)
(*                                                                         *)
(* The inductive invariant is about the transaction's view of the series   *)
(* table, which is what the caches were filled from, and not about the     *)
(* committed one, which AttributedUnlessRolledBack speaks of: that extends *)
(* the committed one and is replaced by it when a transaction fails.       *)
(***************************************************************************)
EXTENDS SeriesStore, FiniteSetTheorems, SequenceTheorems, TLAPS

(* No key has two entries in a cache. *)
OnceEach(c) == \A i, j \in DOMAIN c : c[i].key = c[j].key => i = j

CacheTypes ==
    /\ cache \in Seq([key : Keys, val : Ids]) /\ Len(cache) <= CacheSize /\ OnceEach(cache)
    /\ idCache \in Seq([key : Ids, val : Keys]) /\ Len(idCache) <= CacheSize /\ OnceEach(idCache)

(* The rest of TypeOK; a transaction is one of the calls so far. *)
StoreTypes ==
    /\ series \in [Ids -> Keys \cup {NoKey}] /\ tseries \in [Ids -> Keys \cup {NoKey}]
    /\ seq \in {0} \cup Ids /\ tseq \in {0} \cup Ids
    /\ rows \in SUBSET Row /\ parts \in SUBSET Parts
    /\ wpc \in {"idle", "resolve", "invalidate"}
    /\ batch \in Seq([key : Keys, ts : Times])
    /\ resolved \in Seq(Row)
    /\ calls \in 0..MaxCalls /\ (wpc = "resolve" => calls # 0)
    /\ rolledBack \in SUBSET Keys
    /\ list \in SUBSET (SUBSET Parts) /\ Cardinality(list) <= 1
    /\ dpc \in {"idle", "changed"} /\ drops \in 0..MaxDrops
    /\ qpc \in {"idle", "store", "read"} /\ qlist \in SUBSET Parts
    /\ qowed \in SUBSET Row /\ qres \in SUBSET Row
    /\ restarts \in 0..MaxRestarts

(* The transaction's series table extends the committed one, has each key    *)
(* once, and none beyond sqlite_sequence.                                    *)
TableInv ==
    /\ wpc # "resolve" => tseries = series /\ tseq = seq
    /\ \A i \in Ids : series[i] # NoKey => tseries[i] = series[i]
    /\ \A i, j \in Ids : tseries[i] = tseries[j] /\ tseries[i] # NoKey => i = j
    /\ \A i \in Ids : (i > seq => series[i] = NoKey) /\ (i > tseq => tseries[i] = NoKey)

(* Whoever is in tseries is cached under its id, and who is cached is in     *)
(* tseries unless its row was rolled back.                                   *)
CacheInv ==
    \A i \in DOMAIN cache :
        /\ (\E sid \in Ids : tseries[sid] = cache[i].key) => tseries[cache[i].val] = cache[i].key
        /\ cache[i].key \notin rolledBack => \E sid \in Ids : tseries[sid] = cache[i].key

IdInv == \A i \in DOMAIN idCache : tseries[idCache[i].key] \in {NoKey, idCache[i].val}

RowInv ==
    /\ \A r \in rows : r.key \notin rolledBack => series[r.sid] = r.key
    /\ \A i \in DOMAIN resolved :
         resolved[i].key \notin rolledBack => tseries[resolved[i].sid] = resolved[i].key

(* A call's rows are its own, and a row's partition exists. *)
CallInv ==
    /\ \A i \in DOMAIN resolved : resolved[i].n = calls
    /\ \A r \in rows \cup qowed : r.n <= calls /\ (wpc = "resolve" => r.n < calls)
    /\ \A r \in rows : Part(r.ts) \in parts

QueryInv ==
    qpc \in {"store", "read"} => \A r \in qowed \cap rows : r \in qres \/ Part(r.ts) \in qlist

IInv == CacheTypes /\ StoreTypes /\ TableInv /\ CacheInv /\ IdInv /\ RowInv /\ CallInv /\ QueryInv

-----------------------------------------------------------------------------
(* What the operations of _LRUCache leave: a sequence without one entry... *)
LEMMA RemoveAtFacts ==
    ASSUME NEW S, NEW c \in Seq(S), NEW k \in 1..Len(c)
    PROVE  /\ RemoveAt(c, k) \in Seq(S)
           /\ Len(RemoveAt(c, k)) = Len(c) - 1
           /\ \A i \in 1..(Len(c) - 1) : RemoveAt(c, k)[i] = IF i < k THEN c[i] ELSE c[i + 1]
<1> DEFINE a == SubSeq(c, 1, k - 1)
           b == SubSeq(c, k + 1, Len(c))
<1>0. Len(c) \in Nat /\ k \in Int /\ k >= 1 /\ k <= Len(c) /\ \A i \in 1..Len(c) : c[i] \in S
  OBVIOUS
<1>1. /\ a \in Seq(S) /\ Len(a) = k - 1
      /\ \A i \in 1..(k - 1) : a[i] = c[i]
  <2>1. \A i \in 1..(k - 1) : c[i] \in S
    BY <1>0
  <2>2. /\ a \in Seq(S) /\ Len(a) = IF 1 <= k - 1 THEN (k - 1) - 1 + 1 ELSE 0
        /\ \A i \in 1..((k - 1) - 1 + 1) : a[i] = c[1 + i - 1]
    BY <1>0, <2>1, SubSeqProperties
  <2> QED  BY <1>0, <2>2
<1>2. /\ b \in Seq(S) /\ Len(b) = Len(c) - k
      /\ \A i \in 1..(Len(c) - k) : b[i] = c[k + i]
  <2>1. \A i \in (k + 1)..Len(c) : c[i] \in S
    BY <1>0
  <2>2. /\ b \in Seq(S) /\ Len(b) = IF k + 1 <= Len(c) THEN Len(c) - (k + 1) + 1 ELSE 0
        /\ \A i \in 1..(Len(c) - (k + 1) + 1) : b[i] = c[(k + 1) + i - 1]
    BY <1>0, <2>1, SubSeqProperties
  <2> QED  BY <1>0, <2>2
<1> HIDE DEF a, b
<1>3. /\ a \o b \in Seq(S) /\ Len(a \o b) = Len(a) + Len(b)
      /\ \A i \in 1..(Len(a) + Len(b)) : (a \o b)[i] = IF i <= Len(a) THEN a[i] ELSE b[i - Len(a)]
  BY <1>1, <1>2, ConcatProperties
<1>4. RemoveAt(c, k) = a \o b
  BY DEF RemoveAt, a, b
<1>5. ASSUME NEW i \in 1..(Len(c) - 1) PROVE (a \o b)[i] = IF i < k THEN c[i] ELSE c[i + 1]
  <2>1. (a \o b)[i] = IF i <= k - 1 THEN a[i] ELSE b[i - (k - 1)]
    BY <1>0, <1>1, <1>2, <1>3
  <2>2. CASE i < k
    BY <1>0, <1>1, <2>1, <2>2
  <2>3. CASE i >= k
    <3>1. i - (k - 1) \in 1..(Len(c) - k) /\ k + (i - (k - 1)) = i + 1
      BY <1>0, <2>3
    <3>2. b[i - (k - 1)] = c[i + 1]
      BY <1>2, <3>1
    <3> QED  BY <1>0, <2>1, <2>3, <3>2
  <2>4. i < k \/ i >= k
    BY <1>0
  <2> QED  BY <2>2, <2>3, <2>4
<1>6. Len(a) + Len(b) = Len(c) - 1
  BY <1>0, <1>1, <1>2
<1> QED  BY <1>3, <1>4, <1>5, <1>6

(* ...so does Without, whose entries are those of other keys... *)
LEMMA WithoutFacts ==
    ASSUME NEW S, NEW c \in Seq(S), OnceEach(c), NEW k
    PROVE  /\ Without(c, k) \in Seq(S) /\ OnceEach(Without(c, k))
           /\ Len(Without(c, k)) <= Len(c)
           /\ Has(c, k) => Len(Without(c, k)) = Len(c) - 1
           /\ \A i \in DOMAIN Without(c, k) :
                 Without(c, k)[i].key # k /\ \E j \in DOMAIN c : Without(c, k)[i] = c[j]
<1>0. Len(c) \in Nat /\ DOMAIN c = 1..Len(c)
  OBVIOUS
<1>1. CASE ~Has(c, k)
  <2>1. Without(c, k) = c
    BY <1>1 DEF Without
  <2>2. \A i \in DOMAIN c : c[i].key # k
    BY <1>1 DEF Has
  <2>3. Len(c) <= Len(c)
    BY <1>0
  <2> QED  BY <1>1, <2>1, <2>2, <2>3
<1>2. CASE Has(c, k)
  <2> DEFINE p == Position(c, k)
             w == RemoveAt(c, p)
  <2>1. p \in 1..Len(c) /\ c[p].key = k
    BY <1>0, <1>2 DEF Has, Position
  <2>2. Without(c, k) = w
    BY <1>2 DEF Without
  <2> HIDE DEF p
  <2>3. /\ w \in Seq(S) /\ Len(w) = Len(c) - 1
        /\ \A i \in 1..(Len(c) - 1) : w[i] = IF i < p THEN c[i] ELSE c[i + 1]
    BY <2>1, RemoveAtFacts
  <2>4. DOMAIN w = 1..(Len(c) - 1)
    BY <2>3
  <2> HIDE DEF w
  <2>5. ASSUME NEW i \in 1..(Len(c) - 1)
        PROVE  \E j \in 1..Len(c) : w[i] = c[j] /\ j # p /\ j = IF i < p THEN i ELSE i + 1
    <3>1. CASE i < p
      BY <1>0, <2>1, <2>3, <3>1
    <3>2. CASE ~(i < p)
      <4>1. i + 1 \in 1..Len(c) /\ i + 1 # p /\ w[i] = c[i + 1]
        BY <1>0, <2>1, <2>3, <3>2
      <4> QED  BY <3>2, <4>1
    <3> QED  BY <3>1, <3>2
  <2>6. \A i \in 1..(Len(c) - 1) : w[i].key # k /\ \E j \in DOMAIN c : w[i] = c[j]
    BY <1>0, <2>1, <2>5 DEF OnceEach
  <2>7. OnceEach(w)
    <3> SUFFICES ASSUME NEW i \in 1..(Len(c) - 1), NEW j \in 1..(Len(c) - 1), w[i].key = w[j].key
                 PROVE  i = j
      BY <2>4 DEF OnceEach
    <3>1. PICK x \in 1..Len(c) : w[i] = c[x] /\ x = IF i < p THEN i ELSE i + 1
      BY <2>5
    <3>2. PICK y \in 1..Len(c) : w[j] = c[y] /\ y = IF j < p THEN j ELSE j + 1
      BY <2>5
    <3>3. x = y
      BY <1>0, <3>1, <3>2 DEF OnceEach
    <3> QED  BY <1>0, <2>1, <3>1, <3>2, <3>3
  <2> QED  BY <1>0, <2>2, <2>3, <2>4, <2>6, <2>7
<1> QED  BY <1>1, <1>2

(* ...to which an entry of k can be appended. *)
LEMMA AppendFacts ==
    ASSUME NEW S, NEW c \in Seq(S), OnceEach(c), NEW k, NEW e \in S, e.key = k
    PROVE  LET s == Append(Without(c, k), e) IN
           /\ s \in Seq(S) /\ OnceEach(s) /\ s # << >>
           /\ Len(s) = Len(Without(c, k)) + 1
           /\ \A i \in DOMAIN s : s[i] = e \/ (s[i].key # k /\ \E j \in DOMAIN c : s[i] = c[j])
<1> DEFINE w == Without(c, k)
           s == Append(w, e)
<1>1. /\ w \in Seq(S) /\ OnceEach(w)
      /\ \A i \in DOMAIN w : w[i].key # k /\ \E j \in DOMAIN c : w[i] = c[j]
  BY WithoutFacts
<1> HIDE DEF w
<1>2. /\ s \in Seq(S) /\ s # << >> /\ Len(s) = Len(w) + 1 /\ Len(w) \in Nat
      /\ DOMAIN w = 1..Len(w) /\ DOMAIN s = 1..(Len(w) + 1)
      /\ \A i \in 1..Len(w) : s[i] = w[i]
      /\ s[Len(w) + 1] = e
  BY <1>1, AppendProperties, LenProperties
<1> HIDE DEF s
<1>3. \A i \in DOMAIN s : i = Len(w) + 1 \/ i \in DOMAIN w
  BY <1>2
<1>4. \A i \in DOMAIN s : s[i] = e \/ (s[i].key # k /\ \E j \in DOMAIN c : s[i] = c[j])
  BY <1>1, <1>2, <1>3
<1>5. OnceEach(s)
  <2> SUFFICES ASSUME NEW i \in DOMAIN s, NEW j \in DOMAIN s, s[i].key = s[j].key
               PROVE  i = j
    BY DEF OnceEach
  <2>1. CASE i \in DOMAIN w /\ j \in DOMAIN w
    BY <1>1, <1>2, <2>1 DEF OnceEach
  <2>2. CASE i = Len(w) + 1 /\ j \in DOMAIN w
    BY <1>1, <1>2, <2>2
  <2>3. CASE j = Len(w) + 1 /\ i \in DOMAIN w
    BY <1>1, <1>2, <2>3
  <2> QED  BY <1>3, <2>1, <2>2, <2>3
<1> QED  BY <1>2, <1>4, <1>5 DEF s, w

(* An entry of a cache. *)
EntryOf(k, v) == [key |-> k, val |-> v]

(* put: within the size, one entry to a key, k's the new one. *)
LEMMA PutFacts ==
    ASSUME NEW S, NEW c \in Seq(S), OnceEach(c), Len(c) <= CacheSize,
           NEW k, NEW v, EntryOf(k, v) \in S
    PROVE  /\ Put(c, k, v) \in Seq(S) /\ OnceEach(Put(c, k, v))
           /\ Len(Put(c, k, v)) <= CacheSize
           /\ \A i \in DOMAIN Put(c, k, v) :
                 \/ Put(c, k, v)[i] = EntryOf(k, v)
                 \/ Put(c, k, v)[i].key # k /\ \E j \in DOMAIN c : Put(c, k, v)[i] = c[j]
<1> DEFINE e == EntryOf(k, v)
           s == Append(Without(c, k), e)
<1>1. e \in S /\ e.key = k
  BY DEF EntryOf
<1>2. /\ s \in Seq(S) /\ OnceEach(s) /\ s # << >>
      /\ Len(s) = Len(Without(c, k)) + 1
      /\ \A i \in DOMAIN s : s[i] = e \/ (s[i].key # k /\ \E j \in DOMAIN c : s[i] = c[j])
  <2> HIDE DEF e
  <2> QED  BY <1>1, AppendFacts
<1>3. Without(c, k) \in Seq(S) /\ Len(Without(c, k)) <= Len(c)
  BY WithoutFacts
<1>4. Len(s) \in Nat /\ Len(s) <= CacheSize + 1 /\ DOMAIN s = 1..Len(s) /\ CacheSize \in Nat \ {0}
  BY <1>2, <1>3, StoreAssumption
<1>5. Put(c, k, v) = IF Len(s) > CacheSize THEN Tail(s) ELSE s
  BY DEF Put, EntryOf
<1> HIDE DEF s, e
<1>6. CASE Len(s) > CacheSize
  <2> DEFINE t == Tail(s)
  <2>1. /\ t \in Seq(S) /\ Len(t) = Len(s) - 1 /\ DOMAIN t = 1..Len(t)
        /\ \A i \in 1..Len(t) : t[i] = s[i + 1]
    BY <1>2, HeadTailProperties, LenProperties
  <2> HIDE DEF t
  <2>2. \A i \in DOMAIN t : i + 1 \in DOMAIN s /\ t[i] = s[i + 1]
    BY <1>4, <2>1
  <2>3. OnceEach(t)
    <3> SUFFICES ASSUME NEW i \in DOMAIN t, NEW j \in DOMAIN t, t[i].key = t[j].key PROVE i = j
      BY DEF OnceEach
    <3>1. i + 1 = j + 1
      BY <1>2, <2>2 DEF OnceEach
    <3> QED  BY <2>1, <3>1
  <2>4. Len(t) <= CacheSize
    BY <1>4, <2>1
  <2>5. \A i \in DOMAIN t : t[i] = e \/ (t[i].key # k /\ \E j \in DOMAIN c : t[i] = c[j])
    BY <1>2, <2>2
  <2>6. Put(c, k, v) = t
    BY <1>5, <1>6 DEF t
  <2> QED  BY <2>1, <2>3, <2>4, <2>5, <2>6 DEF e
<1>7. CASE ~(Len(s) > CacheSize)
  <2>1. Put(c, k, v) = s /\ Len(s) <= CacheSize
    BY <1>4, <1>5, <1>7
  <2> QED  BY <1>2, <2>1 DEF e
<1> QED  BY <1>6, <1>7

(* get: the same entries in another order. *)
LEMMA TouchFacts ==
    ASSUME NEW S, NEW c \in Seq(S), OnceEach(c), Len(c) <= CacheSize, NEW k \in DOMAIN c
    PROVE  /\ Touch(c, k) \in Seq(S) /\ OnceEach(Touch(c, k)) /\ Len(Touch(c, k)) <= CacheSize
           /\ \A i \in DOMAIN Touch(c, k) : \E j \in DOMAIN c : Touch(c, k)[i] = c[j]
<1> DEFINE e == c[k]
           s == Append(Without(c, e.key), e)
<1>1. e \in S /\ Has(c, e.key) /\ Len(c) \in Nat
  BY DEF Has
<1>2. /\ s \in Seq(S) /\ OnceEach(s)
      /\ Len(s) = Len(Without(c, e.key)) + 1
      /\ \A i \in DOMAIN s : s[i] = e \/ (s[i].key # e.key /\ \E j \in DOMAIN c : s[i] = c[j])
  BY <1>1, AppendFacts
<1>3. Len(Without(c, e.key)) = Len(c) - 1
  BY <1>1, WithoutFacts
<1>4. Touch(c, k) = s
  BY DEF Touch
<1> HIDE DEF s
<1> QED  BY <1>1, <1>2, <1>3, <1>4

-----------------------------------------------------------------------------
(* The numbers ids and partitions are. *)
LEMMA IdFacts == Ids \subseteq Nat /\ 0 \notin Ids /\ NoKey \notin Keys
  BY StoreAssumption, FS_CardinalityType DEF Ids, NoKey

(* The first state satisfies the inductive invariant. *)
LEMMA IInvInit == Init => IInv
<1> SUFFICES ASSUME Init PROVE IInv
  OBVIOUS
<1> USE StoreAssumption DEF Init
<1>1. CacheTypes
  <2>1. \A S : << >> \in Seq(S)
    BY EmptySeq
  <2>2. Len(<< >>) = 0 /\ DOMAIN << >> = {}
    OBVIOUS
  <2> QED  BY <2>1, <2>2 DEF CacheTypes, OnceEach
<1>2. StoreTypes
  <2>1. Cardinality({}) = 0
    BY FS_EmptySet
  <2> QED  BY <2>1 DEF StoreTypes
<1>3. TableInv
  BY IdFacts DEF TableInv
<1>4. CacheInv /\ IdInv /\ RowInv /\ CallInv /\ QueryInv
  BY DEF CacheInv, IdInv, RowInv, CallInv, QueryInv
<1> QED  BY <1>1, <1>2, <1>3, <1>4 DEF IInv

(* Each step keeps both caches within their size, with a key once. *)
LEMMA CacheTypesStep == IInv /\ [Next]_vars => CacheTypes'
<1> SUFFICES ASSUME IInv, [Next]_vars PROVE CacheTypes'
  OBVIOUS
<1>0. CacheTypes /\ StoreTypes
  BY DEF IInv
<1>u. ASSUME UNCHANGED cacheVars PROVE CacheTypes'
  BY <1>0, <1>u DEF CacheTypes, cacheVars
<1>1. CASE ResolveCached
  <2>1. PICK i \in DOMAIN cache : cache' = Touch(cache, i) /\ idCache' = idCache
    BY <1>1 DEF ResolveCached
  <2> QED  BY <1>0, <2>1, TouchFacts DEF CacheTypes
<1>2. CASE ResolveFromTable
  <2> DEFINE k == Head(batch).key
  <2>1. k \in Keys
    <3>1. batch # << >>
      BY <1>2 DEF ResolveFromTable
    <3>2. Head(batch) \in [key : Keys, ts : Times]
      BY <1>0, <3>1, HeadTailProperties DEF StoreTypes
    <3> QED  BY <3>2
  <2>2. PICK sid \in Ids : cache' = Put(cache, k, sid) /\ idCache' = Put(idCache, sid, k)
    BY <1>2 DEF ResolveFromTable, Remembered
  <2> HIDE DEF k
  <2>3. /\ cache' \in Seq([key : Keys, val : Ids]) /\ OnceEach(cache') /\ Len(cache') <= CacheSize
    <3>1. EntryOf(k, sid) \in [key : Keys, val : Ids]
      BY <2>1 DEF EntryOf
    <3> QED  BY <1>0, <2>2, <3>1, PutFacts DEF CacheTypes
  <2>4. /\ idCache' \in Seq([key : Ids, val : Keys]) /\ OnceEach(idCache') /\ Len(idCache') <= CacheSize
    <3>1. EntryOf(sid, k) \in [key : Ids, val : Keys]
      BY <2>1 DEF EntryOf
    <3> QED  BY <1>0, <2>2, <3>1, PutFacts DEF CacheTypes
  <2> QED  BY <2>3, <2>4 DEF CacheTypes
<1>3. CASE GetSeriesMeta
  <2>1. cache' = cache
    BY <1>3 DEF GetSeriesMeta
  <2>2. ASSUME NEW i \in DOMAIN idCache, idCache' = Touch(idCache, i) PROVE CacheTypes'
    BY <1>0, <2>1, <2>2, TouchFacts DEF CacheTypes
  <2>3. ASSUME NEW sid \in Ids, series[sid] # NoKey, idCache' = Put(idCache, sid, series[sid])
        PROVE  CacheTypes'
    <3>1. series[sid] \in Keys
      BY <1>0, <2>3 DEF StoreTypes
    <3>2. /\ idCache' \in Seq([key : Ids, val : Keys]) /\ OnceEach(idCache') /\ Len(idCache') <= CacheSize
      <4>1. EntryOf(sid, series[sid]) \in [key : Ids, val : Keys]
        BY <3>1 DEF EntryOf
      <4> QED  BY <1>0, <2>3, <4>1, PutFacts DEF CacheTypes
    <3> QED  BY <1>0, <2>1, <3>2 DEF CacheTypes
  <2> QED  BY <1>3, <2>2, <2>3 DEF GetSeriesMeta
<1>4. CASE Restart
  <2>1. \A S : << >> \in Seq(S)
    BY EmptySeq
  <2>2. Len(<< >>) = 0 /\ DOMAIN << >> = {}
    OBVIOUS
  <2>3. cache' = << >> /\ idCache' = << >>
    BY <1>4 DEF Restart
  <2> QED  BY <2>1, <2>2, <2>3, StoreAssumption DEF CacheTypes, OnceEach
<1>5. CASE \/ Begin \/ Commit \/ RollBack \/ Invalidate \/ Drop \/ DropChanged
           \/ QueryList \/ Query \/ ListExpires \/ UNCHANGED vars
  <2>1. UNCHANGED cacheVars
    BY <1>5 DEF Begin, Commit, RollBack, Invalidate, Drop, DropChanged, QueryList, Query,
       QueryStore, QueryRead, QueryEnd, ListExpires, vars
  <2> QED  BY <1>u, <2>1
<1> QED  BY <1>1, <1>2, <1>3, <1>4, <1>5 DEF Next, Insert

(* resolve_series gives a row an id, from a cache or from the transaction's  *)
(* table, and the id is that of the row's series unless a transaction that   *)
(* created the series was rolled back.                                       *)
ResolvedRow(sid, item) == [sid |-> sid, ts |-> item.ts, n |-> calls, key |-> item.key]

ResolvesTo(sid, item) ==
    /\ wpc = "resolve" /\ batch # << >>
    /\ resolved' = Append(resolved, ResolvedRow(sid, item))
    /\ batch' = Tail(batch)
    /\ UNCHANGED <<tableVars, wpc, calls, rolledBack, list, dropVars, queryVars, restarts>>
    /\ \/ UNCHANGED <<tseries, tseq>>
       \/ /\ sid = tseq + 1 /\ \A i \in Ids : tseries[i] # item.key
          /\ tseries' = [tseries EXCEPT ![sid] = item.key] /\ tseq' = sid
    /\ item.key \notin rolledBack => tseries'[sid] = item.key

(* Both ways resolve_series takes do that. *)
LEMMA ResolveStep ==
    ASSUME IInv, ResolveCached \/ ResolveFromTable
    PROVE  \E sid \in Ids, item \in [key : Keys, ts : Times] : ResolvesTo(sid, item)
<1> DEFINE item == Head(batch)
<1>0. CacheTypes /\ StoreTypes /\ CacheInv
  BY DEF IInv
<1>1. wpc = "resolve" /\ batch # << >>
  BY DEF ResolveCached, ResolveFromTable
<1>2. item \in [key : Keys, ts : Times]
  BY <1>0, <1>1, HeadTailProperties DEF StoreTypes
<1>3. ASSUME NEW sid, Resolved(sid)
      PROVE  /\ resolved' = Append(resolved, ResolvedRow(sid, item))
             /\ batch' = Tail(batch)
             /\ UNCHANGED <<tableVars, wpc, calls, rolledBack, list, dropVars, queryVars, restarts>>
  BY <1>3 DEF Resolved, ResolvedRow
<1>4. CASE ResolveCached
  <2>1. PICK i \in DOMAIN cache : cache[i].key = item.key /\ Resolved(cache[i].val)
    BY <1>4 DEF ResolveCached
  <2> DEFINE sid == cache[i].val
  <2>2. sid \in Ids
    <3>1. cache[i] \in [key : Keys, val : Ids]
      BY <1>0, LenProperties DEF CacheTypes
    <3> QED  BY <3>1
  <2>3. UNCHANGED <<tseries, tseq>>
    BY <1>4 DEF ResolveCached
  <2>4. item.key \notin rolledBack => tseries[sid] = item.key
    BY <1>0, <2>1 DEF CacheInv
  <2> HIDE DEF item
  <2>5. ResolvesTo(sid, item)
    BY <1>1, <1>3, <2>1, <2>3, <2>4 DEF ResolvesTo
  <2> QED  BY <1>2, <2>2, <2>5
<1>5. CASE ResolveFromTable
  <2>1. PICK sid \in Ids :
            /\ Resolved(sid)
            /\ \/ tseries[sid] = item.key /\ UNCHANGED <<tseries, tseq>>
               \/ /\ \A i \in Ids : tseries[i] # item.key
                  /\ sid = tseq + 1
                  /\ tseries' = [tseries EXCEPT ![sid] = item.key] /\ tseq' = sid
    BY <1>5 DEF ResolveFromTable, NewId
  <2>2. tseries'[sid] = item.key
    BY <1>0, <2>1 DEF StoreTypes
  <2> HIDE DEF item
  <2>3. ResolvesTo(sid, item)
    BY <1>1, <1>3, <2>1, <2>2 DEF ResolvesTo
  <2> QED  BY <1>2, <2>3
<1> QED  BY <1>4, <1>5

(* A resolved row and the rows before it. *)
LEMMA ResolvedFacts ==
    ASSUME StoreTypes, NEW sid \in Ids, NEW item \in [key : Keys, ts : Times],
           ResolvesTo(sid, item)
    PROVE  /\ resolved' \in Seq(Row)
           /\ \A i \in DOMAIN resolved' : \/ i \in DOMAIN resolved /\ resolved'[i] = resolved[i]
                                          \/ resolved'[i] = ResolvedRow(sid, item)
<1>1. ResolvedRow(sid, item) \in Row
  BY StoreAssumption DEF ResolvedRow, Row, ResolvesTo, StoreTypes
<1>2. resolved \in Seq(Row) /\ resolved' = Append(resolved, ResolvedRow(sid, item))
  BY DEF ResolvesTo, StoreTypes
<1> DEFINE e == ResolvedRow(sid, item)
<1> HIDE DEF e
<1>3. e \in Row /\ resolved' = Append(resolved, e)
  BY <1>1, <1>2 DEF e
<1>4. /\ resolved' \in Seq(Row) /\ Len(resolved') = Len(resolved) + 1 /\ Len(resolved) \in Nat
      /\ DOMAIN resolved = 1..Len(resolved) /\ DOMAIN resolved' = 1..(Len(resolved) + 1)
      /\ \A i \in 1..Len(resolved) : resolved'[i] = resolved[i]
      /\ resolved'[Len(resolved) + 1] = e
  BY <1>2, <1>3, AppendProperties, LenProperties
<1> QED  BY <1>4 DEF e

(* Each step keeps the other types. *)
LEMMA StoreTypesStep == IInv /\ [Next]_vars => StoreTypes'
<1> SUFFICES ASSUME IInv, [Next]_vars PROVE StoreTypes'
  OBVIOUS
<1> USE StoreAssumption
<1>0. StoreTypes
  BY DEF IInv
<1>e. /\ << >> \in Seq([key : Keys, ts : Times]) /\ << >> \in Seq(Row)
      /\ Cardinality({}) <= 1 /\ \A l : Cardinality({l}) <= 1
  <2>1. Cardinality({}) = 0 /\ \A l : Cardinality({l}) = 1
    BY FS_EmptySet, FS_Singleton
  <2>2. \A S : << >> \in Seq(S)
    BY EmptySeq
  <2>3. Cardinality({}) <= 1 /\ \A l : Cardinality({l}) <= 1
    BY <2>1
  <2> QED  BY <2>2, <2>3
<1>1. CASE Begin
  <2>1. PICK len \in 1..MaxBatch : batch' \in [1..len -> [key : Keys, ts : Times]]
    BY <1>1 DEF Begin
  <2>2. batch' \in Seq([key : Keys, ts : Times])
    <3>1. len \in Nat
      OBVIOUS
    <3> QED  BY <2>1, <3>1, SeqDef
  <2>3. calls' \in 0..MaxCalls /\ calls' # 0
    BY <1>0, <1>1 DEF Begin, StoreTypes
  <2> QED  BY <1>0, <1>1, <1>e, <2>2, <2>3 DEF Begin, StoreTypes, tableVars, dropVars, queryVars
<1>2. CASE ResolveCached \/ ResolveFromTable
  <2>1. PICK sid \in Ids, item \in [key : Keys, ts : Times] : ResolvesTo(sid, item)
    BY <1>2, ResolveStep
  <2>2. batch' \in Seq([key : Keys, ts : Times])
    BY <1>0, <2>1, HeadTailProperties DEF ResolvesTo, StoreTypes
  <2>3. resolved' \in Seq(Row)
    BY <1>0, <2>1, ResolvedFacts
  <2>4. tseries' \in [Ids -> Keys \cup {NoKey}] /\ tseq' \in {0} \cup Ids
    BY <1>0, <2>1 DEF ResolvesTo, StoreTypes
  <2> QED  BY <1>0, <2>1, <2>2, <2>3, <2>4 DEF ResolvesTo, StoreTypes, tableVars, dropVars, queryVars
<1>3. CASE Commit
  <2>1. \A i \in DOMAIN resolved : resolved[i] \in Row
    BY <1>0, LenProperties DEF StoreTypes
  <2>2. \A i \in DOMAIN resolved : Part(resolved[i].ts) \in Parts
    BY <2>1 DEF Row, Parts
  <2>3. rows' \in SUBSET Row /\ parts' \in SUBSET Parts
    BY <1>0, <1>3, <2>1, <2>2 DEF Commit, StoreTypes
  <2> QED  BY <1>0, <1>3, <1>e, <2>3 DEF Commit, StoreTypes, dropVars, queryVars
<1>4. CASE RollBack
  <2>1. Created \subseteq Keys
    BY <1>0, IdFacts DEF Created, StoreTypes, IInv, TableInv
  <2> QED  BY <1>0, <1>4, <1>e, <2>1 DEF RollBack, StoreTypes, tableVars, dropVars, queryVars
<1>5. CASE Invalidate
  BY <1>0, <1>5, <1>e DEF Invalidate, StoreTypes, tableVars, dropVars, queryVars
<1>6. CASE GetSeriesMeta
  BY <1>0, <1>6 DEF GetSeriesMeta, StoreTypes, tableVars, insertVars, dropVars, queryVars
<1>7. CASE Drop
  BY <1>0, <1>7 DEF Drop, StoreTypes, insertVars, queryVars
<1>8. CASE DropChanged
  BY <1>0, <1>8, <1>e DEF DropChanged, StoreTypes, tableVars, insertVars, queryVars
<1>9. CASE QueryList
  <2>1. qlist' \in SUBSET Parts /\ qpc' \in {"store", "read"}
    BY <1>0, <1>9 DEF QueryList, StoreTypes
  <2> QED  BY <1>0, <1>9, <2>1 DEF QueryList, StoreTypes, tableVars, insertVars, dropVars
<1>10. CASE QueryStore
  BY <1>0, <1>10, <1>e DEF QueryStore, StoreTypes, tableVars, insertVars, dropVars
<1>11. CASE QueryRead
  <2>1. list' \in {list, {}} /\ qlist' \subseteq qlist
    BY <1>11 DEF QueryRead, AfterSkip
  <2>2. qres' \subseteq qres \cup rows
    BY <1>11 DEF QueryRead
  <2> QED  BY <1>0, <1>11, <1>e, <2>1, <2>2 DEF QueryRead, StoreTypes, tableVars, insertVars, dropVars
<1>12. CASE QueryEnd
  BY <1>0, <1>12 DEF QueryEnd, StoreTypes, tableVars, insertVars, dropVars
<1>13. CASE ListExpires
  BY <1>0, <1>13, <1>e DEF ListExpires, StoreTypes, tableVars, insertVars, dropVars, queryVars
<1>14. CASE Restart
  BY <1>0, <1>14, <1>e DEF Restart, StoreTypes, tableVars
<1>15. CASE UNCHANGED vars
  BY <1>0, <1>15 DEF vars, StoreTypes, tableVars, insertVars, dropVars, queryVars
<1> QED  BY <1>1, <1>2, <1>3, <1>4, <1>5, <1>6, <1>7, <1>8, <1>9, <1>10, <1>11, <1>12, <1>13,
            <1>14, <1>15 DEF Next, Insert, Query

(* Which steps leave the series tables, the resolved rows and the write's    *)
(* step alone.                                                               *)
Elsewhere ==
    \/ GetSeriesMeta \/ Drop \/ DropChanged \/ QueryList \/ Query \/ ListExpires \/ UNCHANGED vars

(* That is so. *)
LEMMA ElsewhereFacts ==
    ASSUME Elsewhere
    PROVE  UNCHANGED <<series, seq, tseries, tseq, wpc, resolved, rolledBack, calls, cache>>
  BY DEF Elsewhere, GetSeriesMeta, Drop, DropChanged, QueryList, Query, QueryStore, QueryRead,
     QueryEnd, ListExpires, vars, insertVars, tableVars, cacheVars

(* The committed series table has each key once too. *)
LEMMA SeriesUnique ==
    ASSUME TableInv
    PROVE  /\ \A i, j \in Ids : series[i] = series[j] /\ series[i] # NoKey => i = j
           /\ \A i, j \in Ids : tseries[i] = series[j] /\ series[j] # NoKey => i = j
  BY DEF TableInv

(* A new series row gets an id no row has; a failure takes back the new rows. *)
LEMMA TableStep == IInv /\ [Next]_vars => TableInv'
<1> SUFFICES ASSUME IInv, [Next]_vars PROVE TableInv'
  OBVIOUS
<1>0. StoreTypes /\ TableInv
  BY DEF IInv
<1>r. ASSUME tseries' = series, tseq' = seq, UNCHANGED <<series, seq>> PROVE TableInv'
  BY <1>0, <1>r, SeriesUnique DEF TableInv
<1>1. CASE Begin \/ RollBack \/ Restart
  BY <1>1, <1>r DEF Begin, RollBack, Restart, tableVars
<1>2. CASE ResolveCached \/ ResolveFromTable
  <2>1. PICK sid \in Ids, item \in [key : Keys, ts : Times] : ResolvesTo(sid, item)
    BY <1>2, ResolveStep
  <2>2. UNCHANGED <<series, seq, wpc>> /\ wpc = "resolve"
    BY <2>1 DEF ResolvesTo, tableVars
  <2>3. CASE UNCHANGED <<tseries, tseq>>
    BY <1>0, <2>2, <2>3 DEF TableInv
  <2>4. CASE /\ sid = tseq + 1 /\ \A i \in Ids : tseries[i] # item.key
             /\ tseries' = [tseries EXCEPT ![sid] = item.key] /\ tseq' = sid
    <3>1. tseries[sid] = NoKey /\ series[sid] = NoKey
      BY <1>0, <2>4, IdFacts DEF TableInv, StoreTypes
    <3>2. tseries'[sid] = item.key /\ \A i \in Ids : i # sid => tseries'[i] = tseries[i]
      BY <1>0, <2>4 DEF StoreTypes
    <3>3. \A i \in Ids : i > tseq' => i > tseq /\ i # sid
      BY <1>0, <2>4, IdFacts DEF StoreTypes
    <3>4. \A i, j \in Ids : tseries'[i] = tseries'[j] /\ tseries'[i] # NoKey => i = j
      BY <1>0, <2>4, <3>2 DEF TableInv
    <3>5. \A i \in Ids : (series[i] # NoKey => tseries'[i] = series[i])
                        /\ (i > seq => series[i] = NoKey) /\ (i > tseq' => tseries'[i] = NoKey)
      BY <1>0, <3>1, <3>2, <3>3 DEF TableInv
    <3> QED  BY <2>2, <3>4, <3>5 DEF TableInv
  <2> QED  BY <2>1, <2>3, <2>4 DEF ResolvesTo
<1>3. CASE Commit
  BY <1>0, <1>3 DEF Commit, TableInv
<1>4. CASE Invalidate
  BY <1>0, <1>4 DEF Invalidate, TableInv, tableVars
<1>5. CASE Elsewhere
  BY <1>0, <1>5, ElsewhereFacts DEF TableInv
<1> QED  BY <1>1, <1>2, <1>3, <1>4, <1>5 DEF Next, Insert, Elsewhere

(* The series cache stays true to the transaction's table, phantoms apart. *)
LEMMA CacheStep == IInv /\ [Next]_vars => CacheInv'
<1> SUFFICES ASSUME IInv, [Next]_vars PROVE CacheInv'
  OBVIOUS
<1>0. StoreTypes /\ CacheTypes /\ TableInv /\ CacheInv
  BY DEF IInv
(* An entry of a cache that is as it was, and the tables too. *)
<1>k. \A i \in DOMAIN cache : cache[i] \in [key : Keys, val : Ids] /\ cache[i].key # NoKey
  <2> TAKE i \in DOMAIN cache
  <2>1. cache[i] \in [key : Keys, val : Ids]
    BY <1>0, LenProperties DEF CacheTypes
  <2> QED  BY <2>1, IdFacts
<1>u. ASSUME \A i \in DOMAIN cache' : \E j \in DOMAIN cache : cache'[i] = cache[j],
             UNCHANGED <<tseries, rolledBack>>
      PROVE  CacheInv'
  BY <1>0, <1>u DEF CacheInv
<1>1. CASE ResolveCached
  <2>1. PICK i \in DOMAIN cache : cache' = Touch(cache, i)
    BY <1>1 DEF ResolveCached
  <2>2. \A j \in DOMAIN cache' : \E l \in DOMAIN cache : cache'[j] = cache[l]
    BY <1>0, <2>1, TouchFacts DEF CacheTypes
  <2>3. UNCHANGED <<tseries, rolledBack>>
    BY <1>1 DEF ResolveCached, Resolved
  <2> QED  BY <1>u, <2>2, <2>3
<1>2. CASE ResolveFromTable
  <2> DEFINE k == Head(batch).key
  <2>1. k \in Keys
    <3>1. batch # << >>
      BY <1>2 DEF ResolveFromTable
    <3>2. Head(batch) \in [key : Keys, ts : Times]
      BY <1>0, <3>1, HeadTailProperties DEF StoreTypes
    <3> QED  BY <3>2
  <2>2. PICK sid \in Ids :
            /\ cache' = Put(cache, k, sid) /\ UNCHANGED rolledBack
            /\ \/ tseries[sid] = k /\ UNCHANGED tseries
               \/ /\ \A i \in Ids : tseries[i] # k
                  /\ sid = tseq + 1 /\ tseries' = [tseries EXCEPT ![sid] = k]
    BY <1>2 DEF ResolveFromTable, NewId, Resolved
  <2> HIDE DEF k
  <2>3. \A i \in DOMAIN cache' :
            \/ cache'[i] = EntryOf(k, sid)
            \/ cache'[i].key # k /\ \E j \in DOMAIN cache : cache'[i] = cache[j]
    <3> DEFINE S == [key : Keys, val : Ids]
    <3>1. /\ cache \in Seq(S) /\ OnceEach(cache) /\ Len(cache) <= CacheSize
          /\ EntryOf(k, sid) \in S
      BY <1>0, <2>1 DEF CacheTypes, EntryOf
    <3>2. \A i \in DOMAIN Put(cache, k, sid) :
             \/ Put(cache, k, sid)[i] = EntryOf(k, sid)
             \/ Put(cache, k, sid)[i].key # k /\ \E j \in DOMAIN cache : Put(cache, k, sid)[i] = cache[j]
      <4> HIDE DEF S
      <4> QED  BY <3>1, PutFacts
    <3> QED  BY <2>2, <3>2
  <2>4. /\ tseries'[sid] = k
        /\ \A i \in Ids : tseries'[i] = tseries[i] \/ (i = sid /\ tseries[i] = NoKey)
    <3>1. sid = tseq + 1 => tseries[sid] = NoKey
      BY <1>0, IdFacts DEF TableInv, StoreTypes
    <3> QED  BY <1>0, <2>2, <3>1 DEF StoreTypes
  <2> SUFFICES ASSUME NEW i \in DOMAIN cache'
               PROVE  /\ (\E s \in Ids : tseries'[s] = cache'[i].key) => tseries'[cache'[i].val] = cache'[i].key
                      /\ cache'[i].key \notin rolledBack' => \E s \in Ids : tseries'[s] = cache'[i].key
    BY DEF CacheInv
  <2>5. CASE cache'[i] = EntryOf(k, sid)
    BY <2>4, <2>5 DEF EntryOf
  <2>6. CASE cache'[i].key # k /\ \E j \in DOMAIN cache : cache'[i] = cache[j]
    <3>1. PICK j \in DOMAIN cache : cache'[i] = cache[j] /\ cache[j].key # k
      BY <2>6
    <3>2. cache[j].val \in Ids /\ cache[j].key # NoKey
      BY <1>k
    <3>3. \A s \in Ids : tseries'[s] = cache[j].key => tseries[s] = cache[j].key
      BY <2>4, <3>1
    <3>4. \A s \in Ids : tseries[s] = cache[j].key => tseries'[s] = cache[j].key
      BY <2>4, <3>2
    <3> QED  BY <1>0, <2>2, <3>1, <3>2, <3>3, <3>4 DEF CacheInv
  <2> QED  BY <2>3, <2>5, <2>6
<1>3. CASE RollBack
  <2>1. /\ cache' = cache /\ tseries' = series /\ rolledBack' = rolledBack \cup Created
    BY <1>3 DEF RollBack, cacheVars
  <2> SUFFICES ASSUME NEW i \in DOMAIN cache
               PROVE  /\ (\E s \in Ids : series[s] = cache[i].key) => series[cache[i].val] = cache[i].key
                      /\ cache[i].key \notin rolledBack' => \E s \in Ids : series[s] = cache[i].key
    BY <2>1 DEF CacheInv
  <2>2. cache[i].val \in Ids /\ cache[i].key # NoKey
    BY <1>k
  <2>3. ASSUME NEW s \in Ids, series[s] = cache[i].key PROVE series[cache[i].val] = cache[i].key
    <3>1. tseries[s] = cache[i].key
      BY <1>0, <2>2, <2>3 DEF TableInv
    <3>2. tseries[cache[i].val] = cache[i].key
      BY <1>0, <3>1 DEF CacheInv
    <3>3. s = cache[i].val
      BY <1>0, <2>2, <3>1, <3>2 DEF TableInv
    <3> QED  BY <2>3, <3>3
  <2>4. ASSUME cache[i].key \notin rolledBack' PROVE \E s \in Ids : series[s] = cache[i].key
    <3>1. PICK s \in Ids : tseries[s] = cache[i].key
      BY <1>0, <2>1, <2>4 DEF CacheInv
    <3>2. series[s] = tseries[s]
      BY <2>1, <2>4, <3>1 DEF Created
    <3> QED  BY <3>1, <3>2
  <2> QED  BY <2>3, <2>4
<1>4. CASE Begin
  <2>1. tseries' = tseries /\ UNCHANGED <<cache, rolledBack>>
    BY <1>0, <1>4 DEF Begin, TableInv, cacheVars
  <2> QED  BY <1>u, <2>1
<1>5. CASE Commit \/ Invalidate
  BY <1>5, <1>u DEF Commit, Invalidate, cacheVars
<1>6. CASE Restart
  <2>1. DOMAIN cache' = {}
    BY <1>6 DEF Restart
  <2> QED  BY <2>1 DEF CacheInv
<1>7. CASE Elsewhere
  BY <1>7, <1>u, ElsewhereFacts
<1> QED  BY <1>1, <1>2, <1>3, <1>4, <1>5, <1>6, <1>7 DEF Next, Insert, Elsewhere

(* The entry of an id after put, and those of other ids. *)
LEMMA IdPutFacts ==
    ASSUME CacheTypes, NEW sid \in Ids, NEW k \in Keys, idCache' = Put(idCache, sid, k)
    PROVE  \A i \in DOMAIN idCache' :
             \/ idCache'[i].key = sid /\ idCache'[i].val = k
             \/ idCache'[i].key # sid /\ \E j \in DOMAIN idCache : idCache'[i] = idCache[j]
<1> DEFINE S == [key : Ids, val : Keys]
<1>1. /\ idCache \in Seq(S) /\ OnceEach(idCache) /\ Len(idCache) <= CacheSize
      /\ EntryOf(sid, k) \in S /\ EntryOf(sid, k).key = sid /\ EntryOf(sid, k).val = k
  BY DEF CacheTypes, EntryOf
<1> HIDE DEF S
<1>2. \A i \in DOMAIN Put(idCache, sid, k) :
         \/ Put(idCache, sid, k)[i] = EntryOf(sid, k)
         \/ /\ Put(idCache, sid, k)[i].key # sid
            /\ \E j \in DOMAIN idCache : Put(idCache, sid, k)[i] = idCache[j]
  BY <1>1, PutFacts
<1> QED  BY <1>1, <1>2

(* The id cache never contradicts it: a reused id overwrites its phantom. *)
LEMMA IdStep == IInv /\ [Next]_vars => IdInv'
<1> SUFFICES ASSUME IInv, [Next]_vars PROVE IdInv'
  OBVIOUS
<1>0. StoreTypes /\ CacheTypes /\ TableInv /\ IdInv
  BY DEF IInv
<1>k. \A i \in DOMAIN idCache : idCache[i].key \in Ids
  <2> TAKE i \in DOMAIN idCache
  <2>1. idCache[i] \in [key : Ids, val : Keys]
    BY <1>0, LenProperties DEF CacheTypes
  <2> QED  BY <2>1
<1>u. ASSUME \A i \in DOMAIN idCache' : \E j \in DOMAIN idCache : idCache'[i] = idCache[j],
             \A s \in Ids : tseries'[s] \in {NoKey, tseries[s]}
      PROVE  IdInv'
  BY <1>0, <1>k, <1>u DEF IdInv
<1>v. ASSUME UNCHANGED <<idCache, tseries>> PROVE IdInv'
  BY <1>0, <1>v DEF IdInv
<1>1. CASE ResolveFromTable
  <2> DEFINE k == Head(batch).key
  <2>1. k \in Keys
    <3>1. batch # << >>
      BY <1>1 DEF ResolveFromTable
    <3>2. Head(batch) \in [key : Keys, ts : Times]
      BY <1>0, <3>1, HeadTailProperties DEF StoreTypes
    <3> QED  BY <3>2
  <2>2. PICK sid \in Ids :
            /\ idCache' = Put(idCache, sid, k)
            /\ \/ tseries[sid] = k /\ UNCHANGED tseries
               \/ tseries' = [tseries EXCEPT ![sid] = k]
    BY <1>1 DEF ResolveFromTable, Remembered
  <2> HIDE DEF k
  <2>3. \A i \in DOMAIN idCache' :
           \/ idCache'[i].key = sid /\ idCache'[i].val = k
           \/ idCache'[i].key # sid /\ \E j \in DOMAIN idCache : idCache'[i] = idCache[j]
    BY <1>0, <2>1, <2>2, IdPutFacts
  <2>4. tseries'[sid] = k /\ \A s \in Ids : s # sid => tseries'[s] = tseries[s]
    BY <1>0, <2>2 DEF StoreTypes
  <2> QED  BY <1>0, <1>k, <2>3, <2>4 DEF IdInv
<1>2. CASE GetSeriesMeta
  <2>1. tseries' = tseries
    BY <1>2 DEF GetSeriesMeta, insertVars
  <2>2. ASSUME NEW i \in DOMAIN idCache, idCache' = Touch(idCache, i) PROVE IdInv'
    <3>1. \A j \in DOMAIN idCache' : \E l \in DOMAIN idCache : idCache'[j] = idCache[l]
      BY <1>0, <2>2, TouchFacts DEF CacheTypes
    <3> QED  BY <1>u, <2>1, <3>1
  <2>3. ASSUME NEW sid \in Ids, series[sid] # NoKey, idCache' = Put(idCache, sid, series[sid])
        PROVE  IdInv'
    <3>1. series[sid] \in Keys /\ tseries[sid] = series[sid]
      BY <1>0, <2>3 DEF StoreTypes, TableInv
    <3>2. \A i \in DOMAIN idCache' :
             \/ idCache'[i].key = sid /\ idCache'[i].val = series[sid]
             \/ idCache'[i].key # sid /\ \E j \in DOMAIN idCache : idCache'[i] = idCache[j]
      BY <1>0, <2>3, <3>1, IdPutFacts
    <3> QED  BY <1>0, <2>1, <3>1, <3>2 DEF IdInv
  <2> QED  BY <1>2, <2>2, <2>3 DEF GetSeriesMeta
<1>3. CASE RollBack
  <2>1. tseries' = series /\ idCache' = idCache
    BY <1>3 DEF RollBack, cacheVars
  <2> QED  BY <1>0, <1>k, <2>1 DEF IdInv, TableInv
<1>4. CASE Restart
  <2>1. DOMAIN idCache' = {}
    BY <1>4 DEF Restart
  <2> QED  BY <2>1 DEF IdInv
<1>5. CASE Begin
  BY <1>0, <1>5, <1>v DEF Begin, TableInv, cacheVars
<1>6. CASE ResolveCached \/ Commit \/ Invalidate
  BY <1>6, <1>v DEF ResolveCached, Commit, Invalidate, cacheVars
<1>7. CASE \/ Drop \/ DropChanged \/ QueryList \/ Query \/ ListExpires \/ UNCHANGED vars
  <2>1. UNCHANGED <<idCache, tseries>>
    BY <1>7 DEF Drop, DropChanged, QueryList, Query, QueryStore, QueryRead, QueryEnd, ListExpires,
       vars, insertVars, cacheVars
  <2> QED  BY <1>v, <2>1
<1> QED  BY <1>1, <1>2, <1>3, <1>4, <1>5, <1>6, <1>7 DEF Next, Insert

(* The resolved rows of a call that begins. *)
LEMMA EmptyDomain == DOMAIN << >> = {}
  OBVIOUS

(* Rows carry the id of their series, from resolve_series to the table. *)
LEMMA RowStep == IInv /\ [Next]_vars => RowInv'
<1> SUFFICES ASSUME IInv, [Next]_vars PROVE RowInv'
  OBVIOUS
<1>0. StoreTypes /\ TableInv /\ RowInv
  BY DEF IInv
<1>r. \A r \in rows : r.sid \in Ids /\ r.key \in Keys /\ r.key # NoKey
  <2> TAKE r \in rows
  <2>1. r \in Row
    BY <1>0 DEF StoreTypes
  <2> QED  BY <2>1, IdFacts DEF Row
<1>s. \A i \in DOMAIN resolved :
         resolved[i].sid \in Ids /\ resolved[i].key \in Keys /\ resolved[i].key # NoKey
  <2> TAKE i \in DOMAIN resolved
  <2>1. resolved[i] \in Row
    BY <1>0, LenProperties DEF StoreTypes
  <2> QED  BY <2>1, IdFacts DEF Row
<1>1. CASE ResolveCached \/ ResolveFromTable
  <2>1. PICK sid \in Ids, item \in [key : Keys, ts : Times] : ResolvesTo(sid, item)
    BY <1>1, ResolveStep
  <2>2. UNCHANGED <<rows, series, rolledBack>>
    BY <2>1 DEF ResolvesTo, tableVars
  <2>3. ASSUME NEW i \in Ids, tseries[i] # NoKey PROVE tseries'[i] = tseries[i]
    <3>1. CASE UNCHANGED tseries
      BY <3>1
    <3>2. CASE sid = tseq + 1 /\ tseries' = [tseries EXCEPT ![sid] = item.key]
      <4>1. tseries[sid] = NoKey
        BY <1>0, <3>2, IdFacts DEF TableInv, StoreTypes
      <4> QED  BY <1>0, <2>3, <3>2, <4>1 DEF StoreTypes
    <3> QED  BY <2>1, <3>1, <3>2 DEF ResolvesTo
  <2>4. \A i \in DOMAIN resolved' :
           (i \in DOMAIN resolved /\ resolved'[i] = resolved[i]) \/ resolved'[i] = ResolvedRow(sid, item)
    BY <1>0, <2>1, ResolvedFacts
  <2>5. /\ ResolvedRow(sid, item).sid = sid /\ ResolvedRow(sid, item).key = item.key
        /\ item.key \notin rolledBack => tseries'[sid] = item.key
    BY <2>1 DEF ResolvedRow, ResolvesTo
  <2>6. ASSUME NEW i \in DOMAIN resolved', resolved'[i].key \notin rolledBack
        PROVE  tseries'[resolved'[i].sid] = resolved'[i].key
    <3>1. CASE i \in DOMAIN resolved /\ resolved'[i] = resolved[i]
      BY <1>0, <1>s, <2>3, <2>6, <3>1 DEF RowInv
    <3>2. CASE resolved'[i] = ResolvedRow(sid, item)
      BY <2>5, <2>6, <3>2
    <3> QED  BY <2>4, <3>1, <3>2
  <2> QED  BY <1>0, <2>2, <2>6 DEF RowInv
<1>2. CASE Commit
  <2>1. /\ series' = tseries /\ rows' = rows \cup {resolved[i] : i \in DOMAIN resolved}
        /\ resolved' = << >> /\ rolledBack' = rolledBack
    BY <1>2 DEF Commit
  <2>2. ASSUME NEW r \in rows, r.key \notin rolledBack PROVE tseries[r.sid] = r.key
    <3>1. series[r.sid] = r.key
      BY <1>0, <2>2 DEF RowInv
    <3> QED  BY <1>0, <1>r, <3>1 DEF TableInv
  <2> QED  BY <1>0, <2>1, <2>2, EmptyDomain DEF RowInv
<1>3. CASE Begin \/ RollBack \/ Restart
  <2>1. /\ resolved' = << >> /\ UNCHANGED <<rows, series>> /\ rolledBack \subseteq rolledBack'
    BY <1>3 DEF Begin, RollBack, Restart, tableVars
  <2> QED  BY <1>0, <2>1, EmptyDomain DEF RowInv
<1>4. CASE Invalidate
  BY <1>0, <1>4 DEF Invalidate, RowInv, tableVars
<1>5. CASE Elsewhere
  <2>1. rows' \subseteq rows
    BY <1>5 DEF Elsewhere, GetSeriesMeta, Drop, DropChanged, QueryList, Query, QueryStore,
       QueryRead, QueryEnd, ListExpires, vars, tableVars
  <2> QED  BY <1>0, <1>5, <2>1, ElsewhereFacts DEF RowInv
<1> QED  BY <1>1, <1>2, <1>3, <1>4, <1>5 DEF Next, Insert, Elsewhere

(* A call's rows are new, so no query owes them yet. *)
LEMMA CallStep == IInv /\ [Next]_vars => CallInv'
<1> SUFFICES ASSUME IInv, [Next]_vars PROVE CallInv'
  OBVIOUS
<1>0. StoreTypes /\ CallInv
  BY DEF IInv
<1>n. /\ calls \in Nat
      /\ \A r \in rows \cup qowed : r.n \in Nat
  <2>1. \A r \in rows \cup qowed : r \in Row
    BY <1>0 DEF StoreTypes
  <2> QED  BY <1>0, <2>1, StoreAssumption DEF StoreTypes, Row
<1>1. CASE Begin
  <2>1. /\ calls' = calls + 1 /\ resolved' = << >> /\ UNCHANGED <<rows, parts, qowed>>
    BY <1>1 DEF Begin, tableVars, queryVars
  <2>2. \A r \in rows \cup qowed : r.n <= calls + 1 /\ r.n < calls + 1
    BY <1>0, <1>n DEF CallInv
  <2> QED  BY <1>0, <2>1, <2>2, EmptyDomain DEF CallInv
<1>2. CASE ResolveCached \/ ResolveFromTable
  <2>1. PICK sid \in Ids, item \in [key : Keys, ts : Times] : ResolvesTo(sid, item)
    BY <1>2, ResolveStep
  <2>2. UNCHANGED <<rows, parts, qowed, wpc, calls>>
    BY <2>1 DEF ResolvesTo, tableVars, queryVars
  <2>3. \A i \in DOMAIN resolved' :
           (i \in DOMAIN resolved /\ resolved'[i] = resolved[i]) \/ resolved'[i] = ResolvedRow(sid, item)
    BY <1>0, <2>1, ResolvedFacts
  <2>4. ResolvedRow(sid, item).n = calls
    BY DEF ResolvedRow
  <2> QED  BY <1>0, <2>2, <2>3, <2>4 DEF CallInv
<1>3. CASE Commit
  <2>1. /\ rows' = rows \cup {resolved[i] : i \in DOMAIN resolved}
        /\ parts' = parts \cup {Part(resolved[i].ts) : i \in DOMAIN resolved}
        /\ resolved' = << >> /\ wpc' = "invalidate" /\ UNCHANGED <<calls, qowed>>
    BY <1>3 DEF Commit, queryVars
  <2>2. \A r \in rows' \cup qowed : r.n <= calls
    BY <1>0, <1>n, <2>1 DEF CallInv
  <2>3. \A r \in rows' : Part(r.ts) \in parts'
    BY <1>0, <2>1 DEF CallInv
  <2> QED  BY <2>1, <2>2, <2>3, EmptyDomain DEF CallInv
<1>4. CASE RollBack \/ Restart
  <2>1. /\ resolved' = << >> /\ wpc' = "idle" /\ UNCHANGED <<calls, rows, parts>>
        /\ qowed' \in {qowed, {}}
    BY <1>4 DEF RollBack, Restart, tableVars, queryVars
  <2> QED  BY <1>0, <2>1, EmptyDomain DEF CallInv
<1>5. CASE Invalidate
  BY <1>0, <1>5 DEF Invalidate, CallInv, tableVars, queryVars
<1>6. CASE Drop
  BY <1>0, <1>6 DEF Drop, CallInv, insertVars, queryVars
<1>7. CASE \/ GetSeriesMeta \/ DropChanged \/ QueryList \/ Query \/ ListExpires \/ UNCHANGED vars
  <2>1. UNCHANGED <<rows, parts>> /\ qowed' \subseteq rows \cup qowed
    BY <1>7 DEF GetSeriesMeta, DropChanged, QueryList, Query, QueryStore, QueryRead, QueryEnd,
       ListExpires, vars, tableVars, queryVars
  <2>2. UNCHANGED <<wpc, resolved, calls>>
    BY <1>7, ElsewhereFacts DEF Elsewhere
  <2> QED  BY <1>0, <2>1, <2>2 DEF CallInv
<1> QED  BY <1>1, <1>2, <1>3, <1>4, <1>5, <1>6, <1>7 DEF Next, Insert

(* What a query owes and has not yielded is in a partition it still reads. *)
LEMMA QueryInvStep == IInv /\ [Next]_vars => QueryInv'
<1> SUFFICES ASSUME IInv, [Next]_vars PROVE QueryInv'
  OBVIOUS
<1>0. StoreTypes /\ CallInv /\ QueryInv
  BY DEF IInv
<1>u. ASSUME UNCHANGED <<qpc, qowed, qlist, qres>>, qowed \cap rows' \subseteq qowed \cap rows
      PROVE  QueryInv'
  BY <1>0, <1>u DEF QueryInv
<1>1. CASE Commit
  <2>1. /\ rows' = rows \cup {resolved[i] : i \in DOMAIN resolved} /\ wpc = "resolve"
        /\ UNCHANGED <<qpc, qowed, qlist, qres>>
    BY <1>1 DEF Commit, queryVars
  <2>2. ASSUME NEW i \in DOMAIN resolved PROVE resolved[i] \notin qowed
    <3>1. \A r \in qowed : r.n < calls
      BY <1>0, <2>1 DEF CallInv
    <3>2. resolved[i].n = calls /\ calls \in Nat
      BY <1>0, StoreAssumption DEF CallInv, StoreTypes
    <3> QED  BY <3>1, <3>2
  <2> QED  BY <1>u, <2>1, <2>2
<1>2. CASE Drop
  BY <1>2, <1>u DEF Drop, queryVars
<1>3. CASE QueryList
  BY <1>3 DEF QueryList, QueryInv
<1>4. CASE QueryStore
  BY <1>0, <1>4 DEF QueryStore, QueryInv, tableVars
<1>5. CASE QueryRead
  <2>1. UNCHANGED <<qpc, qowed, rows>> /\ qpc = "read"
    BY <1>5 DEF QueryRead, tableVars
  <2>2. PICK p \in qlist :
            /\ qlist' = qlist \ {p}
            /\ \/ qres' = qres \cup {r \in rows : Part(r.ts) = p}
               \/ p \notin parts /\ qres' = qres
    BY <1>5 DEF QueryRead, AfterSkip
  <2>3. \A r \in rows : Part(r.ts) \in parts
    BY <1>0 DEF CallInv
  <2>4. \A r \in qowed \cap rows : r \in qres' \/ Part(r.ts) \in qlist'
    BY <1>0, <2>1, <2>2, <2>3 DEF QueryInv
  <2> QED  BY <2>1, <2>4 DEF QueryInv
<1>6. CASE QueryEnd \/ Restart
  <2>1. qpc' = "idle"
    BY <1>6 DEF QueryEnd, Restart
  <2> QED  BY <2>1 DEF QueryInv
<1>7. CASE \/ Begin \/ ResolveCached \/ ResolveFromTable \/ RollBack \/ Invalidate \/ GetSeriesMeta
           \/ DropChanged \/ ListExpires \/ UNCHANGED vars
  <2>1. UNCHANGED <<tableVars, queryVars>>
    BY <1>7 DEF Begin, ResolveCached, ResolveFromTable, Resolved, RollBack, Invalidate,
       GetSeriesMeta, DropChanged, ListExpires, vars
  <2> QED  BY <1>u, <2>1 DEF tableVars, queryVars
<1> QED  BY <1>1, <1>2, <1>3, <1>4, <1>5, <1>6, <1>7 DEF Next, Insert, Query

(* The inductive invariant holds always. *)
LEMMA IInvAlways == Spec => []IInv
<1>1. IInv /\ [Next]_vars => IInv'
  BY CacheTypesStep, StoreTypesStep, TableStep, CacheStep, IdStep, RowStep, CallStep, QueryInvStep
     DEF IInv
<1> QED  BY <1>1, IInvInit, PTL DEF Spec

(* A row is stored under the id of its series unless a transaction that        *)
(* created that series was rolled back, and neither cache of StorageEngine     *)
(* contradicts a committed series row.                                         *)
THEOREM AlwaysAttributedUnlessRolledBack == Spec => []AttributedUnlessRolledBack
<1>1. IInv => AttributedUnlessRolledBack
  <2> SUFFICES ASSUME IInv PROVE AttributedUnlessRolledBack
    OBVIOUS
  <2>0. CacheTypes /\ StoreTypes /\ TableInv /\ CacheInv /\ IdInv /\ RowInv
    BY DEF IInv
  <2>1. TypeOK
    BY <2>0 DEF TypeOK, CacheTypes, StoreTypes
  <2>2. ASSUME NEW i \in DOMAIN cache, NEW sid \in Ids, series[sid] = cache[i].key
        PROVE  series[cache[i].val] = cache[i].key
    <3>1. cache[i] \in [key : Keys, val : Ids]
      BY <2>0, LenProperties DEF CacheTypes
    <3>2. cache[i].val \in Ids /\ cache[i].key # NoKey
      BY <3>1, IdFacts
    <3>3. tseries[sid] = cache[i].key
      BY <2>0, <2>2, <3>2 DEF TableInv
    <3>4. tseries[cache[i].val] = cache[i].key
      BY <2>0, <3>3 DEF CacheInv
    <3>5. sid = cache[i].val
      BY <2>0, <3>2, <3>3, <3>4 DEF TableInv
    <3> QED  BY <2>2, <3>5
  <2>3. ASSUME NEW i \in DOMAIN idCache
        PROVE  series[idCache[i].key] \in {NoKey, idCache[i].val}
    <3>1. idCache[i] \in [key : Ids, val : Keys]
      BY <2>0, LenProperties DEF CacheTypes
    <3>2. idCache[i].key \in Ids
      BY <3>1
    <3> QED  BY <2>0, <3>2 DEF IdInv, TableInv
  <2> QED  BY <2>0, <2>1, <2>2, <2>3 DEF AttributedUnlessRolledBack, RowInv
<1> QED  BY <1>1, IInvAlways, PTL

(* query_time_range yields every row of the partitions it listed that          *)
(* retention has not dropped by the time it ends.                              *)
THEOREM SurvivorsAlwaysFound == Spec => []SurvivorsFound
<1>1. IInv => SurvivorsFound
  BY DEF IInv, QueryInv, SurvivorsFound
<1> QED  BY <1>1, IInvAlways, PTL
=============================================================================
