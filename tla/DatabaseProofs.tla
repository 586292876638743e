--------------------------- MODULE DatabaseProofs ---------------------------
(***************************************************************************)
(* That engine/db.py's handles are accounted for, whoever fails, times out *)
(* or disposes meanwhile.                                                  *)
(*                                                                         *)
(* What is promised of a quiet database follows from who has each open     *)
(* handle at every moment: the pool, the writer's place or one reader.     *)
(* That the pool is never full follows from the slots: with a handle in    *)
(* the pool a reader takes that one, and with none the slot owners         *)
(* themselves are few enough.                                              *)
(***************************************************************************)
EXTENDS Database, FiniteSetTheorems, SequenceTheorems, TLAPS

(* Where a thread may have a handle. *)
Inside == {"reading", "put", "begin", "checkpoint", "txn"}

(* The elements of a sequence, and that none occurs twice. *)
Elems(s) == {s[i] : i \in DOMAIN s}
Distinct(s) == \A i, j \in DOMAIN s : s[i] = s[j] => i = j

(* Whose the open handles are. *)
HandleInv ==
    /\ \A t \in Readers : held[t] \in open \ (Pooled \cup {writer})
    /\ \A t \in Writers : held[t] \in {NoHandle, writer} /\ lock = t
    /\ \A t \in Threads : tpc[t] \notin Inside => held[t] = NoHandle
    /\ \A t, u \in Readers : held[t] = held[u] => t = u
    /\ Pooled \cup ({writer} \ {NoHandle}) \subseteq open
    /\ writer \notin Pooled
    /\ Distinct(pool)
    /\ \A h \in open : h \in Pooled \/ h = writer \/ \E t \in Readers : held[t] = h

(* The threads that own a slot, and those of them with a handle. *)
Owners == {t \in Threads : slot[t] = "yes"}
ReadingOwners == {t \in Readers : slot[t] = "yes"}

(* The slots bound the handles in the pool and out with their owners. *)
SlotInv ==
    /\ slots + Cardinality(Owners) <= PoolSize
    /\ Len(pool) + Cardinality(ReadingOwners) <= PoolSize
    /\ \A t \in Threads : slot[t] = "yes" => tpc[t] \in {"checkout", "reading", "put", "release"}
    /\ \A t \in Threads : tpc[t] = "put" => slot[t] = "yes"

IInv == TypeOK /\ HandleInv /\ SlotInv

-----------------------------------------------------------------------------
(* LifoQueue.get_nowait: the last one goes, the others stay. *)
LEMMA Popped ==
    ASSUME NEW S, NEW s \in Seq(S), s # << >>, Distinct(s)
    PROVE  LET q == SubSeq(s, 1, Len(s) - 1)
           IN  /\ q \in Seq(S) /\ Len(q) = Len(s) - 1 /\ Len(s) > 0
               /\ Distinct(q)
               /\ s[Len(s)] \in Elems(s) /\ s[Len(s)] \in S
               /\ Elems(q) = Elems(s) \ {s[Len(s)]}
<1> DEFINE q == SubSeq(s, 1, Len(s) - 1)
<1>1. Len(s) \in Nat /\ Len(s) > 0 /\ DOMAIN s = 1..Len(s)
  OBVIOUS
<1>2. q \in Seq(S) /\ Len(q) = Len(s) - 1 /\ \A i \in 1..(Len(s) - 1) : q[i] = s[i]
  BY <1>1
<1>3. DOMAIN q = 1..(Len(s) - 1)
  BY <1>2
<1>4. s[Len(s)] \in S /\ s[Len(s)] \in Elems(s)
  BY <1>1 DEF Elems
<1> HIDE DEF q
<1>5. Distinct(q)
  BY <1>1, <1>2, <1>3 DEF Distinct
<1>6. Elems(q) = Elems(s) \ {s[Len(s)]}
  BY <1>1, <1>2, <1>3 DEF Elems, Distinct
<1> QED  BY <1>1, <1>2, <1>4, <1>5, <1>6 DEF q

(* LifoQueue.put_nowait. *)
LEMMA Pushed ==
    ASSUME NEW S, NEW s \in Seq(S), NEW h \in S, h \notin Elems(s), Distinct(s)
    PROVE  LET q == Append(s, h)
           IN  /\ q \in Seq(S) /\ Len(q) = Len(s) + 1
               /\ Distinct(q)
               /\ Elems(q) = Elems(s) \cup {h}
<1> DEFINE q == Append(s, h)
<1>1. Len(s) \in Nat /\ DOMAIN s = 1..Len(s)
  OBVIOUS
<1>2. /\ q \in Seq(S) /\ Len(q) = Len(s) + 1 /\ q[Len(s) + 1] = h
      /\ \A i \in 1..Len(s) : q[i] = s[i]
  BY <1>1
<1>3. DOMAIN q = 1..(Len(s) + 1)
  BY <1>2
<1> HIDE DEF q
<1>5. Distinct(q)
  BY <1>1, <1>2, <1>3 DEF Distinct, Elems
<1>6. Elems(q) = Elems(s) \cup {h}
  BY <1>1, <1>2, <1>3 DEF Elems
<1> QED  BY <1>2, <1>5, <1>6 DEF q

(* A sequence without repetition has as many elements as its length. *)
LEMMA DistinctCount ==
    ASSUME NEW S, NEW s \in Seq(S), Distinct(s)
    PROVE  Cardinality(Elems(s)) = Len(s)
<1> DEFINE E == Elems(s)
<1>1. Len(s) \in Nat /\ DOMAIN s = 1..Len(s)
  OBVIOUS
<1>2. s \in Injection(1..Len(s), E)
  BY <1>1 DEF Injection, IsInjective, Distinct, Elems
<1>3. s \in Surjection(1..Len(s), E)
  BY <1>1, <1>2 DEF Surjection, Injection, Elems
<1>4. ExistsBijection(1..Len(s), E)
  BY <1>2, <1>3 DEF ExistsBijection, Bijection
<1> HIDE DEF E
<1>5. Cardinality(E) = Len(s)
  BY <1>1, <1>4, FS_CountingElements
<1> QED  BY <1>5 DEF E

(* A handle's number is never that of no handle. *)
LEMMA HandleFacts == NoHandle \notin Handles
BY DEF NoHandle, Handles

(* There are only so many slot owners, in a read or not. *)
LEMMA OwnerFacts ==
    /\ IsFiniteSet(Owners) /\ Cardinality(Owners) \in Nat
    /\ IsFiniteSet(ReadingOwners) /\ Cardinality(ReadingOwners) \in Nat
    /\ Cardinality(ReadingOwners) <= Cardinality(Owners)
<1>1. IsFiniteSet(Threads)
  BY DatabaseAssumption
<1>2. Owners \in SUBSET Threads /\ ReadingOwners \in SUBSET Owners
  BY DEF Owners, ReadingOwners, Readers
<1>3. IsFiniteSet(Owners)
  BY <1>1, <1>2, FS_Subset
<1>4. IsFiniteSet(ReadingOwners) /\ Cardinality(ReadingOwners) <= Cardinality(Owners)
  BY <1>2, <1>3, FS_Subset
<1> QED  BY <1>3, <1>4, FS_CardinalityType

(* At first no handle is open and every slot is free. *)
LEMMA InitHolds == Init => IInv
<1> SUFFICES ASSUME Init PROVE IInv
  OBVIOUS
<1> USE DatabaseAssumption, HandleFacts
<1>1. TypeOK
  BY DEF Init, TypeOK, Free
<1>2. Elems(pool) = {} /\ Distinct(pool) /\ Pooled = {} /\ Len(pool) = 0
  BY DEF Init, Elems, Distinct, Pooled
<1>3. Readers = {} /\ Writers = {} /\ Owners = {} /\ ReadingOwners = {}
  BY DEF Init, Readers, Writers, Owners, ReadingOwners
<1>4. HandleInv
  BY <1>2, <1>3 DEF Init, HandleInv
<1>5. SlotInv
  BY <1>2, <1>3, FS_EmptySet DEF Init, SlotInv
<1> QED  BY <1>1, <1>4, <1>5 DEF IInv

-----------------------------------------------------------------------------
(* Every step keeps each handle in one pair of hands. *)
LEMMA HandleStep ==
    ASSUME IInv, Next \/ UNCHANGED vars
    PROVE  HandleInv'
<1> USE DatabaseAssumption, HandleFacts DEF Inside
<1>p. Pooled = Elems(pool) /\ Pooled' = Elems(pool)'
  BY DEF Pooled, Elems
<1>i. TypeOK /\ HandleInv /\ SlotInv
  BY DEF IInv
<1>f. /\ DOMAIN tpc = Threads /\ DOMAIN held = Threads /\ DOMAIN slot = Threads
      /\ pool \in Seq(Handles) /\ open \in SUBSET Handles
      /\ writer \in Handles \cup {NoHandle}
      /\ \A t \in Threads : held[t] \in Handles \cup {NoHandle}
  BY <1>i DEF TypeOK
<1>r. \A t : /\ t \in Readers <=> t \in Threads /\ tpc[t] \in {"reading", "put"}
             /\ t \in Writers <=> t \in Threads /\ tpc[t] \in {"begin", "checkpoint", "txn"}
  BY DEF Readers, Writers
<1>0. CASE UNCHANGED vars
  BY <1>0, <1>i, <1>p DEF HandleInv, vars, sharedVars, threadVars, Readers, Writers
<1>1. ASSUME NEW t \in Threads, ReadStart(t) \/ SlotAcquired(t) \/ SlotTimeout(t)
      PROVE  HandleInv'
  <2>1. /\ UNCHANGED <<held, pool, open, writer, lock>>
        /\ \A u \in Threads : u # t => tpc'[u] = tpc[u]
        /\ tpc[t] \in {"idle", "slot"} /\ tpc'[t] \in {"slot", "checkout"}
    BY <1>1, <1>f DEF ReadStart, SlotAcquired, SlotTimeout, Goto, sharedVars
  <2>2. Readers' = Readers /\ Writers' = Writers
    BY <2>1 DEF Readers, Writers
  <2> QED  BY <2>1, <2>2, <1>i, <1>p DEF HandleInv
<1>2. ASSUME NEW t \in Threads, CheckoutFails(t) \/ SlotReleased(t)
      PROVE  HandleInv'
  <2>1. /\ UNCHANGED <<held, pool, open, writer, lock>>
        /\ \A u \in Threads : u # t => tpc'[u] = tpc[u]
        /\ tpc[t] \in {"checkout", "release"} /\ tpc'[t] = "idle"
    BY <1>2, <1>f DEF CheckoutFails, SlotReleased, Goto, sharedVars
  <2>2. Readers' = Readers /\ Writers' = Writers
    BY <2>1 DEF Readers, Writers
  <2> QED  BY <2>1, <2>2, <1>i, <1>p DEF HandleInv
(* A reader receives a handle that is nobody's: from the pool, or fresh. *)
<1>3. ASSUME NEW t \in Threads, Checkout(t) PROVE HandleInv'
  <2>1. /\ UNCHANGED <<writer, lock>>
        /\ \A u \in Threads : u # t => tpc'[u] = tpc[u] /\ held'[u] = held[u]
        /\ tpc[t] = "checkout" /\ tpc'[t] = "reading"
    BY <1>3, <1>f DEF Checkout, Goto, Hold
  <2>2. Readers' = Readers \cup {t} /\ Writers' = Writers /\ t \notin Readers
    BY <2>1 DEF Readers, Writers
  <2>3. CASE slot[t] = "yes" /\ pool # << >>
    <3>1. /\ held'[t] = pool[Len(pool)] /\ pool' = SubSeq(pool, 1, Len(pool) - 1)
          /\ UNCHANGED open
      BY <1>3, <2>3, <1>f DEF Checkout, Hold
    <3>2. /\ Distinct(pool)' /\ pool[Len(pool)] \in Pooled
          /\ Pooled' = Pooled \ {pool[Len(pool)]}
      BY <3>1, <2>3, <1>i, <1>p, <1>f, Popped DEF HandleInv
    <3> QED  BY <2>1, <2>2, <3>1, <3>2, <1>i, <1>f, <1>r DEF HandleInv
  <2>4. CASE slot[t] = "no" \/ pool = << >>
    <3>1. UNCHANGED pool /\ held'[t] \in Handles \ open /\ open' = open \cup {held'[t]}
      BY <1>3, <2>4, <1>f DEF Checkout, Hold, IsFresh
    <3> QED  BY <2>1, <2>2, <3>1, <1>p, <1>i, <1>f, <1>r DEF HandleInv
  <2> QED  BY <1>3, <2>3, <2>4 DEF Checkout
(* It gives it back to the pool, or closes it. *)
<1>4. ASSUME NEW t \in Threads, CheckinTest(t) PROVE HandleInv'
  <2>1. /\ UNCHANGED <<pool, writer, lock>>
        /\ \A u \in Threads : u # t => tpc'[u] = tpc[u] /\ held'[u] = held[u]
        /\ tpc[t] = "reading"
    BY <1>4, <1>f DEF CheckinTest, Goto, Hold
  <2>2. CASE open' = open \ {held[t]} /\ held'[t] = NoHandle /\ tpc'[t] = "release"
    <3>1. Readers' = Readers \ {t} /\ Writers' = Writers /\ t \in Readers
      BY <2>1, <2>2 DEF Readers, Writers
    <3> QED  BY <2>1, <2>2, <3>1, <1>p, <1>i, <1>f, <1>r DEF HandleInv
  <2>3. CASE tpc'[t] = "put" /\ UNCHANGED <<held, open>>
    <3>1. Readers' = Readers /\ Writers' = Writers
      BY <2>1, <2>3 DEF Readers, Writers
    <3> QED  BY <2>1, <2>3, <3>1, <1>p, <1>i, <1>f, <1>r DEF HandleInv
  <2> QED  BY <1>4, <1>f, <2>2, <2>3 DEF CheckinTest, Goto, Hold
<1>5. ASSUME NEW t \in Threads, CheckinPut(t) PROVE HandleInv'
  <2>1. /\ UNCHANGED <<writer, lock>>
        /\ \A u \in Threads : u # t => tpc'[u] = tpc[u] /\ held'[u] = held[u]
        /\ tpc[t] = "put" /\ tpc'[t] = "release" /\ held'[t] = NoHandle
    BY <1>5, <1>f DEF CheckinPut, Goto, Hold
  <2>2. Readers' = Readers \ {t} /\ Writers' = Writers /\ t \in Readers
    BY <2>1 DEF Readers, Writers
  <2>3. CASE Len(pool) < PoolSize
    <3>1. pool' = Append(pool, held[t]) /\ UNCHANGED open
      BY <1>5, <2>3 DEF CheckinPut
    <3>2. held[t] \in Handles /\ held[t] \notin Pooled /\ Distinct(pool)
      BY <2>2, <1>i, <1>f, <1>r DEF HandleInv
    <3>3. Distinct(pool)' /\ Pooled' = Pooled \cup {held[t]}
      BY <3>1, <3>2, <1>p, <1>f, Pushed
    <3> QED  BY <2>1, <2>2, <3>1, <3>3, <1>i, <1>f, <1>r DEF HandleInv
  <2>4. CASE ~(Len(pool) < PoolSize)
    <3>1. UNCHANGED pool /\ open' = open \ {held[t]}
      BY <1>5, <2>4 DEF CheckinPut
    <3> QED  BY <2>1, <2>2, <3>1, <1>p, <1>i, <1>f, <1>r DEF HandleInv
  <2> QED  BY <2>3, <2>4
(* The lock admits one writer, and its holder alone touches _writer_conn. *)
<1>6. ASSUME NEW t \in Threads, WriteLock(t) PROVE HandleInv'
  <2>1. /\ UNCHANGED <<pool, open, writer, held>> /\ lock = Free /\ lock' = t
        /\ \A u \in Threads : u # t => tpc'[u] = tpc[u]
        /\ tpc[t] = "idle" /\ tpc'[t] \in {"begin", "checkpoint"}
    BY <1>6, <1>f DEF WriteLock, LockFree, Goto
  <2>2. Readers' = Readers /\ Writers' = {t} /\ Writers = {}
    BY <2>1, <1>i DEF Readers, Writers, HandleInv, Free
  <2> QED  BY <2>1, <2>2, <1>p, <1>i, <1>f, <1>r DEF HandleInv
<1>7. ASSUME NEW t \in Threads, GetWriter(t) PROVE HandleInv'
  <2>1. /\ UNCHANGED <<pool, tpc, lock>> /\ held'[t] = writer'
        /\ \A u \in Threads : u # t => held'[u] = held[u]
        /\ t \in Writers /\ t \notin Readers
    BY <1>7, <1>f DEF GetWriter, Hold, Writers, Readers
  <2>2. Readers' = Readers /\ Writers' = Writers /\ Writers = {t}
    BY <2>1, <1>i DEF Readers, Writers, HandleInv
  <2>3. \/ UNCHANGED <<open, writer>>
        \/ writer = NoHandle /\ writer' \in Handles \ open /\ open' = open \cup {writer'}
    BY <1>7, <1>f DEF GetWriter, IsFresh
  <2> QED  BY <2>1, <2>2, <2>3, <1>p, <1>i, <1>f, <1>r DEF HandleInv
<1>8. ASSUME NEW t \in Threads, GetWriterFails(t) \/ WriteDone(t) \/ WriteFails(t)
      PROVE  HandleInv'
  <2>1. /\ UNCHANGED <<pool>> /\ tpc'[t] = "idle" /\ held'[t] = NoHandle
        /\ \A u \in Threads : u # t => tpc'[u] = tpc[u] /\ held'[u] = held[u]
        /\ t \in Writers /\ t \notin Readers
    BY <1>8, <1>f DEF GetWriterFails, WriteDone, WriteFails, Quarantine, Goto, Hold, Writers, Readers
  <2>2. Readers' = Readers /\ Writers' = {} /\ Writers = {t}
    BY <2>1, <1>i DEF Readers, Writers, HandleInv
  <2>3. \/ UNCHANGED <<open, writer>>
        \/ writer # NoHandle /\ writer' = NoHandle /\ open' = open \ {writer}
    BY <1>8, <2>1, <1>i DEF GetWriterFails, WriteDone, WriteFails, Quarantine, Untracked, HandleInv
  <2> QED  BY <2>1, <2>2, <2>3, <1>p, <1>i, <1>f, <1>r DEF HandleInv
<1>9. ASSUME NEW t \in Threads, Begin(t) PROVE HandleInv'
  <2>1. /\ UNCHANGED <<held, pool, open, writer, lock>>
        /\ \A u \in Threads : u # t => tpc'[u] = tpc[u]
        /\ tpc[t] = "begin" /\ tpc'[t] = "txn"
    BY <1>9, <1>f DEF Begin, Goto, sharedVars
  <2>2. Readers' = Readers /\ Writers' = Writers
    BY <2>1 DEF Readers, Writers
  <2> QED  BY <2>1, <2>2, <1>i, <1>p DEF HandleInv
<1>10. ASSUME NEW t \in Threads, BeginHeals(t) PROVE HandleInv'
  <2>1. /\ UNCHANGED <<pool, lock>> /\ held'[t] = writer'
        /\ \A u \in Threads : u # t => tpc'[u] = tpc[u] /\ held'[u] = held[u]
        /\ tpc[t] = "begin" /\ tpc'[t] = "txn" /\ held[t] # NoHandle
    BY <1>10, <1>f DEF BeginHeals, Goto, Hold
  <2>2. Readers' = Readers /\ Writers' = Writers /\ t \in Writers /\ t \notin Readers
    BY <2>1 DEF Readers, Writers
  <2>3. Writers = {t} /\ writer = held[t]
    BY <2>1, <2>2, <1>i DEF HandleInv
  <2>4. writer' \in Handles \ (open \ {writer}) /\ open' = (open \ {writer}) \cup {writer'}
    BY <1>10, <2>3 DEF BeginHeals, Untracked
  <2> QED  BY <2>1, <2>2, <2>3, <2>4, <1>p, <1>i, <1>f, <1>r DEF HandleInv
<1>11. CASE DisposeStart
  BY <1>11, <1>i, <1>p DEF HandleInv, DisposeStart, sharedVars, threadVars, Readers, Writers
<1>12. CASE DisposeDrain
  <2>1. UNCHANGED <<tpc, held, writer, lock>> /\ Readers' = Readers /\ Writers' = Writers
    BY <1>12 DEF DisposeDrain, threadVars, Readers, Writers
  <2>2. CASE pool = << >>
    <3>1. UNCHANGED <<open, pool>>
      BY <1>12, <2>2 DEF DisposeDrain
    <3> QED  BY <2>1, <3>1, <1>p, <1>i DEF HandleInv
  <2>3. CASE pool # << >>
    <3>1. open' = open \ {pool[Len(pool)]} /\ pool' = SubSeq(pool, 1, Len(pool) - 1)
      BY <1>12, <2>3 DEF DisposeDrain
    <3>2. /\ Distinct(pool)' /\ pool[Len(pool)] \in Pooled
          /\ Pooled' = Pooled \ {pool[Len(pool)]}
      BY <3>1, <2>3, <1>i, <1>p, <1>f, Popped DEF HandleInv
    <3> QED  BY <2>1, <3>1, <3>2, <1>i, <1>f, <1>r DEF HandleInv
  <2> QED  BY <2>2, <2>3
<1>13. CASE DisposeWriter
  <2>1. /\ UNCHANGED <<tpc, held, pool, lock>> /\ Readers' = Readers /\ Writers' = Writers
        /\ open' = open \ {writer} /\ writer' = NoHandle /\ lock = Free
    BY <1>13 DEF DisposeWriter, LockFree, threadVars, Readers, Writers
  <2>2. Writers = {}
    BY <2>1, <1>i DEF HandleInv, Writers, Free
  <2>3. NoHandle \notin open /\ NoHandle \notin Pooled
    BY <1>f, <1>i DEF HandleInv
  <2> QED  BY <2>1, <2>2, <2>3, <1>p, <1>i, <1>f, <1>r DEF HandleInv
<1> QED
  BY <1>0, <1>1, <1>2, <1>3, <1>4, <1>5, <1>6, <1>7, <1>8, <1>9, <1>10, <1>11, <1>12, <1>13
     DEF Next, Read, Write, Dispose

-----------------------------------------------------------------------------
(* Every step keeps the pooled handles and those out with slot owners        *)
(* within reader_pool_size.                                                 *)
LEMMA SlotStep ==
    ASSUME IInv, Next \/ UNCHANGED vars
    PROVE  SlotInv'
<1> USE DatabaseAssumption
<1>i. TypeOK /\ HandleInv /\ SlotInv
  BY DEF IInv
<1>f. /\ DOMAIN tpc = Threads /\ DOMAIN slot = Threads
      /\ pool \in Seq(Handles) /\ slots \in Nat /\ Len(pool) \in Nat
      /\ \A t \in Threads : slot[t] \in {"no", "yes"}
  BY <1>i DEF TypeOK
<1>c. /\ IsFiniteSet(Owners) /\ Cardinality(Owners) \in Nat
      /\ IsFiniteSet(ReadingOwners) /\ Cardinality(ReadingOwners) \in Nat
      /\ Cardinality(ReadingOwners) <= Cardinality(Owners)
  BY OwnerFacts
(* Most steps of a thread leave the slots and both sets of owners alone. *)
<1>u. ASSUME NEW t \in Threads, UNCHANGED <<slot, slots, pool>>,
             \A u \in Threads : u # t => tpc'[u] = tpc[u],
             /\ slot[t] = "yes" => tpc'[t] \in {"checkout", "reading", "put", "release"}
             /\ tpc'[t] = "put" => slot[t] = "yes",
             slot[t] = "no" \/ (tpc[t] \in {"reading", "put"} <=> tpc'[t] \in {"reading", "put"})
      PROVE  SlotInv'
  <2>1. Owners' = Owners /\ ReadingOwners' = ReadingOwners
    BY <1>u DEF Owners, ReadingOwners, Readers
  <2> QED  BY <1>u, <2>1, <1>i DEF SlotInv
<1>0. CASE UNCHANGED vars
  BY <1>0, <1>i DEF SlotInv, vars, sharedVars, threadVars, Readers, Owners, ReadingOwners
<1>1. ASSUME NEW t \in Threads, ReadStart(t) \/ SlotTimeout(t) PROVE SlotInv'
  <2>1. /\ UNCHANGED <<slot, slots, pool>>
        /\ \A u \in Threads : u # t => tpc'[u] = tpc[u]
        /\ tpc[t] \in {"idle", "slot"} /\ tpc'[t] \in {"slot", "checkout"}
    BY <1>1, <1>f DEF ReadStart, SlotTimeout, Goto, sharedVars
  <2>2. slot[t] = "no"
    BY <2>1, <1>i, <1>f DEF SlotInv
  <2> QED  BY <2>1, <2>2, <1>u
<1>2. ASSUME NEW t \in Threads, SlotAcquired(t) PROVE SlotInv'
  <2>1. /\ UNCHANGED pool /\ slots > 0 /\ slots' = slots - 1 /\ slot'[t] = "yes"
        /\ \A u \in Threads : u # t => tpc'[u] = tpc[u] /\ slot'[u] = slot[u]
        /\ tpc[t] = "slot" /\ tpc'[t] = "checkout"
    BY <1>2, <1>f DEF SlotAcquired, Goto
  <2>2. Owners' = Owners \cup {t} /\ ReadingOwners' = ReadingOwners
    BY <2>1 DEF Owners, ReadingOwners, Readers
  <2>3. Cardinality(Owners') <= Cardinality(Owners) + 1 /\ Cardinality(Owners') \in Nat
    <3>1. /\ IsFiniteSet(Owners')
          /\ Cardinality(Owners') = IF t \in Owners THEN Cardinality(Owners) ELSE Cardinality(Owners) + 1
      BY <2>2, <1>c, FS_AddElement
    <3> QED  BY <3>1, <1>c
  <2> QED  BY <2>1, <2>2, <2>3, <1>i, <1>f, <1>c DEF SlotInv
(* With an empty pool the owners themselves are few enough. *)
<1>3. ASSUME NEW t \in Threads, Checkout(t) PROVE SlotInv'
  <2>1. /\ UNCHANGED <<slot, slots>>
        /\ \A u \in Threads : u # t => tpc'[u] = tpc[u]
        /\ tpc[t] = "checkout" /\ tpc'[t] = "reading"
    BY <1>3, <1>f DEF Checkout, Goto
  <2>2. Owners' = Owners
    BY <2>1 DEF Owners
  <2>3. CASE slot[t] = "no"
    <3>1. UNCHANGED pool
      BY <1>3, <2>3 DEF Checkout
    <3> QED  BY <2>1, <2>3, <3>1, <1>u
  <2>4. CASE slot[t] = "yes" /\ pool # << >>
    <3>1. pool' = SubSeq(pool, 1, Len(pool) - 1)
      BY <1>3, <2>4 DEF Checkout
    <3>2. Len(pool') = Len(pool) - 1
      <4>1. Distinct(pool)
        BY <1>i DEF HandleInv
      <4> QED  BY <3>1, <4>1, <2>4, <1>f, Popped
    <3>3. ReadingOwners' = ReadingOwners \cup {t}
      BY <2>1, <2>4 DEF ReadingOwners, Readers
    <3>4. Cardinality(ReadingOwners') <= Cardinality(ReadingOwners) + 1
          /\ Cardinality(ReadingOwners') \in Nat
      <4>1. Cardinality(ReadingOwners') = IF t \in ReadingOwners THEN Cardinality(ReadingOwners)
                                                                 ELSE Cardinality(ReadingOwners) + 1
        BY <3>3, <1>c, FS_AddElement
      <4> QED  BY <4>1, <1>c
    <3> QED  BY <2>1, <2>2, <3>2, <3>4, <1>i, <1>f, <1>c DEF SlotInv
  <2>5. CASE pool = << >>
    <3>1. pool' = << >>
      BY <1>3, <2>5 DEF Checkout
    <3>2. ReadingOwners' \in SUBSET Owners
      BY <2>2 DEF ReadingOwners, Readers, Owners
    <3>3. IsFiniteSet(ReadingOwners') /\ Cardinality(ReadingOwners') <= Cardinality(Owners)
      BY <3>2, <1>c, FS_Subset
    <3>4. Cardinality(ReadingOwners') \in Nat
      BY <3>3, FS_CardinalityType
    <3>5. Len(pool') = 0
      BY <3>1
    <3> QED  BY <2>1, <2>2, <3>3, <3>4, <3>5, <1>i, <1>f, <1>c DEF SlotInv
  <2> QED  BY <2>3, <2>4, <2>5, <1>f
<1>4. ASSUME NEW t \in Threads, CheckoutFails(t) \/ SlotReleased(t) PROVE SlotInv'
  <2>1. /\ UNCHANGED pool /\ slot'[t] = "no"
        /\ \A u \in Threads : u # t => tpc'[u] = tpc[u] /\ slot'[u] = slot[u]
        /\ tpc[t] \in {"checkout", "release"} /\ tpc'[t] = "idle"
        /\ slots' \in {slots, SlotsAfter(t)}
    BY <1>4, <1>f DEF CheckoutFails, SlotReleased, Goto, sharedVars
  <2>2. Owners' = Owners \ {t} /\ ReadingOwners' = ReadingOwners
    BY <2>1 DEF Owners, ReadingOwners, Readers
  <2>3. Cardinality(Owners') = IF t \in Owners THEN Cardinality(Owners) - 1 ELSE Cardinality(Owners)
    BY <2>2, <1>c, FS_RemoveElement
  <2>4. t \in Owners <=> slot[t] = "yes"
    BY DEF Owners
  <2>5. slots' + Cardinality(Owners') <= PoolSize
    BY <2>1, <2>3, <2>4, <1>i, <1>f, <1>c DEF SlotInv, SlotsAfter
  <2> QED  BY <2>1, <2>2, <2>5, <1>i, <1>f, <1>c DEF SlotInv
<1>5. ASSUME NEW t \in Threads, CheckinTest(t) PROVE SlotInv'
  <2>1. /\ UNCHANGED <<slot, slots, pool>>
        /\ \A u \in Threads : u # t => tpc'[u] = tpc[u]
        /\ tpc[t] = "reading" /\ tpc'[t] \in {"release", "put"}
        /\ tpc'[t] = "put" => slot[t] = "yes"
    BY <1>5, <1>f DEF CheckinTest, Pools, Goto
  <2>2. CASE tpc'[t] = "put"
    BY <2>1, <2>2, <1>u
  <2>3. CASE tpc'[t] = "release"
    <3>1. Owners' = Owners /\ ReadingOwners' \in SUBSET ReadingOwners
      BY <2>1, <2>3 DEF Owners, ReadingOwners, Readers
    <3>2. IsFiniteSet(ReadingOwners') /\ Cardinality(ReadingOwners') <= Cardinality(ReadingOwners)
      BY <3>1, <1>c, FS_Subset
    <3>3. Cardinality(ReadingOwners') \in Nat
      BY <3>2, FS_CardinalityType
    <3> QED  BY <2>1, <2>3, <3>1, <3>2, <3>3, <1>i, <1>f, <1>c DEF SlotInv
  <2> QED  BY <2>1, <2>2, <2>3
(* The pooled handle takes the place of its reader. *)
<1>6. ASSUME NEW t \in Threads, CheckinPut(t) PROVE SlotInv'
  <2>1. /\ UNCHANGED <<slot, slots>>
        /\ \A u \in Threads : u # t => tpc'[u] = tpc[u]
        /\ tpc[t] = "put" /\ tpc'[t] = "release"
        /\ pool' = Append(pool, held[t]) \/ pool' = pool
    BY <1>6, <1>f DEF CheckinPut, Goto
  <2>2. held[t] \in Handles
    BY <2>1, <1>i DEF HandleInv, Readers, TypeOK
  <2>3. Len(pool') <= Len(pool) + 1 /\ Len(pool') \in Nat
    BY <2>1, <2>2, <1>f
  <2>4. Owners' = Owners /\ ReadingOwners' = ReadingOwners \ {t}
    BY <2>1 DEF Owners, ReadingOwners, Readers
  <2>5. t \in ReadingOwners
    BY <2>1, <1>i DEF SlotInv, ReadingOwners, Readers
  <2>6. Cardinality(ReadingOwners') = Cardinality(ReadingOwners) - 1
    BY <2>4, <2>5, <1>c, FS_RemoveElement
  <2> QED  BY <2>1, <2>3, <2>4, <2>6, <1>i, <1>f, <1>c DEF SlotInv
<1>7. ASSUME NEW t \in Threads, WriteLock(t) \/ Write(t) PROVE SlotInv'
  <2>1. /\ UNCHANGED <<slot, slots, pool>>
        /\ \A u \in Threads : u # t => tpc'[u] = tpc[u]
        /\ tpc[t] \in {"idle", "begin", "checkpoint", "txn"}
        /\ tpc'[t] \in {"idle", "begin", "checkpoint", "txn"}
    BY <1>7, <1>f DEF WriteLock, Write, GetWriter, GetWriterFails, Begin, BeginHeals,
                      WriteDone, WriteFails, Goto, sharedVars
  <2>2. slot[t] = "no"
    BY <2>1, <1>i, <1>f DEF SlotInv
  <2> QED  BY <2>1, <2>2, <1>u
<1>8. CASE Dispose
  <2>1. UNCHANGED <<tpc, slot, slots>>
    BY <1>8 DEF Dispose, DisposeStart, DisposeDrain, DisposeWriter, threadVars, sharedVars
  <2>2. Owners' = Owners /\ ReadingOwners' = ReadingOwners
    BY <2>1 DEF Owners, ReadingOwners, Readers
  <2>3. UNCHANGED pool \/ (pool # << >> /\ pool' = SubSeq(pool, 1, Len(pool) - 1))
    BY <1>8 DEF Dispose, DisposeStart, DisposeDrain, DisposeWriter, sharedVars
  <2>4. Len(pool') <= Len(pool) /\ Len(pool') \in Nat
    BY <2>3, <1>f
  <2> QED  BY <2>1, <2>2, <2>4, <1>i, <1>f, <1>c DEF SlotInv
<1> QED
  BY <1>0, <1>1, <1>2, <1>3, <1>4, <1>5, <1>6, <1>7, <1>8 DEF Next, Read

-----------------------------------------------------------------------------
(* Every step keeps the types: a slot is never released twice. *)
LEMMA TypeStep ==
    ASSUME IInv, Next \/ UNCHANGED vars, SlotInv'
    PROVE  TypeOK'
<1> USE DatabaseAssumption
<1>i. TypeOK /\ HandleInv /\ SlotInv
  BY DEF IInv
<1>p. Distinct(pool)
  BY <1>i DEF HandleInv
<1>c. Cardinality(Owners') \in Nat
  <2>1. IsFiniteSet(Threads) /\ Owners' \in SUBSET Threads
    BY DEF Owners
  <2> QED  BY <2>1, FS_Subset, FS_CardinalityType
<1>s. slots' \in Nat => slots' \in 0..PoolSize
  BY <1>c DEF SlotInv
<1>q. pool # << >> => /\ SubSeq(pool, 1, Len(pool) - 1) \in Seq(Handles)
                      /\ pool[Len(pool)] \in Handles
  BY <1>i, <1>p, Popped DEF TypeOK
<1>a. \A h \in Handles : Append(pool, h) \in Seq(Handles)
  BY <1>i DEF TypeOK
<1> DEFINE SH == Seq(Handles)
<1>t. /\ pool \in SH /\ (pool # << >> => SubSeq(pool, 1, Len(pool) - 1) \in SH)
      /\ \A h \in Handles : Append(pool, h) \in SH
  BY <1>q, <1>a, <1>i DEF TypeOK
<1>y. pool' \in SH => pool' \in Seq(Handles)
  OBVIOUS
<1> HIDE DEF SH
<1>0. CASE UNCHANGED vars
  BY <1>0, <1>i DEF TypeOK, vars, sharedVars, threadVars, disposeVars
<1>1. ASSUME NEW t \in Threads, ReadStart(t) \/ SlotTimeout(t) \/ Begin(t) PROVE TypeOK'
  BY <1>1, <1>i DEF TypeOK, ReadStart, SlotTimeout, Begin, Goto, sharedVars, disposeVars
<1>2. ASSUME NEW t \in Threads, SlotAcquired(t) PROVE TypeOK'
  <2>1. slots' \in Nat
    BY <1>2, <1>i DEF SlotAcquired, TypeOK
  <2> QED  BY <1>2, <2>1, <1>s, <1>i DEF TypeOK, SlotAcquired, Goto, disposeVars
<1>3. ASSUME NEW t \in Threads, Checkout(t) PROVE TypeOK'
  <2>1. /\ pool' \in SH /\ open' \in SUBSET Handles
        /\ held' \in [Threads -> Handles \cup {NoHandle}]
    BY <1>3, <1>i, <1>q, <1>t DEF TypeOK, Checkout, IsFresh, Hold
  <2> QED  BY <1>3, <2>1, <1>y, <1>i DEF TypeOK, Checkout, Goto, disposeVars
<1>4. ASSUME NEW t \in Threads, CheckoutFails(t) PROVE TypeOK'
  BY <1>4, <1>i DEF TypeOK, CheckoutFails, Goto, sharedVars, disposeVars
<1>5. ASSUME NEW t \in Threads, CheckinTest(t) PROVE TypeOK'
  BY <1>5, <1>i DEF TypeOK, CheckinTest, Goto, Hold, disposeVars
<1>6. ASSUME NEW t \in Threads, CheckinPut(t) PROVE TypeOK'
  <2>1. held[t] \in Handles
    BY <1>6, <1>i DEF HandleInv, Readers, TypeOK, CheckinPut
  <2>2. pool' \in SH /\ open' \in SUBSET Handles
    BY <1>6, <2>1, <1>t, <1>i DEF CheckinPut, TypeOK
  <2> QED  BY <1>6, <2>2, <1>y, <1>i DEF TypeOK, CheckinPut, Goto, Hold, disposeVars
<1>7. ASSUME NEW t \in Threads, SlotReleased(t) PROVE TypeOK'
  <2>1. slots' \in Nat
    BY <1>7, <1>i DEF SlotReleased, SlotsAfter, TypeOK
  <2> QED  BY <1>7, <2>1, <1>s, <1>i DEF TypeOK, SlotReleased, Goto, disposeVars
<1>8. ASSUME NEW t \in Threads, WriteLock(t) PROVE TypeOK'
  BY <1>8, <1>i DEF TypeOK, WriteLock, Goto, disposeVars
<1>9. ASSUME NEW t \in Threads, GetWriter(t) PROVE TypeOK'
  BY <1>9, <1>i DEF TypeOK, GetWriter, IsFresh, Hold, disposeVars
<1>10. ASSUME NEW t \in Threads, GetWriterFails(t) PROVE TypeOK'
  BY <1>10, <1>i DEF TypeOK, GetWriterFails, Goto, Free, disposeVars
<1>11. ASSUME NEW t \in Threads, BeginHeals(t) PROVE TypeOK'
  <2>1. writer' \in Handles \cup {NoHandle} /\ open' \in SUBSET Handles
    BY <1>11, <1>i DEF TypeOK, BeginHeals
  <2> QED  BY <1>11, <2>1, <1>i DEF TypeOK, BeginHeals, Goto, Hold, disposeVars
<1>12. ASSUME NEW t \in Threads, WriteDone(t) PROVE TypeOK'
  BY <1>12, <1>i DEF TypeOK, WriteDone, Goto, Hold, Free, disposeVars
<1>13. ASSUME NEW t \in Threads, WriteFails(t) PROVE TypeOK'
  BY <1>13, <1>i DEF TypeOK, WriteFails, Quarantine, Untracked, Goto, Hold, Free, disposeVars
<1>14. CASE DisposeStart
  BY <1>14, <1>i DEF TypeOK, DisposeStart, threadVars, sharedVars
<1>15. CASE DisposeDrain
  <2>1. pool' \in SH /\ open' \in SUBSET Handles
    BY <1>15, <1>t, <1>i DEF DisposeDrain, TypeOK
  <2> QED  BY <1>15, <2>1, <1>y, <1>i DEF TypeOK, DisposeDrain, threadVars
<1>16. CASE DisposeWriter
  BY <1>16, <1>i DEF TypeOK, DisposeWriter, threadVars
<1> QED
  BY <1>0, <1>1, <1>2, <1>3, <1>4, <1>5, <1>6, <1>7, <1>8, <1>9, <1>10, <1>11, <1>12,
     <1>13, <1>14, <1>15, <1>16 DEF Next, Read, Write, Dispose

-----------------------------------------------------------------------------
(* The accounts of the handles follow from the invariant: a quiet database   *)
(* has no reader, so an open handle is pooled or is the writer.              *)
LEMMA AccountedHolds == IInv => HandlesAccounted
<1> SUFFICES ASSUME IInv PROVE HandlesAccounted
  OBVIOUS
<1>i. TypeOK /\ HandleInv /\ SlotInv
  BY DEF IInv
<1>1. Cardinality(Pooled) = Len(pool)
  <2>1. Pooled = Elems(pool)
    BY DEF Pooled, Elems
  <2>2. pool \in Seq(Handles) /\ Distinct(pool)
    BY <1>i DEF TypeOK, HandleInv
  <2> QED  BY <2>1, <2>2, DistinctCount
<1>2. Quiet => open = Pooled \cup ({writer} \ {NoHandle})
  <2>1. Quiet => Readers = {}
    BY DEF Quiet, Readers
  <2>2. NoHandle \notin open
    BY <1>i, HandleFacts DEF TypeOK
  <2> QED  BY <2>1, <2>2, <1>i DEF HandleInv
<1>3. {t \in Readers : slot[t] = "yes"} = ReadingOwners
  BY DEF ReadingOwners
<1> QED  BY <1>1, <1>2, <1>3, <1>i DEF HandlesAccounted, HandleInv, SlotInv

(* However the threads' reads, writes, failures and timeouts interleave with *)
(* each other and with dispose(), and for every pool size and number of      *)
(* threads, engine/db.py never hands one connection to two threads, never    *)
(* finds the reader pool full and loses none of the connections it opened.   *)
THEOREM HandlesAlwaysAccounted == Spec => []HandlesAccounted
<1>1. Init => IInv
  BY InitHolds
<1>2. IInv /\ [Next]_vars => IInv'
  BY HandleStep, SlotStep, TypeStep DEF IInv
<1>3. IInv => HandlesAccounted
  BY AccountedHolds
<1> QED  BY <1>1, <1>2, <1>3, PTL DEF Spec
=============================================================================
