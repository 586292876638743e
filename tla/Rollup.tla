------------------------------- MODULE Rollup -------------------------------
(***************************************************************************)
(* The hourly rollup and what runs beside it on the same database: writes  *)
(* (StorageEngine.insert_many with rewind_watermark), a rollup pass        *)
(* (rollup_new_hours, in RollupManager's thread), a retention pass         *)
(* (RetentionPolicy.run, in RetentionManager's thread) and a query on the  *)
(* rollup fast path.                                                       *)
(*                                                                         *)
(* One step is one transaction or one snapshot read.  Time is counted in   *)
(* hours; a partition is HoursPerPart of them.  One series: every          *)
(* statement treats the series independently.  The rows of an hour are     *)
(* counted: count, sum, min and max come from the same scan, so the count  *)
(* tells which rows an aggregate has seen.                                 *)
(***************************************************************************)
EXTENDS Naturals, FiniteSets

CONSTANTS
    Tasks,         \* what runs beside the writes: "rollup", "retention", "query"
    MaxHour,       \* bound: the clock's last hour
    HoursPerPart,  \* hours in a monthly partition
    HoursPerDay,   \* hours in a day
    Skew,          \* reject_client_timestamp_skew_s, in hours
    MaxLate,       \* how late (or early) a write may be when it is accepted
    TTL,           \* retention TTL, in hours
    MaxWrites,     \* bound: batches written
    MaxFaults      \* bound: crashes and passes that raise

ASSUME RollupAssumption ==
    /\ MaxHour \in Nat /\ Skew \in Nat /\ MaxLate \in Nat /\ TTL \in Nat
    /\ HoursPerDay \in Nat \ {0}
    /\ HoursPerPart \in Nat /\ HoursPerPart >= HoursPerDay
    /\ MaxWrites \in Nat /\ MaxFaults \in Nat

Hours       == 0..MaxHour
HourPart(h) == h \div HoursPerPart
Parts       == {HourPart(h) : h \in Hours}
IsFirst(x, S) == x \in S /\ \A y \in S : x <= y

VARIABLES
    now,      \* the clock
    raw,      \* rows of each hour in the measurements partitions
    parts,    \* the partition tables that exist
    roll,     \* rollup_hourly: count column of each hour, 0 when no row
    wm,       \* rollup_meta.last_hour, 0 when absent
    batch,    \* hours of the accepted batch waiting to be inserted
    writes,   \* batches accepted so far
    rpc,      \* where the rollup pass stands
    rbase,    \* rollup_new_hours: watermark, read before rolling
    rcut,     \* rollup_new_hours: completed
    rtodo,    \* partitions not yet rolled by this pass
    rstart,   \* rollup_partition: start_ns
    raced,    \* history: hours the passes have missed, see ExactUnlessRaced
    tpc,      \* where the retention pass stands
    tkeep,    \* RetentionPolicy.run: keep
    ttodo,    \* partitions it still has to drop
    tpart,    \* the partition it is dropping
    qpc,      \* where the query stands
    q,        \* the query's locals
    faults    \* crashes and passes that raised, so far

dataVars  == <<raw, parts, roll, wm>>
writeVars == <<batch, writes>>
passVars  == <<rpc, rbase, rcut, rtodo, rstart>>
retVars   == <<tpc, tkeep, ttodo, tpart>>
queryVars == <<qpc, q>>
vars == <<now, dataVars, writeVars, passVars, raced, retVars, queryVars, faults>>

NoQuery == [start |-> 0, end |-> 0, open |-> "no", elig |-> 0,
            owed |-> [h \in Hours |-> 0],
            seen |-> [h \in Hours |-> 0]]

Init ==
    /\ now = 0
    /\ raw = [h \in Hours |-> 0]
    /\ parts = {}
    /\ roll = [h \in Hours |-> 0]
    /\ wm = 0
    /\ batch = {}
    /\ writes = 0
    /\ rpc = "idle"
    /\ rbase = 0
    /\ rcut = 0
    /\ rtodo = {}
    /\ rstart = 0
    /\ raced = {}
    /\ tpc = "idle"
    /\ tkeep = {}
    /\ ttodo = {}
    /\ tpart = 0
    /\ qpc = "idle"
    /\ q = NoQuery
    /\ faults = 0

-----------------------------------------------------------------------------
Tick ==
    /\ now < MaxHour
    /\ now' = now + 1
    /\ UNCHANGED <<dataVars, writeVars, passVars, raced, retVars, queryVars,
                   faults>>

(* parse_ingest accepts a batch whose timestamps are near the clock; with    *)
(* MaxLate >= MaxHour the guard is off (or the write is embedded).           *)
Accept ==
    /\ batch = {}
    /\ writes < MaxWrites
    /\ \E b \in SUBSET {h \in Hours : h <= now + MaxLate /\ now <= h + MaxLate} :
         /\ b # {} /\ Cardinality(b) <= 2
         /\ batch' = b
    /\ writes' = writes + 1
    /\ UNCHANGED <<now, dataVars, passVars, raced, retVars, queryVars, faults>>

(* Mutant of Rewind: off by one, a write one hour behind does not rewind. *)
RewindOffByOne(hour) == IF hour + 1 < wm THEN hour ELSE wm

(* rewind_watermark: back to the hour of the batch's smallest timestamp. *)
Rewind(hour) == IF hour < wm THEN hour ELSE wm

(* The partition whose rollup rows retention is about to remove. *)
BeingCleaned(h) == tpc = "clean" /\ HourPart(h) = tpart

(* An hour of this pass's range that the pass will not look at again: its    *)
(* partition is rolled already, or did not exist when they were listed.      *)
AlreadyRolled(h) ==
    /\ rpc \in {"part", "agg", "advance"}
    /\ wm <= h /\ h < rcut
    /\ HourPart(h) \notin rtodo

(* insert_many: partitions, rows and the rewind in one transaction. *)
Insert ==
    /\ batch # {}
    /\ raw' = [h \in Hours |-> IF h \in batch THEN raw[h] + 1 ELSE raw[h]]
    /\ parts' = parts \cup {HourPart(h) : h \in batch}
    /\ \E m \in batch : IsFirst(m, batch) /\ wm' = Rewind(m)
    /\ raced' = raced \cup {h \in batch : AlreadyRolled(h) \/ BeingCleaned(h)}
    /\ batch' = {}
    /\ UNCHANGED <<now, roll, writes, passVars, retVars, queryVars, faults>>

-----------------------------------------------------------------------------
(* completed_hour_ns(now - skew_s). *)
Completed == IF now < Skew THEN 0 ELSE now - Skew

(* rollup_new_hours: the cutoff and the watermark are read. *)
PassStart ==
    /\ "rollup" \in Tasks
    /\ rpc = "idle"
    /\ wm < Completed
    /\ rcut' = Completed
    /\ rbase' = wm
    /\ rpc' = "list"
    /\ UNCHANGED <<now, dataVars, writeVars, rtodo, rstart, raced, retVars,
                   queryVars, faults>>

(* _partitions_for_range(watermark, completed). *)
PassList ==
    /\ rpc = "list"
    /\ rtodo' = {p \in parts : /\ (p + 1) * HoursPerPart >= rbase
                               /\ p * HoursPerPart < rcut}
    /\ rpc' = IF rtodo' = {} THEN "advance" ELSE "part"
    /\ UNCHANGED <<now, dataVars, writeVars, rbase, rcut, rstart, raced, retVars,
                   queryVars, faults>>

(* rollup_partition reads the watermark again... *)
PassRead ==
    /\ rpc = "part"
    /\ rstart' = wm
    /\ rpc' = "agg"
    /\ UNCHANGED <<now, dataVars, writeVars, rbase, rcut, rtodo, raced, retVars,
                   queryVars, faults>>

(* ...and aggregates [start, cutoff) of the next partition in a transaction. *)
(* A table retention has dropped raises: the pass is abandoned.              *)
RollRange(p) == {h \in Hours : HourPart(h) = p /\ rstart <= h /\ h < rcut}

PassAgg ==
    /\ rpc = "agg"
    /\ \E p \in rtodo :
         /\ IsFirst(p, rtodo)
         /\ \/ /\ p \in parts
               /\ roll' = [h \in Hours |-> IF h \in RollRange(p) /\ raw[h] > 0
                                           THEN raw[h] ELSE roll[h]]
               /\ raced' = raced \ {h \in RollRange(p) : raw[h] > 0 /\ ~BeingCleaned(h)}
               /\ rtodo' = rtodo \ {p}
               /\ rpc' = IF rtodo' = {} THEN "advance" ELSE "part"
            \/ /\ p \notin parts
               /\ rtodo' = {}
               /\ rpc' = "idle"
               /\ UNCHANGED <<roll, raced>>
    /\ UNCHANGED <<now, raw, parts, wm, writeVars, rbase, rcut, rstart, retVars,
                   queryVars, faults>>

(* Mutant of Settled: a rewind during the pass is overwritten. *)
SettledIgnoresRewind == rcut

(* Mutant of Settled: the minimum of the stored watermark and the cutoff. *)
SettledMinimum == IF wm # 0 /\ wm < rcut THEN wm ELSE rcut

(* The final transaction: a rewind since the first read wins, else the       *)
(* watermark moves to the cutoff.                                            *)
Settled == IF wm < rbase THEN wm ELSE rcut

PassAdvance ==
    /\ rpc = "advance"
    /\ wm' = Settled
    /\ rpc' = "idle"
    /\ UNCHANGED <<now, raw, parts, roll, writeVars, rbase, rcut, rtodo, rstart,
                   raced, retVars, queryVars, faults>>

-----------------------------------------------------------------------------
(* partitions_to_retain: the last day of a kept partition is not before the  *)
(* horizon.                                                                  *)
Expired(p) == (p + 1) * HoursPerPart - HoursPerDay + TTL < now

RetentionKeep ==
    /\ "retention" \in Tasks
    /\ tpc = "idle"
    /\ tkeep' = {p \in parts : ~Expired(p)}
    /\ tpc' = "list"
    /\ UNCHANGED <<now, dataVars, writeVars, passVars, raced, ttodo, tpart,
                   queryVars, faults>>

(* run lists the partitions a second time and drops those not in keep. *)
RetentionList ==
    /\ tpc = "list"
    /\ ttodo' = parts \ tkeep
    /\ tpc' = IF ttodo' = {} THEN "idle" ELSE "drop"
    /\ UNCHANGED <<now, dataVars, writeVars, passVars, raced, tkeep, tpart,
                   queryVars, faults>>

(* drop_partition, then _drop_rollup_rows in a transaction of its own.  A    *)
(* query under way is owed nothing of the partition any more.                *)
RetentionDrop ==
    /\ tpc = "drop"
    /\ \E p \in ttodo : IsFirst(p, ttodo) /\ tpart' = p
    /\ ttodo' = ttodo \ {tpart'}
    /\ parts' = parts \ {tpart'}
    /\ raw' = [h \in Hours |-> IF HourPart(h) = tpart' THEN 0 ELSE raw[h]]
    /\ tpc' = "clean"
    /\ q' = [q EXCEPT !.owed = [h \in Hours |->
                 IF HourPart(h) = tpart' THEN 0 ELSE q.owed[h]]]
    /\ UNCHANGED <<now, roll, wm, writeVars, passVars, raced, tkeep, qpc, faults>>

(* DELETE of the partition's hours from rollup_hourly. *)
DeletedFrom(p) == [h \in Hours |-> IF HourPart(h) = p THEN 0 ELSE roll[h]]

RetentionClean ==
    /\ tpc = "clean"
    /\ roll' = DeletedFrom(tpart)
    /\ raced' = {h \in raced : HourPart(h) = tpart => raw[h] > 0}
    /\ tpc' = IF ttodo = {} THEN "idle" ELSE "drop"
    /\ UNCHANGED <<now, raw, parts, wm, writeVars, passVars, tkeep, ttodo, tpart,
                   queryVars, faults>>

-----------------------------------------------------------------------------
(* A whole-window aggregate from hour "start" to hour "end", or, with an     *)
(* open end, to the clock.  _rollup_eligible reads the clock and the         *)
(* watermark; history "owed": the rows committed before that, in the hours   *)
(* the rollup has not missed.                                                *)
QueryStart ==
    /\ "query" \in Tasks
    /\ qpc = "idle"
    /\ \E s \in Hours, e \in Hours, o \in {"no", "yes"} :
         /\ o = "yes" => e = now
         /\ wm > 0 /\ e <= wm /\ e >= s + 2 /\ s < wm
         /\ q' = [NoQuery EXCEPT !.start = s, !.end = e, !.open = o, !.elig = e,
                     !.owed = [h \in Hours |-> IF h \in (s..e) \ raced THEN raw[h] ELSE 0]]
    /\ qpc' = "left"
    /\ UNCHANGED <<now, dataVars, writeVars, passVars, raced, retVars, faults>>

(* _rollup_window_partials: reads the clock again, then the first hour from  *)
(* the raw rows...                                                           *)
QueryLeft ==
    /\ qpc = "left"
    /\ q' = [q EXCEPT !.end = IF q.open = "yes" THEN now ELSE @,
                      !.seen = [@ EXCEPT ![q.start] = raw[q.start]]]
    /\ qpc' = "right"
    /\ UNCHANGED <<now, dataVars, writeVars, passVars, raced, retVars, faults>>

(* ...then the last hour... *)
QueryRight ==
    /\ qpc = "right"
    /\ q' = [q EXCEPT !.seen = [@ EXCEPT ![q.end] = raw[q.end]]]
    /\ qpc' = "middle"
    /\ UNCHANGED <<now, dataVars, writeVars, passVars, raced, retVars, faults>>

(* Mutant of Inside: the last whole hour is left out. *)
InsideShort(h) == q.start < h /\ h + 1 < q.end

(* ...and the hours between them from the rollup. *)
Inside(h) == q.start < h /\ h < q.end

QueryMiddle ==
    /\ qpc = "middle"
    /\ q' = [q EXCEPT !.seen = [h \in Hours |->
                 IF Inside(h) THEN roll[h] ELSE q.seen[h]]]
    /\ qpc' = "answered"
    /\ UNCHANGED <<now, dataVars, writeVars, passVars, raced, retVars, faults>>

QueryEnd ==
    /\ qpc = "answered"
    /\ qpc' = "idle"
    /\ q' = NoQuery
    /\ UNCHANGED <<now, dataVars, writeVars, passVars, raced, retVars, faults>>

-----------------------------------------------------------------------------
(* Retention is stopped before the rollup rows of tpart are removed: nothing  *)
(* will ever remove them.                                                    *)
RacedIfCut == raced \cup {h \in Hours : BeingCleaned(h)}

(* A transaction of the rollup pass raises (a busy database): the manager    *)
(* logs it and starts over.                                                  *)
PassRaises ==
    /\ rpc # "idle"
    /\ faults < MaxFaults
    /\ faults' = faults + 1
    /\ rpc' = "idle" /\ rtodo' = {}
    /\ UNCHANGED <<now, dataVars, writeVars, rbase, rcut, rstart, raced, retVars,
                   queryVars>>

(* A transaction of the retention pass raises. *)
RetentionRaises ==
    /\ tpc # "idle"
    /\ faults < MaxFaults
    /\ faults' = faults + 1
    /\ tpc' = "idle" /\ ttodo' = {}
    /\ raced' = RacedIfCut
    /\ UNCHANGED <<now, dataVars, writeVars, passVars, tkeep, tpart, queryVars>>

(* The process dies between two transactions and is started again: what was  *)
(* committed stays, the passes, the batch and the query are gone.            *)
Crash ==
    /\ faults < MaxFaults
    /\ faults' = faults + 1
    /\ batch' = {}
    /\ rpc' = "idle" /\ rtodo' = {}
    /\ tpc' = "idle" /\ ttodo' = {}
    /\ qpc' = "idle" /\ q' = NoQuery
    /\ raced' = RacedIfCut
    /\ UNCHANGED <<now, dataVars, writes, rbase, rcut, rstart, tkeep, tpart>>

Pass      == PassStart \/ PassList \/ PassRead \/ PassAgg \/ PassAdvance
Retention == RetentionKeep \/ RetentionList \/ RetentionDrop \/ RetentionClean
Query     == QueryStart \/ QueryLeft \/ QueryRight \/ QueryMiddle \/ QueryEnd

Next == Tick \/ Accept \/ Insert \/ Pass \/ Retention \/ Query
        \/ PassRaises \/ RetentionRaises \/ Crash

Spec == Init /\ [][Next]_vars

(* RollupManager repeats its pass for ever and each pass runs to its end;    *)
(* RetentionManager likewise.  Nothing forces the clock, writes, queries or  *)
(* faults.                                                                   *)
FairSpec == Spec /\ WF_vars(Pass) /\ WF_vars(Retention)

-----------------------------------------------------------------------------
(* Every variable has its type. *)
TypeOK ==
    /\ now \in Hours
    /\ raw \in [Hours -> Nat]
    /\ parts \in SUBSET Parts
    /\ roll \in [Hours -> Nat]
    /\ wm \in Hours
    /\ batch \in SUBSET Hours
    /\ writes \in 0..MaxWrites
    /\ rpc \in {"idle", "list", "part", "agg", "advance"}
    /\ rbase \in Hours
    /\ rcut \in Hours
    /\ rtodo \in SUBSET Parts
    /\ rstart \in Hours
    /\ raced \in SUBSET Hours
    /\ tpc \in {"idle", "list", "drop", "clean"}
    /\ tkeep \in SUBSET Parts
    /\ ttodo \in SUBSET Parts
    /\ tpart \in Parts
    /\ qpc \in {"idle", "left", "right", "middle", "answered"}
    /\ q \in [start : Hours, end : Hours, open : {"no", "yes"}, elig : Hours,
              owed : [Hours -> Nat], seen : [Hours -> Nat]]
    /\ faults \in 0..MaxFaults

(* Below the watermark the rollup agrees with the rows it stands for, and    *)
(* nothing of a dropped partition is left in it, after                       *)
(* any interleaving of writes, rewinds, interrupted passes and retention,    *)
(* except in an hour that was written between its aggregation and the end of *)
(* that pass, or written between the drop of its partition and the removal   *)
(* of the partition's rollup rows, or whose removal was interrupted there.   *)
ExactUnlessRaced ==
    /\ TypeOK
    /\ \A h \in Hours \ raced : ~BeingCleaned(h) =>
        /\ h < wm => roll[h] = raw[h]
        /\ HourPart(h) \notin parts => roll[h] = 0

(* A query answers with at least every row that was committed when it began  *)
(* and that retention has not dropped since, although the clock, the         *)
(* watermark, the raw edges and the rollup are read at four different times, *)
(* if the end hour is the same at both reads of the clock.                   *)
SteadyQueryComplete ==
    qpc = "answered" /\ q.end = q.elig => \A h \in Hours : q.seen[h] >= q.owed[h]

(* Once the clock and the writers rest, the watermark reaches the completed  *)
(* hour: no rewind pins it.                                                  *)
WatermarkCatchesUp == <>[](wm = Completed)
-----------------------------------------------------------------------------
(* "A write arriving up to skew_s late can never land in an hour that has    *)
(* already been rolled", and the fast path gives the "same exact answer".    *)
RollupExact == \A h \in Hours : h < wm /\ ~BeingCleaned(h) => roll[h] = raw[h]
=============================================================================
