---------------------------- MODULE RollupProofs ----------------------------
(***************************************************************************)
(* Proofs about Rollup for every value of its constants: any number of     *)
(* hours, any partition length, skew, TTL, number of writes and faults;    *)
(* and about WindowQuery, which takes the rollup for exact, that the parts *)
(* an aggregate is made of hold each row of the window once, for hours,    *)
(* months and buckets of any length.                                       *)
(***************************************************************************)
EXTENDS Rollup, WindowQuery, TLAPS

(* An hour about which the rollup promises something now. *)
Exact(h) == h \notin raced /\ ~BeingCleaned(h)

(* The tables.  Rows live in partitions that exist; an hour without rows has *)
(* no rollup row; rows written to a partition between its drop and the       *)
(* removal of its rollup rows are remembered as raced; and below the         *)
(* watermark the rollup counts the rows.                                     *)
StoreInv ==
    /\ \A h \in Hours : HourPart(h) \notin parts => raw[h] = 0
    /\ \A h \in Hours : Exact(h) /\ raw[h] = 0 => roll[h] = 0
    /\ \A h \in Hours : BeingCleaned(h) /\ raw[h] > 0 => h \in raced
    /\ \A h \in Hours : Exact(h) /\ h < wm => roll[h] = raw[h]

(* A pass under way.  Until it ends the watermark only goes back, and as     *)
(* long as it has not, the hours from it to the cutoff are counted in every  *)
(* partition the pass is done with.                                          *)
PassInv ==
    /\ rpc # "idle" => wm <= rbase
    /\ rpc = "agg" => wm <= rstart /\ rstart <= rbase
    /\ rpc = "advance" => rtodo = {}
    /\ rpc \in {"part", "agg", "advance"} /\ wm = rbase =>
         \A h \in Hours : /\ rbase <= h /\ h < rcut
                          /\ HourPart(h) \notin rtodo
                          /\ Exact(h)
                          => roll[h] = raw[h]

IInv == TypeOK /\ StoreInv /\ PassInv

USE RollupAssumption

(* Which hours a partition has. *)
LEMMA DivFacts ==
  ASSUME NEW h \in Nat, NEW n \in Nat \ {0}
  PROVE  /\ h \div n \in Nat
         /\ (h \div n) * n <= h
         /\ h < ((h \div n) + 1) * n
  OBVIOUS

(* The partition of an hour, and which hours it spans. *)
LEMMA HourPartFacts ==
  ASSUME NEW h \in Hours
  PROVE  /\ HourPart(h) \in Parts /\ HourPart(h) \in Nat
         /\ HourPart(h) * HoursPerPart <= h
         /\ h < (HourPart(h) + 1) * HoursPerPart
  <1>1. h \in Nat /\ HoursPerPart \in Nat \ {0}
    BY DEF Hours
  <1>2. HourPart(h) \in Parts
    BY DEF Parts
  <1> QED BY <1>1, <1>2, DivFacts DEF HourPart

(* The first state satisfies the inductive invariant. *)
LEMMA IInvInit == Init => IInv
  <1> SUFFICES ASSUME Init PROVE IInv
    OBVIOUS
  <1>1. 0 \in Hours
    BY DEF Hours
  <1>2. 0 \in Parts
    <2>1. HourPart(0) \in Nat /\ HourPart(0) * HoursPerPart <= 0 /\ HourPart(0) \in Parts
      BY <1>1, HourPartFacts
    <2>2. HourPart(0) = 0
      BY <2>1
    <2> QED BY <2>1, <2>2
  <1>3. TypeOK
    BY <1>1, <1>2 DEF Init, TypeOK, NoQuery
  <1>4. StoreInv /\ PassInv
    BY <1>1 DEF Init, StoreInv, PassInv, BeingCleaned, Hours
  <1> QED BY <1>3, <1>4 DEF IInv

(* Each step keeps the types. *)
LEMMA TypeOKStep == TypeOK /\ [Next]_vars => TypeOK'
  <1> SUFFICES ASSUME TypeOK, [Next]_vars PROVE TypeOK'
    OBVIOUS
  <1> USE DEF dataVars, writeVars, passVars, retVars, queryVars
  <1>0. NoQuery \in [start : Hours, end : Hours, open : {"no", "yes"}, elig : Hours,
                     owed : [Hours -> Nat], seen : [Hours -> Nat]]
    BY DEF NoQuery, Hours
  <1>1. CASE Tick
    <2>1. now' \in Hours
      BY <1>1 DEF Tick, TypeOK, Hours
    <2> QED BY <1>1, <2>1 DEF Tick, TypeOK
  <1>2. CASE Accept
    BY <1>2 DEF Accept, TypeOK
  <1>3. CASE Insert
    <2>1. raw' \in [Hours -> Nat]
      BY <1>3 DEF Insert, TypeOK
    <2>2. parts' \in SUBSET Parts
      BY <1>3 DEF Insert, TypeOK, Parts
    <2>3. wm' \in Hours
      BY <1>3 DEF Insert, TypeOK, Rewind
    <2>4. raced' \in SUBSET Hours
      BY <1>3 DEF Insert, TypeOK
    <2> QED BY <1>3, <2>1, <2>2, <2>3, <2>4 DEF Insert, TypeOK
  <1>4. CASE PassStart
    <2>1. Completed \in Hours
      BY DEF Completed, TypeOK, Hours
    <2> QED BY <1>4, <2>1 DEF PassStart, TypeOK
  <1>5. CASE PassList
    BY <1>5 DEF PassList, TypeOK
  <1>6. CASE PassRead
    BY <1>6 DEF PassRead, TypeOK
  <1>7. CASE PassAgg
    <2>1. roll' \in [Hours -> Nat] /\ raced' \in SUBSET Hours /\ rtodo' \in SUBSET Parts
      BY <1>7 DEF PassAgg, TypeOK
    <2> QED BY <1>7, <2>1 DEF PassAgg, TypeOK
  <1>8. CASE PassAdvance
    BY <1>8 DEF PassAdvance, Settled, TypeOK
  <1>9. CASE RetentionKeep \/ RetentionList
    BY <1>9 DEF RetentionKeep, RetentionList, TypeOK
  <1>10. CASE RetentionDrop
    <2>1. tpart' \in Parts /\ ttodo' \in SUBSET Parts /\ parts' \in SUBSET Parts
          /\ raw' \in [Hours -> Nat]
      BY <1>10 DEF RetentionDrop, TypeOK
    <2>2. q' \in [start : Hours, end : Hours, open : {"no", "yes"}, elig : Hours,
                  owed : [Hours -> Nat], seen : [Hours -> Nat]]
      BY <1>10 DEF RetentionDrop, TypeOK
    <2> QED BY <1>10, <2>1, <2>2 DEF RetentionDrop, TypeOK
  <1>11. CASE RetentionClean
    BY <1>11 DEF RetentionClean, DeletedFrom, TypeOK
  <1>12. CASE Query
    <2>1. q' \in [start : Hours, end : Hours, open : {"no", "yes"}, elig : Hours,
                  owed : [Hours -> Nat], seen : [Hours -> Nat]]
      <3>1. CASE QueryStart
        <4>1. PICK s \in Hours, e \in Hours, o \in {"no", "yes"} :
                q' = [NoQuery EXCEPT !.start = s, !.end = e, !.open = o, !.elig = e,
                        !.owed = [h \in Hours |-> IF h \in (s..e) \ raced THEN raw[h] ELSE 0]]
          BY <3>1 DEF QueryStart
        <4>2. [h \in Hours |-> IF h \in (s..e) \ raced THEN raw[h] ELSE 0] \in [Hours -> Nat]
          BY DEF TypeOK
        <4> QED BY <4>1, <4>2, <1>0 DEF NoQuery
      <3>2. CASE QueryLeft
        BY <3>2 DEF QueryLeft, TypeOK
      <3>3. CASE QueryRight
        BY <3>3 DEF QueryRight, TypeOK
      <3>4. CASE QueryMiddle
        BY <3>4 DEF QueryMiddle, TypeOK
      <3>5. CASE QueryEnd
        BY <1>0, <3>5 DEF QueryEnd
      <3> QED BY <1>12, <3>1, <3>2, <3>3, <3>4, <3>5 DEF Query
    <2> QED
      BY <1>12, <2>1 DEF Query, QueryStart, QueryLeft, QueryRight, QueryMiddle, QueryEnd,
                         TypeOK
  <1>13. CASE PassRaises \/ RetentionRaises \/ Crash
    BY <1>0, <1>13 DEF PassRaises, RetentionRaises, Crash, RacedIfCut, TypeOK
  <1>14. CASE UNCHANGED vars
    BY <1>14 DEF vars, TypeOK
  <1> QED
    BY <1>1, <1>2, <1>3, <1>4, <1>5, <1>6, <1>7, <1>8, <1>9, <1>10, <1>11, <1>12, <1>13, <1>14
       DEF Next, Pass, Retention

(* Hours are numbers. *)
LEMMA Numbers ==
  ASSUME TypeOK
  PROVE  /\ wm \in Nat /\ rbase \in Nat /\ rcut \in Nat /\ rstart \in Nat /\ now \in Nat
         /\ Hours \subseteq Nat /\ \A h \in Hours : h \in Nat /\ raw[h] \in Nat /\ roll[h] \in Nat
  <1>1. Hours \subseteq Nat
    BY DEF Hours
  <1> QED BY <1>1 DEF TypeOK

(* Each step keeps the tables and the pass consistent. *)
LEMMA StoreStep == IInv /\ [Next]_vars => StoreInv' /\ PassInv'
  <1> SUFFICES ASSUME IInv, [Next]_vars PROVE StoreInv' /\ PassInv'
    OBVIOUS
  <1>0. TypeOK /\ TypeOK' /\ StoreInv /\ PassInv
    BY TypeOKStep DEF IInv
  <1>n. /\ wm \in Nat /\ rbase \in Nat /\ rcut \in Nat /\ rstart \in Nat /\ now \in Nat
        /\ Hours \subseteq Nat /\ \A h \in Hours : h \in Nat /\ raw[h] \in Nat /\ roll[h] \in Nat
    BY <1>0, Numbers
  <1> USE DEF dataVars, writeVars, passVars, retVars, queryVars
  <1>1. CASE UNCHANGED <<raw, parts, roll, wm, rpc, rbase, rcut, rtodo, rstart, raced, tpc, tpart>>
    BY <1>0, <1>1 DEF StoreInv, PassInv, Exact, BeingCleaned
  <1>2. CASE Insert
    <2>1. PICK m \in batch : IsFirst(m, batch) /\ wm' = Rewind(m)
      BY <1>2 DEF Insert
    <2>2. /\ \A h \in Hours : h \in batch => raw'[h] = raw[h] + 1
          /\ \A h \in Hours : h \notin batch => raw'[h] = raw[h]
          /\ \A h \in Hours : raw[h] \in Nat
          /\ batch \subseteq Hours /\ Hours \subseteq Nat
      BY <1>0, <1>n, <1>2 DEF Insert, TypeOK
    <2>3. /\ wm' <= wm /\ wm' \in Nat /\ wm \in Nat
          /\ wm' = wm => \A h \in batch : wm <= h
          /\ \A h \in batch : wm' <= h
      BY <1>n, <2>1, <2>2 DEF Rewind, IsFirst
    <2>4. /\ UNCHANGED <<roll, rpc, rbase, rcut, rtodo, rstart, tpc, tpart>>
          /\ \A h : BeingCleaned(h) <=> BeingCleaned(h)'
          /\ \A h : h \in raced' <=> h \in raced \/ (h \in batch /\ (AlreadyRolled(h) \/ BeingCleaned(h)))
          /\ \A h : h \in batch => HourPart(h) \in parts'
          /\ parts \subseteq parts'
      BY <1>2 DEF Insert, BeingCleaned
    <2>5. \A h \in Hours : HourPart(h) \notin parts' => raw'[h] = 0
      BY <1>0, <2>2, <2>4 DEF StoreInv
    <2>6. \A h \in Hours : Exact(h)' => Exact(h)
      BY <2>4 DEF Exact
    <2>7. \A h \in Hours : Exact(h)' /\ raw'[h] = 0 => roll'[h] = 0
      BY <1>0, <2>2, <2>4, <2>6 DEF StoreInv
    <2>8. \A h \in Hours : BeingCleaned(h)' /\ raw'[h] > 0 => h \in raced'
      BY <1>0, <2>2, <2>4 DEF StoreInv
    <2>9. \A h \in Hours : Exact(h)' /\ h < wm' => roll'[h] = raw'[h]
      BY <1>0, <1>n, <2>2, <2>3, <2>4, <2>6 DEF StoreInv
    <2>10. StoreInv'
      BY <2>4, <2>5, <2>7, <2>8, <2>9 DEF StoreInv
    <2>11. /\ rpc' # "idle" => wm' <= rbase'
           /\ rpc' = "agg" => wm' <= rstart' /\ rstart' <= rbase'
           /\ rpc' = "advance" => rtodo' = {}
      BY <1>0, <1>n, <2>3, <2>4 DEF PassInv
    <2>12. ASSUME rpc' \in {"part", "agg", "advance"}, wm' = rbase',
                  NEW h \in Hours, rbase' <= h, h < rcut', HourPart(h) \notin rtodo', Exact(h)'
           PROVE  roll'[h] = raw'[h]
      <3>1. wm = rbase /\ wm' = wm
        BY <1>0, <1>n, <2>3, <2>4, <2>12 DEF PassInv
      <3>2. h \notin batch
        BY <2>3, <2>4, <2>12, <3>1 DEF Exact, AlreadyRolled
      <3> QED BY <1>0, <2>2, <2>4, <2>6, <2>12, <3>1, <3>2 DEF PassInv
    <2> QED BY <2>4, <2>10, <2>11, <2>12 DEF PassInv
  <1>3. CASE PassStart
    BY <1>0, <1>n, <1>3 DEF PassStart, StoreInv, PassInv, Exact, BeingCleaned
  <1>4. CASE PassList
    <2>1. /\ UNCHANGED <<raw, parts, roll, wm, rbase, rcut, rstart, raced, tpc, tpart>>
          /\ rpc = "list" /\ rpc' \in {"part", "advance"}
          /\ rpc' = "advance" => rtodo' = {}
          /\ \A p \in parts : (p + 1) * HoursPerPart >= rbase /\ p * HoursPerPart < rcut => p \in rtodo'
      BY <1>4 DEF PassList
    <2>2. StoreInv'
      BY <1>0, <2>1 DEF StoreInv, Exact, BeingCleaned
    <2>3. ASSUME NEW h \in Hours, rbase <= h, h < rcut, HourPart(h) \notin rtodo', Exact(h)
          PROVE  roll[h] = raw[h]
      <3>1. /\ HourPart(h) \in Nat /\ HourPart(h) * HoursPerPart <= h
            /\ h < (HourPart(h) + 1) * HoursPerPart
        BY HourPartFacts
      <3>2. HourPart(h) * HoursPerPart \in Nat /\ (HourPart(h) + 1) * HoursPerPart \in Nat
        BY <3>1
      <3>3. /\ (HourPart(h) + 1) * HoursPerPart >= rbase /\ HourPart(h) * HoursPerPart < rcut
        BY <1>n, <2>3, <3>1, <3>2
      <3>4. HourPart(h) \notin parts
        BY <2>1, <2>3, <3>3
      <3> QED BY <1>0, <2>3, <3>4 DEF StoreInv
    <2> QED BY <1>0, <2>1, <2>2, <2>3 DEF PassInv, Exact, BeingCleaned
  <1>5. CASE PassRead
    <2>1. /\ UNCHANGED <<raw, parts, roll, wm, rbase, rcut, rtodo, raced, tpc, tpart>>
          /\ rpc = "part" /\ rpc' = "agg" /\ rstart' = wm
      BY <1>5 DEF PassRead
    <2>2. wm <= wm /\ wm \in Nat
      BY <1>n
    <2> QED BY <1>0, <2>1, <2>2 DEF StoreInv, PassInv, Exact, BeingCleaned
  <1>6. CASE PassAgg
    <2>0. UNCHANGED <<raw, parts, wm, rbase, rcut, rstart, tpc, tpart>> /\ rpc = "agg"
          /\ \A h : BeingCleaned(h) <=> BeingCleaned(h)'
      BY <1>6 DEF PassAgg, BeingCleaned
    <2>1. CASE UNCHANGED <<roll, raced>> /\ rpc' = "idle"
      BY <1>0, <2>0, <2>1 DEF StoreInv, PassInv, Exact
    <2>2. ASSUME NEW p \in rtodo,
                 roll' = [h \in Hours |-> IF h \in RollRange(p) /\ raw[h] > 0
                                          THEN raw[h] ELSE roll[h]],
                 raced' = raced \ {h \in RollRange(p) : raw[h] > 0 /\ ~BeingCleaned(h)},
                 rtodo' = rtodo \ {p},
                 rpc' = IF rtodo' = {} THEN "advance" ELSE "part"
          PROVE  StoreInv' /\ PassInv'
      <3>1. \A h \in Hours : \/ roll'[h] = raw[h]
                             \/ roll'[h] = roll[h] /\ (h \in raced' <=> h \in raced)
        BY <2>2
      <3>2. StoreInv'
        <4>1. \A h \in Hours : Exact(h)' /\ raw[h] = 0 => roll'[h] = 0
          BY <1>0, <2>0, <3>1 DEF StoreInv, Exact
        <4>2. \A h \in Hours : BeingCleaned(h) /\ raw[h] > 0 => h \in raced'
          BY <1>0, <2>0, <2>2 DEF StoreInv
        <4>3. \A h \in Hours : Exact(h)' /\ h < wm => roll'[h] = raw[h]
          BY <1>0, <2>0, <3>1 DEF StoreInv, Exact
        <4> QED BY <1>0, <2>0, <4>1, <4>2, <4>3 DEF StoreInv
      <3>3. ASSUME wm = rbase, NEW h \in Hours, rbase <= h, h < rcut,
                   HourPart(h) \notin rtodo', Exact(h)'
            PROVE  roll'[h] = raw[h]
        <4>1. rstart = rbase
          BY <1>0, <1>n, <2>0, <3>3 DEF PassInv
        <4>2. CASE HourPart(h) \notin rtodo
          BY <1>0, <2>0, <3>1, <3>3, <4>2 DEF PassInv, Exact
        <4>3. CASE HourPart(h) = p /\ raw[h] > 0
          BY <2>2, <3>3, <4>1, <4>3 DEF RollRange
        <4>4. CASE raw[h] = 0
          BY <2>0, <3>2, <3>3, <4>4 DEF StoreInv
        <4> QED BY <1>0, <2>2, <3>3, <4>2, <4>3, <4>4 DEF TypeOK
      <3> QED BY <1>0, <2>0, <2>2, <3>2, <3>3 DEF PassInv
    <2> QED BY <1>6, <2>1, <2>2 DEF PassAgg
  <1>7. CASE PassAdvance
    <2>1. /\ UNCHANGED <<raw, parts, roll, rbase, rcut, rtodo, rstart, raced, tpc, tpart>>
          /\ rpc = "advance" /\ rpc' = "idle" /\ wm' = IF wm < rbase THEN wm ELSE rcut
      BY <1>7 DEF PassAdvance, Settled
    <2>2. \A h \in Hours : Exact(h) /\ h < wm' => roll[h] = raw[h]
      <3>1. CASE wm < rbase
        BY <1>0, <2>1, <3>1 DEF StoreInv
      <3>2. CASE ~(wm < rbase)
        <4>1. wm = rbase /\ rtodo = {} /\ wm' = rcut
          BY <1>0, <1>n, <2>1, <3>2 DEF PassInv
        <4> QED BY <1>0, <1>n, <2>1, <4>1 DEF StoreInv, PassInv
      <3> QED BY <3>1, <3>2
    <2> QED BY <1>0, <2>1, <2>2 DEF StoreInv, PassInv, Exact, BeingCleaned
  <1>8. CASE RetentionKeep \/ RetentionList
    <2>1. /\ UNCHANGED <<raw, parts, roll, wm, rpc, rbase, rcut, rtodo, rstart, raced>>
          /\ \A h : ~BeingCleaned(h) /\ ~BeingCleaned(h)'
      BY <1>8 DEF RetentionKeep, RetentionList, BeingCleaned
    <2> QED BY <1>0, <2>1 DEF StoreInv, PassInv, Exact
  <1>9. CASE RetentionDrop
    <2>1. /\ UNCHANGED <<roll, wm, rpc, rbase, rcut, rtodo, rstart, raced>>
          /\ parts' = parts \ {tpart'}
          /\ \A h \in Hours : raw'[h] = IF HourPart(h) = tpart' THEN 0 ELSE raw[h]
          /\ \A h : ~BeingCleaned(h) /\ (BeingCleaned(h)' <=> HourPart(h) = tpart')
      BY <1>9 DEF RetentionDrop, BeingCleaned
    <2>2. \A h \in Hours : Exact(h)' => Exact(h) /\ raw'[h] = raw[h]
      BY <2>1 DEF Exact
    <2>3. /\ \A h \in Hours : HourPart(h) \notin parts' => raw'[h] = 0
          /\ \A h \in Hours : BeingCleaned(h)' => raw'[h] = 0
      BY <1>0, <2>1 DEF StoreInv
    <2>4. StoreInv'
      BY <1>0, <2>1, <2>2, <2>3 DEF StoreInv
    <2>5. PassInv'
      BY <1>0, <2>1, <2>2 DEF PassInv
    <2> QED BY <2>4, <2>5
  <1>10. CASE RetentionClean
    <2>1. /\ UNCHANGED <<raw, parts, wm, rpc, rbase, rcut, rtodo, rstart>>
          /\ \A h \in Hours : roll'[h] = IF HourPart(h) = tpart THEN 0 ELSE roll[h]
          /\ \A h : h \in raced' <=> h \in raced /\ (HourPart(h) = tpart => raw[h] > 0)
          /\ \A h : (BeingCleaned(h) <=> HourPart(h) = tpart) /\ ~BeingCleaned(h)'
      BY <1>10 DEF RetentionClean, DeletedFrom, BeingCleaned
    <2>2. \A h \in Hours : Exact(h)' => (Exact(h) /\ roll'[h] = roll[h]) \/ roll'[h] = raw[h]
      <3> SUFFICES ASSUME NEW h \in Hours, Exact(h)', HourPart(h) = tpart
                   PROVE  roll'[h] = raw[h]
        BY <2>1 DEF Exact
      <3>1. raw[h] = 0
        BY <1>0, <2>1 DEF Exact, StoreInv, TypeOK
      <3> QED BY <2>1, <3>1
    <2>3. StoreInv'
      BY <1>0, <2>1, <2>2 DEF StoreInv
    <2>4. PassInv'
      BY <1>0, <2>1, <2>2 DEF PassInv
    <2> QED BY <2>3, <2>4
  <1>11. CASE PassRaises
    BY <1>0, <1>11 DEF PassRaises, StoreInv, PassInv, Exact, BeingCleaned
  <1>12. CASE RetentionRaises \/ Crash
    <2>1. /\ UNCHANGED <<raw, parts, roll, wm, rbase, rcut, rstart>>
          /\ rpc' = "idle" \/ UNCHANGED <<rpc, rtodo>>
          /\ \A h : h \in raced' <=> h \in raced \/ (h \in Hours /\ BeingCleaned(h))
          /\ \A h : ~BeingCleaned(h)'
      BY <1>12 DEF RetentionRaises, Crash, RacedIfCut, BeingCleaned
    <2>2. \A h \in Hours : Exact(h)' => Exact(h)
      BY <2>1 DEF Exact
    <2>3. StoreInv'
      BY <1>0, <2>1, <2>2 DEF StoreInv
    <2>4. PassInv'
      BY <1>0, <2>1, <2>2 DEF PassInv
    <2> QED BY <2>3, <2>4
  <1> QED
    BY <1>1, <1>2, <1>3, <1>4, <1>5, <1>6, <1>7, <1>8, <1>9, <1>10, <1>11, <1>12
       DEF Next, Tick, Accept, Pass, Retention, Query, QueryStart, QueryLeft, QueryRight,
           QueryMiddle, QueryEnd, vars

(* The inductive invariant holds in every reachable state. *)
LEMMA IInvAlways == Spec => []IInv
  <1>1. IInv /\ [Next]_vars => IInv'
    BY TypeOKStep, StoreStep DEF IInv
  <1> QED BY <1>1, IInvInit, PTL DEF Spec

(* Below the watermark the rollup counts exactly the rows of every hour, and *)
(* a dropped partition leaves nothing behind in it, whatever the             *)
(* interleaving of insert_many, rewind_watermark, rollup_new_hours,          *)
(* RetentionPolicy.run, crashes and passes that raise; the hours written     *)
(* into one of the two windows raced names are the only exception.           *)
THEOREM AlwaysExactUnlessRaced == Spec => []ExactUnlessRaced
  <1>1. IInv => ExactUnlessRaced
    <2> SUFFICES ASSUME IInv PROVE ExactUnlessRaced
      OBVIOUS
    <2>1. ASSUME NEW h \in Hours \ raced, ~BeingCleaned(h)
          PROVE  /\ h < wm => roll[h] = raw[h]
                 /\ HourPart(h) \notin parts => roll[h] = 0
      BY <2>1 DEF IInv, StoreInv, Exact
    <2> QED BY <2>1 DEF ExactUnlessRaced, IInv
  <1> QED BY <1>1, IInvAlways, PTL

-----------------------------------------------------------------------------
(* A query under way.  What it is owed is no more than the rows there are,   *)
(* lies in its window, and is none of a partition being dropped; the rollup  *)
(* has what is owed of the hours inside; and what was read of the edges is   *)
(* enough for as long as it will be used.                                    *)
QueryInv ==
    /\ \A h \in Hours : q.owed[h] <= raw[h]
    /\ \A h \in Hours : q.owed[h] > 0 => q.start <= h /\ h <= q.elig
    /\ \A h \in Hours : BeingCleaned(h) => q.owed[h] = 0
    /\ qpc \in {"left", "right", "middle"} =>
         \A h \in Hours : q.start < h /\ h < q.elig => q.owed[h] <= roll[h]
    /\ qpc \in {"right", "middle"} => q.owed[q.start] <= q.seen[q.start]
    /\ qpc = "middle" => q.owed[q.end] <= q.seen[q.end]
    /\ SteadyQueryComplete

(* Every step keeps what a query under way may rely on. *)
LEMMA QueryInvStep == IInv /\ QueryInv /\ [Next]_vars => QueryInv'
  <1> SUFFICES ASSUME IInv, QueryInv, [Next]_vars PROVE QueryInv'
    OBVIOUS
  <1>0. TypeOK /\ TypeOK' /\ StoreInv
    BY TypeOKStep DEF IInv
  <1>n. /\ wm \in Nat /\ rbase \in Nat /\ rcut \in Nat /\ rstart \in Nat /\ now \in Nat
        /\ Hours \subseteq Nat /\ \A h \in Hours : h \in Nat /\ raw[h] \in Nat /\ roll[h] \in Nat
    BY <1>0, Numbers
  <1>q. /\ q \in [start : Hours, end : Hours, open : {"no", "yes"}, elig : Hours,
                  owed : [Hours -> Nat], seen : [Hours -> Nat]]
        /\ \A h \in Hours : q.owed[h] \in Nat /\ q.seen[h] \in Nat
        /\ q.start \in Hours /\ q.end \in Hours /\ q.elig \in Hours
    BY <1>0 DEF TypeOK
  <1>r. /\ \A h \in Hours : h \in Nat /\ q.owed[h] \in Nat /\ q.seen[h] \in Nat /\ roll[h] \in Nat
        /\ q.start \in Nat /\ q.end \in Nat /\ q.elig \in Nat
    BY <1>n, <1>q
  <1>m. \A h \in Hours : raw'[h] \in Nat /\ roll'[h] \in Nat
    BY <1>0 DEF TypeOK
  <1> USE DEF dataVars, writeVars, passVars, retVars, queryVars
  <1>a. ASSUME UNCHANGED <<qpc, q>>,
               \A h \in Hours : raw[h] <= raw'[h],
               \A h \in Hours : BeingCleaned(h)' => BeingCleaned(h),
               \A h \in Hours : roll'[h] = raw[h] \/ roll'[h] = roll[h] \/ q.owed[h] = 0
        PROVE  QueryInv'
    <2>1. \A h \in Hours : q.owed[h] <= raw'[h]
      BY <1>n, <1>m, <1>q, <1>a DEF QueryInv
    <2>2. \A h \in Hours : q.owed[h] <= roll[h] => q.owed[h] <= roll'[h]
      BY <1>n, <1>m, <1>q, <1>a DEF QueryInv
    <2> QED BY <1>a, <2>1, <2>2 DEF QueryInv, SteadyQueryComplete
  <1>1. CASE Tick \/ Accept \/ PassStart \/ PassList \/ PassRead \/ PassAdvance
             \/ RetentionKeep \/ RetentionList \/ PassRaises \/ RetentionRaises
             \/ UNCHANGED vars
    <2>1. /\ UNCHANGED <<qpc, q, raw, roll>>
          /\ \A h : BeingCleaned(h)' => BeingCleaned(h)
      BY <1>1 DEF Tick, Accept, PassStart, PassList, PassRead, PassAdvance, RetentionKeep,
                  RetentionList, PassRaises, RetentionRaises, vars, BeingCleaned
    <2>2. \A h \in Hours : raw[h] <= raw[h]
      BY <1>n
    <2> QED BY <1>a, <2>1, <2>2
  <1>2. CASE Insert
    <2>1. /\ UNCHANGED <<qpc, q, roll>>
          /\ \A h : BeingCleaned(h)' => BeingCleaned(h)
          /\ \A h \in Hours : raw'[h] = raw[h] \/ raw'[h] = raw[h] + 1
      BY <1>2 DEF Insert, BeingCleaned
    <2>2. \A h \in Hours : raw[h] <= raw'[h]
      BY <1>n, <2>1
    <2> QED BY <1>a, <2>1, <2>2
  <1>3. CASE PassAgg
    <2>1. /\ UNCHANGED <<qpc, q, raw>>
          /\ \A h : BeingCleaned(h)' => BeingCleaned(h)
      BY <1>3 DEF PassAgg, BeingCleaned
    <2>2. \A h \in Hours : roll'[h] = raw[h] \/ roll'[h] = roll[h]
      BY <1>3 DEF PassAgg
    <2>3. \A h \in Hours : raw[h] <= raw[h]
      BY <1>n
    <2> QED BY <1>a, <2>1, <2>2, <2>3
  <1>4. CASE RetentionDrop
    <2>1. /\ UNCHANGED <<roll, qpc>>
          /\ \A h \in Hours : raw'[h] = IF HourPart(h) = tpart' THEN 0 ELSE raw[h]
          /\ \A h : BeingCleaned(h)' <=> HourPart(h) = tpart'
      BY <1>4 DEF RetentionDrop, BeingCleaned
    <2>2. /\ UNCHANGED <<q.start, q.end, q.elig, q.seen>>
          /\ \A h \in Hours : q'.owed[h] = IF HourPart(h) = tpart' THEN 0 ELSE q.owed[h]
      BY <1>q, <1>4 DEF RetentionDrop
    <2> HIDE <1>4
    <2>3. \A h \in Hours : q'.owed[h] = 0 \/ q'.owed[h] = q.owed[h]
      BY <2>2
    <2>4. \A h \in Hours : q'.owed[h] <= raw'[h]
      <3>1. \A h \in Hours : q.owed[h] <= raw[h]
        BY DEF QueryInv
      <3> TAKE h \in Hours
      <3>2. CASE HourPart(h) = tpart'
        BY <2>1, <2>2, <3>2
      <3>3. CASE HourPart(h) # tpart'
        BY <2>1, <2>2, <3>1, <3>3
      <3> QED BY <3>2, <3>3
    <2>5. \A h \in Hours : /\ q.owed[h] <= roll[h] => q'.owed[h] <= roll[h]
                           /\ q.owed[h] <= q.seen[h] => q'.owed[h] <= q.seen[h]
      BY <1>r, <2>3
    <2>6. SteadyQueryComplete'
      BY <2>1, <2>2, <2>5 DEF QueryInv, SteadyQueryComplete
    <2> QED BY <1>q, <2>1, <2>2, <2>3, <2>4, <2>5, <2>6 DEF QueryInv
  <1>5. CASE RetentionClean
    <2>1. /\ UNCHANGED <<qpc, q, raw>>
          /\ \A h : ~BeingCleaned(h)'
          /\ \A h \in Hours : roll'[h] = roll[h] \/ BeingCleaned(h)
      BY <1>5 DEF RetentionClean, DeletedFrom, BeingCleaned
    <2>2. \A h \in Hours : raw[h] <= raw[h]
      BY <1>n
    <2>3. \A h \in Hours : roll'[h] = roll[h] \/ q.owed[h] = 0
      BY <2>1 DEF QueryInv
    <2> QED BY <1>a, <2>1, <2>2, <2>3
  <1>6. CASE QueryStart
    <2>1. PICK s \in Hours, e \in Hours, o \in {"no", "yes"} :
            /\ e <= wm
            /\ q' = [NoQuery EXCEPT !.start = s, !.end = e, !.open = o, !.elig = e,
                        !.owed = [h \in Hours |-> IF h \in (s..e) \ raced THEN raw[h] ELSE 0]]
      BY <1>6 DEF QueryStart
    <2>2. /\ q'.start = s /\ q'.elig = e
          /\ \A h \in Hours : q'.owed[h] = IF h \in (s..e) \ raced THEN raw[h] ELSE 0
      BY <2>1 DEF NoQuery
    <2>3. /\ UNCHANGED <<raw, roll, wm, raced>> /\ qpc' = "left"
          /\ \A h : BeingCleaned(h)' <=> BeingCleaned(h)
      BY <1>6 DEF QueryStart, BeingCleaned
    <2>4. \A h \in Hours : q'.owed[h] <= raw'[h]
      <3>1. \A h \in Hours : raw'[h] = raw[h] /\ raw[h] \in Nat
        BY <1>n, <2>3
      <3>2. \A h \in Hours : q'.owed[h] = raw[h] \/ q'.owed[h] = 0
        BY <2>2
      <3> QED BY <3>1, <3>2
    <2>5. \A h \in Hours : q'.owed[h] > 0 => q'.start <= h /\ h <= q'.elig
      BY <1>n, <2>2
    <2>6. \A h \in Hours : BeingCleaned(h) => q'.owed[h] = 0
      BY <1>0, <1>n, <2>2 DEF StoreInv
    <2>7. ASSUME NEW h \in Hours, s < h, h < e PROVE q'.owed[h] <= roll[h]
      <3>1. CASE h \in raced \/ BeingCleaned(h)
        BY <1>n, <2>2, <2>6, <3>1
      <3>2. CASE h \notin raced /\ ~BeingCleaned(h)
        <4>1. h < wm
          BY <1>n, <2>1, <2>7
        <4>2. roll[h] = raw[h]
          BY <1>0, <3>2, <4>1 DEF StoreInv, Exact
        <4> QED BY <1>n, <2>2, <4>2
      <3> QED BY <3>1, <3>2
    <2> QED BY <2>2, <2>3, <2>4, <2>5, <2>6, <2>7 DEF QueryInv, SteadyQueryComplete
  <1>7. CASE QueryLeft
    <2>1. /\ UNCHANGED <<raw, roll>> /\ qpc = "left" /\ qpc' = "right"
          /\ \A h : BeingCleaned(h)' <=> BeingCleaned(h)
      BY <1>7 DEF QueryLeft, BeingCleaned
    <2>2. UNCHANGED <<q.start, q.elig, q.owed>> /\ q'.seen[q.start] = raw[q.start]
      BY <1>q, <1>7 DEF QueryLeft
    <2> QED BY <1>q, <2>1, <2>2 DEF QueryInv, SteadyQueryComplete
  <1>8. CASE QueryRight
    <2>1. /\ UNCHANGED <<raw, roll>> /\ qpc = "right" /\ qpc' = "middle"
          /\ \A h : BeingCleaned(h)' <=> BeingCleaned(h)
      BY <1>8 DEF QueryRight, BeingCleaned
    <2>2. /\ UNCHANGED <<q.start, q.end, q.elig, q.owed>>
          /\ \A h \in Hours : q'.seen[h] = IF h = q.end THEN raw[h] ELSE q.seen[h]
      BY <1>q, <1>8 DEF QueryRight
    <2>3. q.owed[q.start] <= q'.seen[q.start] /\ q.owed[q.end] <= q'.seen[q.end]
      BY <1>q, <2>1, <2>2 DEF QueryInv
    <2> QED BY <2>1, <2>2, <2>3 DEF QueryInv, SteadyQueryComplete
  <1>9. CASE QueryMiddle
    <2>1. /\ UNCHANGED <<raw, roll>> /\ qpc = "middle" /\ qpc' = "answered"
          /\ \A h : BeingCleaned(h)' <=> BeingCleaned(h)
      BY <1>9 DEF QueryMiddle, BeingCleaned
    <2>2. /\ UNCHANGED <<q.start, q.end, q.elig, q.owed>>
          /\ \A h \in Hours : q'.seen[h] = IF Inside(h) THEN roll[h] ELSE q.seen[h]
      BY <1>q, <1>9 DEF QueryMiddle
    <2>3. ASSUME q.end = q.elig, NEW h \in Hours PROVE q.owed[h] <= q'.seen[h]
      <3>1. CASE Inside(h)
        BY <2>1, <2>2, <2>3, <3>1 DEF QueryInv, Inside
      <3>2. CASE h = q.start \/ h = q.end
        BY <1>n, <1>q, <2>1, <2>2, <3>2 DEF QueryInv, Inside
      <3>3. CASE ~Inside(h) /\ h # q.start /\ h # q.end
        <4>1. ~(q.start <= h /\ h <= q.elig)
          BY <1>r, <2>3, <3>3 DEF Inside
        <4>2. q.owed[h] = 0
          BY <1>q, <4>1 DEF QueryInv
        <4> QED BY <1>q, <2>2, <3>3, <4>2
      <3> QED BY <3>1, <3>2, <3>3
    <2>4. SteadyQueryComplete'
      BY <1>q, <1>m, <2>1, <2>2, <2>3, <1>0 DEF SteadyQueryComplete, TypeOK
    <2> QED BY <2>1, <2>2, <2>4 DEF QueryInv
  <1>10. CASE QueryEnd \/ Crash
    <2>1. qpc' = "idle" /\ UNCHANGED raw /\ \A h \in Hours : q'.owed[h] = 0
      BY <1>10 DEF QueryEnd, Crash, NoQuery
    <2> QED BY <1>n, <2>1 DEF QueryInv, SteadyQueryComplete
  <1> QED
    BY <1>1, <1>2, <1>3, <1>4, <1>5, <1>6, <1>7, <1>8, <1>9, <1>10 DEF Next, Pass, Retention, Query

(* A query on the rollup fast path answers with at least every row that was  *)
(* committed when _rollup_eligible read the watermark and that retention has *)
(* not dropped since, in the hours the rollup has not missed, although its   *)
(* four reads interleave with writes, rewinds, passes and retention, when    *)
(* both reads of the clock give the same end hour.                           *)
THEOREM SteadyQueryAlwaysComplete == Spec => []SteadyQueryComplete
  <1>1. Init => QueryInv
    <2> SUFFICES ASSUME Init PROVE QueryInv
      OBVIOUS
    <2>1. \A h \in Hours : q.owed[h] = 0 /\ raw[h] = 0
      BY DEF Init, NoQuery
    <2> QED BY <2>1 DEF Init, QueryInv, SteadyQueryComplete
  <1>2. QueryInv => SteadyQueryComplete
    BY DEF QueryInv
  <1> QED
    BY <1>1, <1>2, QueryInvStep, IInvAlways, PTL DEF Spec

-----------------------------------------------------------------------------
(* Division with a floor, as Python's, and its quotient. *)
LEMMA FloorDiv ==
    ASSUME NEW t \in Int, NEW b \in Nat \ {0}
    PROVE  t \div b \in Int /\ b * (t \div b) =< t /\ t < b * (t \div b) + b
BY SMT

(* Multiples are ordered as their factors are... *)
LEMMA MultipleOrder ==
    ASSUME NEW b \in Nat \ {0}, NEW m \in Int, NEW n \in Int, b * m < b * n + b
    PROVE  m =< n
<1> SUFFICES ASSUME m >= n + 1 PROVE FALSE
  OBVIOUS
<1> DEFINE d == m - (n + 1)
<1>1. d \in Nat /\ m = (n + 1) + d
  OBVIOUS
<1> HIDE DEF d
<1>2. b * d \in Nat /\ b * m = b * n + b + b * d
  BY <1>1
<1>3. b * m \in Int /\ b * n \in Int
  OBVIOUS
<1> QED  BY <1>2, <1>3

(* ...so that a quotient is known by its bounds. *)
LEMMA QuotientUnique ==
    ASSUME NEW t \in Int, NEW b \in Nat \ {0}, NEW m \in Int, b * m =< t, t < b * m + b
    PROVE  t \div b = m
<1> DEFINE p == t \div b
<1>1. p \in Int /\ b * p =< t /\ t < b * p + b
  BY FloorDiv
<1> HIDE DEF p
<1>2. b * p \in Int /\ b * m \in Int
  BY <1>1
<1>3. b * p < b * m + b /\ b * m < b * p + b
  BY <1>1, <1>2
<1>4. p =< m /\ m =< p
  BY <1>1, <1>3, MultipleOrder
<1> QED  BY <1>1, <1>4 DEF p

(* The hour of a time: begins not after it and ends after it... *)
LEMMA HourFacts ==
    ASSUME NEW t \in Int
    PROVE  /\ HourOf(t) \in Int /\ HourOf(t) =< t /\ t < HourOf(t) + Hour
           /\ HourOf(t + Hour) = HourOf(t) + Hour /\ HourOf(0) = 0
<1> DEFINE p == t \div Hour
<1>0. Hour \in Nat \ {0}
  BY WindowAssumption
<1>1. p \in Int /\ Hour * p =< t /\ t < Hour * p + Hour
  BY <1>0, FloorDiv
<1>2. HourOf(t) = p * Hour
  BY DEF HourOf
<1> HIDE DEF p
<1>3. p * Hour = Hour * p /\ Hour * p \in Int
  BY <1>0, <1>1
<1>4. (t + Hour) \div Hour = p + 1
  <2>1. Hour * (p + 1) = Hour * p + Hour
    BY <1>0, <1>1
  <2>2. Hour * (p + 1) =< t + Hour /\ t + Hour < Hour * (p + 1) + Hour
    BY <1>0, <1>1, <1>3, <2>1
  <2>3. t + Hour \in Int /\ p + 1 \in Int
    BY <1>0, <1>1
  <2> QED  BY <1>0, <2>2, <2>3, QuotientUnique
<1>5. HourOf(t + Hour) = HourOf(t) + Hour
  BY <1>0, <1>1, <1>2, <1>4 DEF HourOf
<1>6. 0 \div Hour = 0
  BY <1>0, QuotientUnique
<1>7. HourOf(0) = 0
  BY <1>0, <1>6 DEF HourOf
<1> QED  BY <1>1, <1>2, <1>3, <1>5, <1>7

(* ...and a time is before an hour when its own hour is. *)
LEMMA HourOrder ==
    ASSUME NEW s \in Int, NEW t \in Int
    PROVE  t < HourOf(s) <=> HourOf(t) < HourOf(s)
<1> DEFINE p == s \div Hour
           m == t \div Hour
<1>0. Hour \in Nat \ {0} /\ p \in Int /\ m \in Int /\ HourOf(s) = p * Hour /\ HourOf(t) = m * Hour
  BY WindowAssumption, FloorDiv DEF HourOf
<1>1. HourOf(t) \in Int /\ HourOf(s) \in Int /\ HourOf(t) =< t /\ t < HourOf(t) + Hour
  BY HourFacts
<1> HIDE DEF p, m
<1>2. t < HourOf(s) => HourOf(t) < HourOf(s)
  BY <1>1
<1>3. ASSUME HourOf(t) < HourOf(s), ~(t < HourOf(s)) PROVE FALSE
  <2>1. HourOf(s) < HourOf(t) + Hour
    BY <1>0, <1>1, <1>3
  <2>2. Hour * p < Hour * m + Hour
    BY <1>0, <2>1
  <2>3. p =< m
    BY <1>0, <2>2, MultipleOrder
  <2>4. Hour * m < Hour * p
    BY <1>0, <1>3
  <2>5. m =< p /\ m # p
    <3>1. Hour * m < Hour * p + Hour
      BY <1>0, <2>4
    <3>2. m =< p
      BY <1>0, <3>1, MultipleOrder
    <3>3. Hour * p \in Int
      BY <1>0
    <3> QED  BY <3>2, <3>3, <2>4
  <2> QED  BY <1>0, <2>3, <2>5
<1> QED  BY <1>2, <1>3

(* A bucket of whole hours has its hours as a whole: an hour of the rollup   *)
(* is in the bucket of each of its rows.                                     *)
LEMMA HourInBucket ==
    ASSUME NEW t \in Nat, NEW b \in Nat \ {0}, b % Hour = 0
    PROVE  SqlDiv(HourOf(t), b) = t \div b
<1> DEFINE n == t \div b
           k == b \div Hour
<1>0. Hour \in Nat \ {0}
  BY WindowAssumption
<1>1. n \in Int /\ b * n =< t /\ t < b * n + b /\ t \in Int
  BY FloorDiv
<1>2. k \in Int /\ b = Hour * k
  BY <1>0, SMT
<1> HIDE DEF n, k
<1>3. b * n \in Int /\ k * n \in Int /\ b * n = Hour * (k * n)
  BY <1>0, <1>1, <1>2
<1>4. HourOf(b * n) = b * n
  <2>1. (b * n) \div Hour = k * n
    <3>1. Hour * (k * n) =< b * n /\ b * n < Hour * (k * n) + Hour
      BY <1>0, <1>3
    <3> QED  BY <1>0, <1>3, <3>1, QuotientUnique
  <2> QED  BY <1>0, <1>3, <2>1 DEF HourOf
<1>5. /\ HourOf(t) \in Int /\ HourOf(t) =< t /\ HourOf(0) = 0
      /\ t < HourOf(b * n) <=> HourOf(t) < HourOf(b * n)
      /\ t < HourOf(0) <=> HourOf(t) < HourOf(0)
  BY <1>1, <1>3, HourFacts, HourOrder
<1>6. HourOf(t) >= 0 /\ b * n =< HourOf(t) /\ HourOf(t) < b * n + b
  BY <1>1, <1>3, <1>4, <1>5
<1>7. HourOf(t) \div b = n
  BY <1>1, <1>5, <1>6, QuotientUnique
<1> QED  BY <1>6, <1>7 DEF SqlDiv, n

(* The expression that downsample_sqlite builds from SQLite's division,      *)
(* which cuts towards zero, is the floor, for times before 1970 as well.     *)
LEMMA SqlFloor ==
    ASSUME NEW t \in Int, NEW b \in Nat \ {0}
    PROVE  FloorBySql(t, b) = t \div b
<1>1. CASE t >= 0
  BY <1>1 DEF FloorBySql, SqlDiv
<1>2. CASE t < 0
  <2> DEFINE u == -t + b - 1
             m == u \div b
  <2>1. u \in Int /\ u >= 0
    BY <1>2
  <2>2. FloorBySql(t, b) = -m
    BY <1>2, <2>1 DEF FloorBySql, SqlDiv
  <2>3. m \in Int /\ b * m =< u /\ u < b * m + b
    BY <2>1, FloorDiv
  <2> HIDE DEF m
  <2>4. b * m \in Int /\ b * (-m) = -(b * m) /\ -m \in Int
    BY <2>3
  <2>5. b * (-m) =< t /\ t < b * (-m) + b
    BY <2>3, <2>4
  <2>6. t \div b = -m
    BY <2>4, <2>5, QuotientUnique
  <2> QED  BY <2>2, <2>6
<1> QED  BY <1>1, <1>2

(* What is stored and asked. *)
WindowTypes ==
    /\ rows \subseteq [sid : Sids, ts : Times] /\ watermark \in Int
    /\ query = NotAsked \/ query \in Queries

(* A query's window: its hours, and that its ends are told from None. *)
LEMMA WindowFacts ==
    ASSUME NEW w \in Queries
    PROVE  /\ w.start \in Int /\ w.end \in Int /\ w.bucket \in Nat
           /\ EffEnd(w) \in Int /\ EffEnd(w) < None
           /\ w.end # None => EffEnd(w) = w.end
           /\ w.end = None => EffEnd(w) = Now
           /\ EndHour(w) = HourOf(EffEnd(w))
           /\ \E s \in Int : StartHour(w) = HourOf(s) /\ s = IF w.start = None THEN 0 ELSE w.start
           /\ LeftEnd(w) \in {StartHour(w) + Hour - 1, EffEnd(w)}
           /\ LeftEnd(w) =< StartHour(w) + Hour - 1 /\ LeftEnd(w) =< EffEnd(w)
<1>1. w.start \in Starts /\ w.end \in Ends /\ w.bucket \in Buckets
  BY DEF Queries
<1>2. /\ w.start \in Int /\ w.start =< None /\ w.end \in Int /\ w.end =< None
      /\ w.bucket \in Nat /\ Now \in Int /\ Now < None /\ Hour \in Int /\ None \in Int
  <2>1. \A t \in Times \cup Starts \cup Ends : t \in Int /\ t =< None
    BY WindowAssumption
  <2>2. Buckets \subseteq Nat
    BY WindowAssumption
  <2>3. Now \in Int /\ Now < None /\ Hour \in Int /\ None \in Int
    BY WindowAssumption
  <2> QED  BY <1>1, <2>1, <2>2, <2>3
<1>3. /\ EffEnd(w) \in Int /\ EffEnd(w) < None
      /\ w.end # None => EffEnd(w) = w.end
      /\ w.end = None => EffEnd(w) = Now
  BY <1>2 DEF EffEnd
<1>4. \E s \in Int : StartHour(w) = HourOf(s) /\ s = IF w.start = None THEN 0 ELSE w.start
  BY <1>2, HourFacts DEF StartHour
<1>5. StartHour(w) \in Int
  BY <1>4, HourFacts
<1> DEFINE a == StartHour(w) + Hour - 1
           e == EffEnd(w)
<1>6. a \in Int /\ e \in Int
  BY <1>2, <1>3, <1>5
<1>7. LeftEnd(w) = Min({a, e})
  BY DEF LeftEnd
<1> HIDE DEF a, e
<1>8. Min({a, e}) \in {a, e} /\ Min({a, e}) =< a /\ Min({a, e}) =< e
  <2>1. \E x \in {a, e} : \A y \in {a, e} : x =< y
    BY <1>6
  <2> QED  BY <2>1 DEF Min
<1> QED  BY <1>2, <1>3, <1>4, <1>7, <1>8 DEF a, e, EndHour

(* On the fast path the two edges and the hours between them are the window, *)
(* each row in one of them.                                                  *)
LEMMA WindowSplit ==
    ASSUME WindowTypes, query \in Queries, OnFastPath, ~FastPathDiffers, NEW r \in rows
    PROVE  LET left   == Matching(query.start, LeftEnd(query))
               right  == Matching(EndHour(query), EffEnd(query))
               middle == RolledUp(StartHour(query) + Hour, EndHour(query))
           IN /\ r \in Asked <=> r \in left \/ r \in middle \/ r \in right
              /\ ~(r \in left /\ r \in middle) /\ ~(r \in left /\ r \in right)
              /\ ~(r \in middle /\ r \in right)
              /\ r \in middle => r.ts \in Nat
<1> DEFINE t == r.ts
           E == EffEnd(query)
           S == StartHour(query)
           H == EndHour(query)
           L == LeftEnd(query)
<1>1. t \in Int /\ t < None /\ Hour \in Nat \ {0} /\ None \in Int /\ Now \in Int /\ Now < None
  BY WindowAssumption DEF WindowTypes
<1>2. /\ query.start \in Int /\ query.end \in Int /\ E \in Int /\ E < None
      /\ (query.end # None => E = query.end) /\ (query.end = None => E = Now)
      /\ H = HourOf(E) /\ L \in {S + Hour - 1, E} /\ L =< S + Hour - 1 /\ L =< E
  BY WindowFacts
<1>3. PICK s \in Int : S = HourOf(s) /\ s = IF query.start = None THEN 0 ELSE query.start
  BY WindowFacts
<1>4. H \in Int /\ H =< E /\ S \in Int /\ S =< s /\ s < S + Hour /\ HourOf(s + Hour) = S + Hour
  BY <1>2, <1>3, HourFacts
<1>5. HourOf(t) \in Int /\ HourOf(t) =< t
  BY <1>1, HourFacts
<1>6. t < H <=> HourOf(t) < H
  BY <1>1, <1>2, HourOrder
<1>7. t < S + Hour <=> HourOf(t) < S + Hour
  <2>1. s + Hour \in Int
    BY <1>1
  <2> QED  BY <1>1, <1>4, <2>1, HourOrder
<1>8. watermark > 0 /\ H =< watermark /\ H >= S + 2 * Hour
  BY DEF OnFastPath, RollupEligible, Covered
<1>9. r \in Asked => t =< E
  <2>1. CASE query.end = None
    <3>1. r \in Asked => ~(t > Now)
      BY <2>1 DEF FastPathDiffers
    <3> QED  BY <1>1, <1>2, <2>1, <3>1
  <2>2. CASE query.end # None
    BY <1>2, <2>2 DEF Asked, Matching
  <2> QED  BY <2>1, <2>2
<1>10. S >= 0
  <2>1. s >= 0
    BY <1>2, <1>3 DEF FastPathDiffers
  <2>2. HourOf(0) = 0 /\ (s < HourOf(0) <=> HourOf(s) < HourOf(0))
    BY HourFacts, HourOrder
  <2> QED  BY <1>3, <1>4, <2>1, <2>2
<1>11. r \in Asked <=> (query.start = None \/ t >= query.start) /\ t =< E
  BY <1>1, <1>2, <1>9 DEF Asked, Matching
<1>12. r \in Matching(query.start, L) <=> (query.start = None \/ t >= query.start) /\ t =< L
  BY <1>1, <1>2, <1>4 DEF Matching
<1>13. r \in Matching(H, E) <=> t >= H /\ t =< E
  BY <1>1, <1>2, <1>4 DEF Matching
<1>14. r \in RolledUp(S + Hour, H) <=>
          t >= 0 /\ HourOf(t) < watermark /\ HourOf(t) >= S + Hour /\ HourOf(t) < H
  BY DEF RolledUp
<1>15. watermark \in Int
  BY DEF WindowTypes
<1> DEFINE inL == (query.start = None \/ t >= query.start) /\ t =< L
           inR == t >= H /\ t =< E
           inM == t >= 0 /\ HourOf(t) < watermark /\ HourOf(t) >= S + Hour /\ HourOf(t) < H
           inA == (query.start = None \/ t >= query.start) /\ t =< E
<1> HIDE DEF t, E, S, H, L
<1>16. ~(inL /\ inM) /\ ~(inL /\ inR) /\ ~(inM /\ inR)
  BY <1>1, <1>2, <1>4, <1>5, <1>6, <1>7, <1>8
<1>17. inL \/ inM \/ inR => inA
  <2>1. inL => inA
    BY <1>1, <1>2, <1>4
  <2>2. inR => inA
    BY <1>1, <1>2, <1>3, <1>4, <1>8
  <2>3. inM => inA
    BY <1>1, <1>2, <1>3, <1>4, <1>5, <1>6, <1>7
  <2> QED  BY <2>1, <2>2, <2>3
<1>18. inA => inL \/ inM \/ inR
  <2> SUFFICES ASSUME inA, ~inR PROVE inL \/ inM
    OBVIOUS
  <2>1. t < H /\ HourOf(t) < H /\ HourOf(t) < watermark
    BY <1>1, <1>2, <1>4, <1>5, <1>6, <1>8, <1>15
  <2>2. CASE t < S + Hour
    <3>1. t =< L
      BY <1>1, <1>2, <1>4, <2>2
    <3> QED  BY <3>1
  <2>3. CASE ~(t < S + Hour)
    <3>1. HourOf(t) >= S + Hour /\ t >= 0
      BY <1>1, <1>4, <1>5, <1>7, <1>10, <2>3
    <3> QED  BY <2>1, <3>1
  <2> QED  BY <2>2, <2>3
<1>19. inM => t \in Nat
  BY <1>1
<1>20. /\ (r \in Asked <=> inA) /\ (r \in Matching(query.start, L) <=> inL)
       /\ (r \in Matching(H, E) <=> inR) /\ (r \in RolledUp(S + Hour, H) <=> inM)
  BY <1>11, <1>12, <1>13, <1>14
<1> HIDE DEF inL, inM, inR, inA
<1> QED  BY <1>16, <1>17, <1>18, <1>19, <1>20 DEF t, E, S, H, L

(* A row of the window lies in a month that the scan visits. *)
LEMMA MonthsCover ==
    ASSUME WindowTypes, query \in Queries, NEW r \in Asked
    PROVE  r.ts \div Month \in Meeting(query.start, query.end)
           /\ r \in InPartition(r.ts \div Month)
<1> DEFINE t == r.ts
           p == t \div Month
<1>1. r \in rows /\ t \in Int /\ Month \in Nat \ {0} /\ None \in Int
  BY WindowAssumption DEF WindowTypes, Asked, Matching
<1>2. p \in Int /\ Month * p =< t /\ t < Month * p + Month
  BY <1>1, FloorDiv
<1>3. p \in {x.ts \div Month : x \in rows} /\ r \in InPartition(p)
  BY <1>1 DEF InPartition
<1>4. query.start \in Int /\ query.end \in Int
  BY WindowFacts
<1>5. /\ query.start = None \/ t >= query.start
      /\ query.end = None \/ t =< query.end
  BY DEF Asked, Matching
<1> HIDE DEF p
<1>6. p * Month = Month * p /\ (p + 1) * Month = Month * p + Month /\ Month * p \in Int
  BY <1>1, <1>2
<1>7. /\ query.start = None \/ (p + 1) * Month - 1 >= query.start
      /\ query.end = None \/ p * Month =< query.end
  BY <1>1, <1>2, <1>4, <1>5, <1>6
<1>8. p \in Meeting(query.start, query.end)
  BY <1>3, <1>7 DEF Meeting
<1> QED  BY <1>3, <1>8 DEF p

(* Both together, with the buckets. *)
LEMMA WindowOnce ==
    ASSUME WindowTypes
    PROVE  EachRowOnce
<1> SUFFICES ASSUME query.api # "none", query.agg # "none", ~FastPathDiffers
             PROVE  EachRowOnce
  BY DEF EachRowOnce
<1>1. query \in Queries
  BY DEF WindowTypes, NotAsked
<1>2. query.bucket \in Nat
  BY <1>1, WindowFacts
<1> DEFINE left   == Matching(query.start, LeftEnd(query))
           right  == Matching(EndHour(query), EffEnd(query))
           middle == RolledUp(StartHour(query) + Hour, EndHour(query))
<1>3. CASE OnFastPath
  <2>1. left \subseteq rows /\ right \subseteq rows /\ middle \subseteq rows /\ Asked \subseteq rows
    BY DEF Matching, RolledUp, Asked
  <2>2. ASSUME NEW r \in rows
        PROVE  /\ r \in Asked <=> r \in left \/ r \in middle \/ r \in right
               /\ ~(r \in left /\ r \in middle) /\ ~(r \in left /\ r \in right)
               /\ ~(r \in middle /\ r \in right)
               /\ r \in middle => r.ts \in Nat
    BY <1>1, <1>3, WindowSplit
  <2>3. ASSUME NEW r \in middle
        PROVE  BucketOfHour(r.ts, query.bucket) = BucketOf(r.ts, query.bucket)
    <3>1. CASE query.bucket = None
      BY <3>1 DEF BucketOfHour, BucketOf
    <3>2. CASE query.bucket # None
      <4>1. query.bucket \in Nat \ {0} /\ query.bucket % Hour = 0
        BY <1>2, <1>3, <3>2 DEF OnFastPath, RollupEligible
      <4>2. r.ts \in Nat
        BY <2>1, <2>2
      <4>3. SqlDiv(HourOf(r.ts), query.bucket) = r.ts \div query.bucket
        BY <4>1, <4>2, HourInBucket
      <4> QED  BY <3>2, <4>3 DEF BucketOfHour, BucketOf
    <3> QED  BY <3>1, <3>2
  <2> HIDE DEF left, right, middle
  <2>4. /\ left \cup middle \cup right = Asked
        /\ left \cap middle = {} /\ left \cap right = {} /\ middle \cap right = {}
    BY <2>1, <2>2
  <2> QED  BY <1>3, <2>3, <2>4 DEF EachRowOnce, left, right, middle
<1>4. CASE ~OnFastPath
  <2>1. ASSUME NEW r \in Asked
        PROVE  /\ \E p \in Meeting(query.start, query.end) : r \in InPartition(p)
               /\ query.bucket \notin {0, None} =>
                    FloorBySql(r.ts, query.bucket) * query.bucket = BucketOf(r.ts, query.bucket)
    <3>1. \E p \in Meeting(query.start, query.end) : r \in InPartition(p)
      BY <1>1, MonthsCover
    <3>2. r.ts \in Int
      BY WindowAssumption DEF WindowTypes, Asked, Matching
    <3>3. query.bucket # 0 => FloorBySql(r.ts, query.bucket) = r.ts \div query.bucket
      BY <1>2, <3>2, SqlFloor
    <3> QED  BY <3>1, <3>3 DEF BucketOf
  <2> QED  BY <1>4, <2>1 DEF EachRowOnce
<1> QED  BY <1>3, <1>4

(* For every length of hours and months, any rows and any query that the     *)
(* fast path answers like the others: its two raw edges and the rolled up    *)
(* hours (builder.py, _rollup_window_partials) hold every row of the window  *)
(* exactly once, the months that _partitions_for_range picks hold every row  *)
(* of it, and Python's floor, SQLite's division and the rollup's hours put a *)
(* row into the same bucket.                                                 *)
THEOREM EachRowAlwaysOnce == WindowSpec => []EachRowOnce
<1>1. WindowInit => WindowTypes
  BY WindowAssumption DEF WindowInit, WindowTypes
<1>2. WindowTypes /\ [WindowNext]_windowVars => WindowTypes'
  BY DEF WindowTypes, WindowNext, windowVars, InsertRow, Ask, AskTimesOut
<1>3. WindowTypes => EachRowOnce
  BY WindowOnce
<1> QED  BY <1>1, <1>2, <1>3, PTL DEF WindowSpec
=============================================================================
