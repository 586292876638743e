---------------------------- MODULE UpkeepProofs ----------------------------
(***************************************************************************)
(* Proofs about Upkeep, for every interval, threshold and bound: a         *)
(* complete snapshot is never written to again, and a pass of the          *)
(* BackupManager that did not fail leaves a recent snapshot behind.        *)
(*                                                                         *)
(* What makes it true is that a file is created only where none is, so     *)
(* that no two VACUUM INTO write to one file (FileInv), and that a file    *)
(* is no older than the second in its name (FileInv too): that is what a   *)
(* pass relies on that ends because the file exists.                       *)
(***************************************************************************)
EXTENDS Upkeep, WellFoundedInduction, TLAPS

(* The types of the backups' variables and of the WAL's. *)
BackupTypes ==
    /\ clock \in Seconds /\ back \in {0, Fold} /\ back =< clock /\ up \in BOOLEAN
    /\ file \in [Seconds -> {"none", "partial", "complete"}]
    /\ mtime \in [Seconds -> Seconds]
    /\ backer \in [Backers -> [pc : {"idle", "test", "name", "create", "vacuum"}, at : Seconds]]
    /\ due \in 0..(MaxClock + Interval)
    /\ passed \in [at : Seconds, outcome : {"none", "skipped", "exists", "made", "failed"}]
    /\ interrupted \in BOOLEAN

WalTypes ==
    /\ wal \in 0..MaxWal /\ ckpt \in 0..wal /\ size \in wal..MaxWal
    /\ mark \in 0..NoReader

(* A file being written is partial and has one writer; the manager tests a   *)
(* file that is there; a file was written to in its own second or later.     *)
FileInv ==
    /\ \A b \in Backers : backer[b].at =< clock
    /\ \A b \in Backers : backer[b].pc = "vacuum" => file[backer[b].at] = "partial"
    /\ \A b, c \in Backers :
          backer[b].pc = "vacuum" /\ backer[c].pc = "vacuum" /\ backer[b].at = backer[c].at => b = c
    /\ backer["manager"].pc = "test" => file[backer["manager"].at] # "none"
    /\ \A t \in Seconds : mtime[t] =< clock
    /\ \A t \in Seconds : file[t] # "none" => t =< mtime[t]

(* Unless some VACUUM INTO was interrupted, a partial file has its writer. *)
WholeInv == ~interrupted => \A t \in Seconds : file[t] = "partial" => t \in InProgress

(* What RecentUnlessInterrupted says beside the types. *)
RecentInv ==
    up /\ Passed /\ ~interrupted =>
        \E t \in Seconds :
            /\ file[t] = "complete" \/ t \in InProgress
            /\ mtime[t] + Interval > passed.at

IInv == BackupTypes /\ FileInv /\ WholeInv /\ RecentInv

(* The larger and the smaller of two. *)
LEMMA MaxOfTwo ==
    ASSUME NEW a \in Nat, NEW b \in Nat
    PROVE  Max({a, b}) \in {a, b} /\ Max({a, b}) >= a /\ Max({a, b}) >= b
<1>1. \E x \in {a, b} : \A y \in {a, b} : x >= y
  OBVIOUS
<1> QED  BY <1>1 DEF Max

(* The same of the smaller. *)
LEMMA MinOfTwo ==
    ASSUME NEW a \in Nat, NEW b \in Nat
    PROVE  Min({a, b}) \in {a, b} /\ Min({a, b}) =< a /\ Min({a, b}) =< b
<1>1. \E x \in {a, b} : \A y \in {a, b} : x =< y
  OBVIOUS
<1> QED  BY <1>1 DEF Min

(* A set of naturals has a least element. *)
LEMMA LeastNatural ==
    ASSUME NEW T \in SUBSET Nat, T # {}
    PROVE  \E x \in T : \A y \in T : x =< y
<1> DEFINE R == OpToRel(<, Nat)
<1>1. IsWellFoundedOn(R, Nat)
  BY NatLessThanWellFounded
<1>2. PICK x \in T : \A y \in T : ~(<<y, x>> \in R)
  <2> HIDE DEF R
  <2> QED  BY <1>1, WFMin
<1>3. \A y \in T : <<y, x>> \in Nat \X Nat /\ ~(y < x)
  BY <1>2 DEF OpToRel
<1> HIDE DEF R
<1>4. \A y \in T : x =< y
  <2> TAKE y \in T
  <2>1. ~(y < x)
    BY <1>3
  <2>2. x \in Nat /\ y \in Nat
    OBVIOUS
  <2> QED  BY <2>1, <2>2
<1> QED  BY <1>4

(* A set of naturals with a bound has a greatest element. *)
LEMMA MaxBounded ==
    ASSUME NEW n \in Nat, NEW S \in SUBSET (0..n), S # {}
    PROVE  Max(S) \in S
<1> DEFINE T == {k \in Nat : \E x \in S : k = n - x}
<1>1. PICK w \in S : TRUE
  OBVIOUS
<1>2. n - w \in T
  OBVIOUS
<1>3. PICK z \in T : \A y \in T : z =< y
  BY <1>2, LeastNatural
<1>4. PICK x \in S : z = n - x
  BY <1>3
<1>5. \A y \in S : x >= y
  <2> TAKE y \in S
  <2>1. n - y \in T
    OBVIOUS
  <2>2. n - x =< n - y
    BY <1>3, <1>4, <2>1
  <2> QED  BY <1>4, <2>2
<1> QED  BY <1>5 DEF Max

(* backup_latest returns a file that is there. *)
LEMMA LatestIsName ==
    ASSUME BackupTypes, Names # {}
    PROVE  Max(Names) \in Seconds /\ file[Max(Names)] # "none"
<1>1. Names \in SUBSET (0..MaxClock)
  BY DEF Names, Seconds
<1>2. Max(Names) \in Names
  <2> HIDE DEF Names
  <2> QED  BY <1>1, MaxBounded, UpkeepAssumption
<1> QED  BY <1>2 DEF Names

(* The second of the local time is none to come, and the clock's while the   *)
(* local time was not set back.                                              *)
LEMMA LocalFacts ==
    ASSUME BackupTypes
    PROVE  LocalSecond \in Seconds /\ LocalSecond =< clock /\ (back = 0 => LocalSecond = clock)
  BY UpkeepAssumption DEF BackupTypes, LocalSecond, Seconds

(* A second is of a file being written when some writer is at it. *)
LEMMA WritingFacts ==
    \A t : t \in InProgress <=> \E b \in Backers : backer[b].pc = "vacuum" /\ backer[b].at = t
  BY DEF InProgress

-----------------------------------------------------------------------------
(* The WAL's types. *)

(* A checkpoint reaches no frame that is not there, and undoes nothing. *)
LEMMA ReachFacts ==
    ASSUME WalTypes
    PROVE  Reach \in ckpt..wal
<1>1. wal \in Nat /\ mark \in Nat /\ ckpt \in Nat /\ ckpt =< wal
  BY UpkeepAssumption DEF WalTypes, NoReader
<1>2. Min({wal, mark}) \in Nat /\ Min({wal, mark}) =< wal
  BY <1>1, MinOfTwo
<1> QED  BY <1>1, <1>2, MaxOfTwo DEF Reach

(* A commit keeps the checkpointed frames below the frames, and the frames   *)
(* below the file's size.                                                    *)
LEMMA CommitTypes ==
    ASSUME WalTypes, NEW f \in Nat, Commit(f), UNCHANGED mark
    PROVE  WalTypes'
<1> USE UpkeepAssumption
<1>1. wal \in Nat /\ ckpt \in Nat /\ size \in Nat /\ ckpt =< wal /\ wal =< size /\ size =< MaxWal
  BY DEF WalTypes
<1>2. Min({size, Threshold}) \in Nat /\ Min({size, Threshold}) =< MaxWal
  BY <1>1, MinOfTwo
<1>3. wal' \in Nat /\ wal' =< MaxWal
  BY <1>1 DEF Commit
<1>4. ckpt' \in 0..wal'
  BY <1>1, <1>3 DEF Commit
<1>5. \E k \in 0..MaxWal : size' = Max({wal', k})
  <2>1. CASE ckpt = wal /\ mark = NoReader /\ wal > 0
    <3>1. size' = Max({wal', Min({size, Threshold})})
      BY <2>1 DEF Commit
    <3>2. Min({size, Threshold}) \in 0..MaxWal
      BY <1>2
    <3> QED  BY <3>1, <3>2, Zenon
  <2>2. CASE ~(ckpt = wal /\ mark = NoReader /\ wal > 0)
    <3>1. size' = Max({wal', size})
      BY <2>2 DEF Commit
    <3> QED  BY <1>1, <3>1
  <2> QED  BY <2>1, <2>2
<1>6. size' \in wal'..MaxWal
  BY <1>3, <1>5, MaxOfTwo
<1> QED  BY <1>3, <1>4, <1>6 DEF WalTypes, NoReader

(* Every step keeps the WAL's types. *)
LEMMA WalTypesStep == WalTypes /\ [Next]_vars => WalTypes'
<1> SUFFICES ASSUME WalTypes, [Next]_vars PROVE WalTypes'
  OBVIOUS
<1> USE UpkeepAssumption
<1>c. ASSUME ckpt' = Reach, UNCHANGED <<wal, size, mark>> PROVE WalTypes'
  BY <1>c, ReachFacts DEF WalTypes, NoReader
<1>u. ASSUME UNCHANGED <<wal, ckpt, size>>, mark' \in {mark, wal, NoReader} PROVE WalTypes'
  BY <1>u DEF WalTypes, NoReader
<1>1. CASE BackupNext
  <2>1. UNCHANGED walVars
    BY <1>1 DEF BackupNext, Tick, SetBack, FindLatest, TestFresh, AskBackup, NameFile, CreateFile,
                EndVacuum
  <2> QED  BY <1>u, <2>1 DEF walVars
<1>2. CASE Write \/ Vacuum
  BY <1>2, CommitTypes DEF Write, Vacuum
<1>3. CASE ReadBegins \/ ReadEnds
  BY <1>3, <1>u DEF ReadBegins, ReadEnds
<1>4. CASE CheckpointPass \/ CheckpointFails
  BY <1>4, <1>c, <1>u DEF CheckpointPass, CheckpointFails
<1>5. CASE Crash
  BY <1>5, <1>u DEF Crash
<1>6. CASE Shutdown
  <2>1. CASE wal' = 0 /\ ckpt' = 0 /\ size' = 0
    BY <1>6, <2>1 DEF Shutdown, WalTypes, NoReader
  <2>2. CASE ckpt' = Reach /\ UNCHANGED <<wal, size>>
    BY <1>6, <1>c, <2>2 DEF Shutdown
  <2> QED  BY <1>6, <2>1, <2>2 DEF Shutdown
<1>7. CASE Start
  BY <1>7, <1>c DEF Start
<1>8. CASE UNCHANGED vars
  BY <1>8, <1>u DEF vars, walVars
<1> QED  BY <1>1, <1>2, <1>3, <1>4, <1>5, <1>6, <1>7, <1>8 DEF Next, WalNext

-----------------------------------------------------------------------------
(* The backups. *)

(* Finish and the steps of the manager end a pass within the clock's bound. *)
LEMMA PassTypes ==
    ASSUME BackupTypes, NEW o \in {"skipped", "exists", "made", "failed"}, EndPass(o)
    PROVE  /\ due' \in 0..(MaxClock + Interval)
           /\ passed' \in [at : Seconds, outcome : {"none", "skipped", "exists", "made", "failed"}]
  BY UpkeepAssumption DEF BackupTypes, EndPass, Seconds

(* Every step keeps the backups' types. *)
LEMMA BackupTypesStep == BackupTypes /\ [Next]_vars => BackupTypes'
<1> SUFFICES ASSUME BackupTypes, [Next]_vars PROVE BackupTypes'
  OBVIOUS
<1> USE UpkeepAssumption
<1>0. 0 \in Seconds
  BY DEF Seconds
<1>i. Idle \in [pc : {"idle", "test", "name", "create", "vacuum"}, at : Seconds]
  BY <1>0 DEF Idle
<1>m. ASSUME NEW b \in Backers, NEW pc \in {"idle", "test", "name", "create", "vacuum"},
             NEW at \in Seconds, Move(b, pc, at)
      PROVE  backer' \in [Backers -> [pc : {"idle", "test", "name", "create", "vacuum"},
                                      at : Seconds]]
  BY <1>m DEF Move, BackupTypes
<1>f. ASSUME NEW b \in Backers, NEW o \in {"skipped", "exists", "made", "failed"}, Finish(b, o)
      PROVE  /\ backer' \in [Backers -> [pc : {"idle", "test", "name", "create", "vacuum"},
                                         at : Seconds]]
             /\ due' \in 0..(MaxClock + Interval)
             /\ passed' \in [at : Seconds,
                              outcome : {"none", "skipped", "exists", "made", "failed"}]
  <2>1. backer' \in [Backers -> [pc : {"idle", "test", "name", "create", "vacuum"},
                                 at : Seconds]]
    BY <1>f, <1>i DEF Finish, BackupTypes
  <2> QED  BY <1>f, <2>1, PassTypes DEF Finish, BackupTypes
<1>a. ASSUME NEW bs \in SUBSET Backers, Abandon(bs)
      PROVE  /\ backer' \in [Backers -> [pc : {"idle", "test", "name", "create", "vacuum"},
                                         at : Seconds]]
             /\ interrupted' \in BOOLEAN
  BY <1>a, <1>i DEF Abandon, BackupTypes
<1>b. "manager" \in Backers
  BY DEF Backers
<1>1. CASE Tick
  <2>1. clock' \in Seconds /\ mtime' \in [Seconds -> Seconds]
    BY <1>1 DEF Tick, BackupTypes, Seconds
  <2> QED  BY <1>1, <2>1 DEF Tick, BackupTypes
<1>2. CASE FindLatest
  <2>1. backer' \in [Backers -> [pc : {"idle", "test", "name", "create", "vacuum"},
                                 at : Seconds]]
    BY <1>2, <1>m, <1>b, <1>0, LatestIsName DEF FindLatest
  <2> QED  BY <1>2, <2>1 DEF FindLatest, BackupTypes
<1>3. CASE TestFresh
  <2>1. backer' \in [Backers -> [pc : {"idle", "test", "name", "create", "vacuum"},
                                 at : Seconds]]
    BY <1>3, <1>m, <1>b, <1>0, <1>i DEF TestFresh, BackupTypes
  <2>2. /\ due' \in 0..(MaxClock + Interval)
        /\ passed' \in [at : Seconds, outcome : {"none", "skipped", "exists", "made", "failed"}]
    BY <1>3, PassTypes DEF TestFresh, BackupTypes
  <2> QED  BY <1>3, <2>1, <2>2 DEF TestFresh, BackupTypes
<1>4. CASE AskBackup
  <2>1. backer' \in [Backers -> [pc : {"idle", "test", "name", "create", "vacuum"},
                                 at : Seconds]]
    BY <1>4, <1>m, <1>0 DEF AskBackup, Backers
  <2> QED  BY <1>4, <2>1 DEF AskBackup, BackupTypes
<1>5. ASSUME NEW b \in Backers, NameFile(b) PROVE BackupTypes'
  <2>1. LocalSecond \in Seconds
    BY LocalFacts
  <2>2. CASE Finish(b, "exists")
    BY <1>5, <1>f, <2>2 DEF NameFile, BackupTypes
  <2>3. CASE Move(b, "create", LocalSecond) /\ UNCHANGED <<due, passed>>
    <3>1. backer' \in [Backers -> [pc : {"idle", "test", "name", "create", "vacuum"},
                                   at : Seconds]]
      BY <1>m, <2>1, <2>3
    <3> QED  BY <1>5, <2>3, <3>1 DEF NameFile, BackupTypes
  <2> QED  BY <1>5, <2>2, <2>3 DEF NameFile
<1>6. ASSUME NEW b \in Backers, CreateFile(b) PROVE BackupTypes'
  <2>1. clock \in Seconds /\ backer[b].at \in Seconds
    BY DEF BackupTypes
  <2>2. CASE Finish(b, "failed") /\ UNCHANGED <<file, mtime>>
    BY <1>6, <1>f, <2>2 DEF CreateFile, BackupTypes
  <2>3. CASE /\ Move(b, "vacuum", backer[b].at)
             /\ file' = [file EXCEPT ![backer[b].at] = "partial"]
             /\ mtime' = [mtime EXCEPT ![backer[b].at] = clock]
             /\ UNCHANGED <<due, passed>>
    <3>1. backer' \in [Backers -> [pc : {"idle", "test", "name", "create", "vacuum"},
                                   at : Seconds]]
      BY <1>m, <2>1, <2>3
    <3>2. /\ file' \in [Seconds -> {"none", "partial", "complete"}]
          /\ mtime' \in [Seconds -> Seconds]
      BY <2>1, <2>3 DEF BackupTypes
    <3> QED  BY <1>6, <2>3, <3>1, <3>2 DEF CreateFile, BackupTypes
  <2> QED  BY <1>6, <2>2, <2>3 DEF CreateFile
<1>7. ASSUME NEW b \in Backers, EndVacuum(b) PROVE BackupTypes'
  <2>1. mtime' \in [Seconds -> Seconds]
    BY <1>7 DEF EndVacuum, BackupTypes
  <2>2. file' \in [Seconds -> {"none", "partial", "complete"}]
    BY <1>7 DEF EndVacuum, BackupTypes
  <2>3. interrupted' \in BOOLEAN
    BY <1>7 DEF EndVacuum, BackupTypes
  <2>4. Finish(b, "made") \/ Finish(b, "failed")
    BY <1>7 DEF EndVacuum
  <2> QED  BY <1>7, <1>f, <2>1, <2>2, <2>3, <2>4 DEF EndVacuum, BackupTypes
<1>8. CASE WalNext
  <2>1. UNCHANGED <<clock, back, up, backupVars>>
    BY <1>8 DEF WalNext, Write, Vacuum, ReadBegins, ReadEnds, CheckpointPass, CheckpointFails
  <2> QED  BY <2>1 DEF BackupTypes, backupVars
<1>9. CASE Crash
  <2>1. PICK bs \in SUBSET Backers : Abandon(bs)
    BY <1>9 DEF Crash, Backers
  <2> QED  BY <1>9, <1>a, <2>1 DEF Crash, BackupTypes
<1>10. CASE Shutdown
  <2>1. {"manager"} \in SUBSET Backers /\ Abandon({"manager"})
    BY <1>10, <1>b DEF Shutdown
  <2> QED  BY <1>10, <1>a, <2>1 DEF Shutdown, BackupTypes
<1>11. CASE Start
  <2>1. due' \in 0..(MaxClock + Interval)
    BY <1>11 DEF Start, BackupTypes, Seconds
  <2>2. passed' \in [at : Seconds, outcome : {"none", "skipped", "exists", "made", "failed"}]
    BY <1>11, <1>0 DEF Start
  <2> QED  BY <1>11, <2>1, <2>2 DEF Start, BackupTypes
<1>12. CASE UNCHANGED vars
  BY <1>12 DEF vars, backupVars, BackupTypes
<1>13. CASE SetBack
  BY <1>13 DEF SetBack, backupVars, BackupTypes
<1> QED
  BY <1>1, <1>2, <1>3, <1>4, <1>5, <1>6, <1>7, <1>8, <1>9, <1>10, <1>11, <1>12, <1>13
     DEF Next, BackupNext

(* What a step does to the files and their writers, writer by writer. *)
FileStep ==
    \/ UNCHANGED <<clock, file, mtime, backer>> /\ UNCHANGED interrupted
    \/ Tick
    \* a writer goes to a step that writes nothing, or to its end before it wrote
    \/ \E b \in Backers :
          /\ backer[b].pc # "vacuum"
          /\ \/ backer' = [backer EXCEPT ![b] = Idle]
             \/ backer' = [backer EXCEPT ![b] = [pc |-> "name", at |-> 0]]
             \/ backer' = [backer EXCEPT ![b] = [pc |-> "create", at |-> LocalSecond]]
             \/ /\ b = "manager" /\ Names # {}
                /\ backer' = [backer EXCEPT ![b] = [pc |-> "test", at |-> Max(Names)]]
          /\ UNCHANGED <<clock, file, mtime, interrupted>>
    \/ \E b \in Backers :
          /\ backer[b].pc = "create" /\ file[backer[b].at] = "none"
          /\ backer' = [backer EXCEPT ![b] = [pc |-> "vacuum", at |-> backer[b].at]]
          /\ file' = [file EXCEPT ![backer[b].at] = "partial"]
          /\ mtime' = [mtime EXCEPT ![backer[b].at] = clock]
          /\ UNCHANGED <<clock, interrupted>>
    \/ \E b \in Backers :
          /\ backer[b].pc = "vacuum"
          /\ backer' = [backer EXCEPT ![b] = Idle]
          /\ mtime' = [mtime EXCEPT ![backer[b].at] = clock]
          /\ \/ file' = [file EXCEPT ![backer[b].at] = "complete"] /\ UNCHANGED interrupted
             \/ UNCHANGED file /\ interrupted' = TRUE
          /\ UNCHANGED clock
    \/ \E bs \in SUBSET Backers : Abandon(bs) /\ UNCHANGED <<clock, file, mtime>>

(* Every step is one of these. *)
LEMMA FileSteps == [Next]_vars => FileStep
<1> SUFFICES ASSUME [Next]_vars PROVE FileStep
  OBVIOUS
<1>1. CASE Tick
  BY <1>1 DEF FileStep
<1>2. CASE FindLatest
  BY <1>2 DEF FindLatest, Move, FileStep, Backers
<1>3. CASE TestFresh
  BY <1>3 DEF TestFresh, Move, FileStep, Backers
<1>4. CASE AskBackup
  BY <1>4 DEF AskBackup, Move, FileStep, Backers
<1>5. ASSUME NEW b \in Backers, NameFile(b) PROVE FileStep
  BY <1>5 DEF NameFile, Finish, Move, FileStep
<1>6. ASSUME NEW b \in Backers, CreateFile(b) PROVE FileStep
  BY <1>6 DEF CreateFile, Finish, Move, Refused, FileStep
<1>7. ASSUME NEW b \in Backers, EndVacuum(b) PROVE FileStep
  BY <1>7 DEF EndVacuum, Finish, FileStep
<1>8. CASE WalNext \/ Start \/ SetBack \/ UNCHANGED vars
  BY <1>8 DEF WalNext, Write, Vacuum, ReadBegins, ReadEnds, CheckpointPass, CheckpointFails,
              Start, SetBack, vars, backupVars, FileStep
<1>9. CASE Crash
  <2>1. PICK bs \in SUBSET Backers : Abandon(bs)
    BY <1>9 DEF Crash, Backers
  <2> QED  BY <1>9, <2>1 DEF Crash, FileStep
<1>10. CASE Shutdown
  <2>1. {"manager"} \in SUBSET Backers
    BY DEF Backers
  <2> QED  BY <1>10, <2>1 DEF Shutdown, FileStep
<1> QED
  BY <1>1, <1>2, <1>3, <1>4, <1>5, <1>6, <1>7, <1>8, <1>9, <1>10 DEF Next, BackupNext

(* Every step keeps one writer to a file, and a file no older than its name. *)
LEMMA FileInvStep == BackupTypes /\ FileInv /\ FileStep => FileInv'
<1> SUFFICES ASSUME BackupTypes, FileInv, FileStep PROVE FileInv'
  OBVIOUS
<1> USE UpkeepAssumption
<1>s. Seconds \subseteq Nat
  BY DEF Seconds
<1>t. /\ clock \in Nat /\ clock \in Seconds
      /\ file \in [Seconds -> {"none", "partial", "complete"}]
      /\ mtime \in [Seconds -> Seconds]
      /\ backer \in [Backers -> [pc : {"idle", "test", "name", "create", "vacuum"}, at : Seconds]]
  BY <1>s, Zenon DEF BackupTypes
<1>m. "manager" \in Backers
  BY DEF Backers
<1>1. CASE UNCHANGED <<clock, file, mtime, backer>>
  BY <1>1 DEF FileInv
<1>2. CASE Tick
  <2>1. clock' = clock + 1 /\ file' = file /\ backer' = backer
    BY <1>2 DEF Tick
  <2>2. \A t \in Seconds : mtime'[t] \in {mtime[t], clock + 1}
    BY <1>2 DEF Tick
  <2>3. \A t \in Seconds : mtime[t] \in Nat /\ mtime[t] =< clock
    BY <1>t, <1>s DEF FileInv
  <2>4. \A t \in Seconds : mtime'[t] =< clock + 1 /\ mtime[t] =< mtime'[t]
    BY <1>t, <2>2, <2>3
  <2>5. \A t \in Seconds : file[t] # "none" => t =< mtime'[t]
    BY <1>t, <1>s, <2>2, <2>3, <2>4 DEF FileInv
  <2>6. \A b \in Backers : backer[b].at =< clock + 1
    <3> TAKE b \in Backers
    <3>1. backer[b].at \in Seconds
      BY <1>t
    <3>2. backer[b].at \in Nat /\ backer[b].at =< clock
      BY <1>s, <3>1 DEF FileInv
    <3> QED  BY <1>t, <3>2
  <2> QED  BY <2>1, <2>4, <2>5, <2>6 DEF FileInv
<1>3. ASSUME NEW b \in Backers, backer[b].pc # "vacuum",
             \/ backer' = [backer EXCEPT ![b] = Idle]
             \/ backer' = [backer EXCEPT ![b] = [pc |-> "name", at |-> 0]]
             \/ backer' = [backer EXCEPT ![b] = [pc |-> "create", at |-> LocalSecond]]
             \/ /\ b = "manager" /\ Names # {}
                /\ backer' = [backer EXCEPT ![b] = [pc |-> "test", at |-> Max(Names)]],
             UNCHANGED <<clock, file, mtime>>
      PROVE  FileInv'
  <2>1. \A c \in Backers : c # b => backer'[c] = backer[c]
    BY <1>3, <1>t
  <2>2. backer'[b].pc # "vacuum"
    BY <1>3, <1>t DEF Idle
  <2>3. backer'[b].at =< clock
    <3>1. CASE b = "manager" /\ Names # {}
               /\ backer' = [backer EXCEPT ![b] = [pc |-> "test", at |-> Max(Names)]]
      <4>1. Max(Names) \in Seconds /\ file[Max(Names)] # "none"
        BY <3>1, LatestIsName
      <4>2. Max(Names) =< mtime[Max(Names)] /\ mtime[Max(Names)] =< clock
        BY <4>1 DEF FileInv
      <4> HIDE DEF Names
      <4>3. Max(Names) =< clock
        <5>1. Max(Names) \in Nat /\ mtime[Max(Names)] \in Nat
          BY <1>t, <1>s, <4>1
        <5> QED  BY <1>t, <4>2, <5>1
      <4>4. backer'[b].at = Max(Names)
        BY <1>t, <3>1
      <4> QED  BY <4>3, <4>4
    <3>2. CASE backer'[b].at \in {0, LocalSecond}
      BY <1>t, <3>2, LocalFacts
    <3> QED  BY <1>3, <1>t, <3>1, <3>2 DEF Idle
  <2>4. b = "manager" /\ backer'[b].pc = "test" => file[backer'[b].at] # "none"
    <3>1. CASE Names # {}
               /\ backer' = [backer EXCEPT ![b] = [pc |-> "test", at |-> Max(Names)]]
      BY <1>t, <3>1, LatestIsName
    <3>2. CASE backer'[b].pc # "test"
      BY <3>2
    <3> QED  BY <1>3, <1>t, <3>1, <3>2 DEF Idle
  <2> QED  BY <1>3, <1>m, <2>1, <2>2, <2>3, <2>4 DEF FileInv
<1>4. ASSUME NEW b \in Backers, backer[b].pc = "create", file[backer[b].at] = "none",
             backer' = [backer EXCEPT ![b] = [pc |-> "vacuum", at |-> backer[b].at]],
             file' = [file EXCEPT ![backer[b].at] = "partial"],
             mtime' = [mtime EXCEPT ![backer[b].at] = clock],
             UNCHANGED clock
      PROVE  FileInv'
  <2>1. \A c \in Backers : c # b => backer'[c] = backer[c]
    BY <1>4, <1>t
  <2>2. backer'[b].pc = "vacuum" /\ backer'[b].at = backer[b].at /\ backer[b].at \in Seconds
    BY <1>4, <1>t
  <2>3. \A c \in Backers : backer[c].pc = "vacuum" => backer[c].at # backer[b].at
    BY <1>4 DEF FileInv
  <2>4. /\ file'[backer[b].at] = "partial" /\ mtime'[backer[b].at] = clock
        /\ \A t \in Seconds : t # backer[b].at => file'[t] = file[t] /\ mtime'[t] = mtime[t]
    BY <1>4, <1>t, <2>2
  <2>5. \A c \in Backers : backer[c].at \in Seconds
    BY <1>t
  <2>6. backer["manager"].pc = "test" => backer["manager"].at # backer[b].at
    BY <1>4 DEF FileInv
  <2>7. backer[b].at =< clock
    BY DEF FileInv
  <2>8. /\ \A t \in Seconds : mtime'[t] =< clock
        /\ \A t \in Seconds : file'[t] # "none" => t =< mtime'[t]
    BY <1>t, <2>4, <2>7 DEF FileInv
  <2>9. backer'["manager"].pc = "test" => file'[backer'["manager"].at] # "none"
    BY <1>m, <2>1, <2>2, <2>4, <2>5, <2>6 DEF FileInv
  <2>10. \A c \in Backers : backer'[c].pc = "vacuum" => file'[backer'[c].at] = "partial"
    BY <2>1, <2>2, <2>3, <2>4, <2>5 DEF FileInv
  <2>11. \A c, d \in Backers : backer'[c].pc = "vacuum" /\ backer'[d].pc = "vacuum"
            /\ backer'[c].at = backer'[d].at => c = d
    BY <2>1, <2>2, <2>3 DEF FileInv
  <2>12. \A c \in Backers : backer'[c].at =< clock
    BY <2>1, <2>2, <2>7 DEF FileInv
  <2> QED  BY <1>4, <2>8, <2>9, <2>10, <2>11, <2>12 DEF FileInv
<1>5. ASSUME NEW b \in Backers, backer[b].pc = "vacuum",
             backer' = [backer EXCEPT ![b] = Idle],
             mtime' = [mtime EXCEPT ![backer[b].at] = clock],
             file' = [file EXCEPT ![backer[b].at] = "complete"] \/ UNCHANGED file,
             UNCHANGED clock
      PROVE  FileInv'
  <2>1. \A c \in Backers : c # b => backer'[c] = backer[c]
    BY <1>5, <1>t
  <2>2. backer'[b].pc = "idle" /\ backer'[b].at = 0 /\ backer[b].at \in Seconds
    BY <1>5, <1>t DEF Idle
  <2>3. \A c \in Backers : c # b /\ backer[c].pc = "vacuum" => backer[c].at # backer[b].at
    BY <1>5 DEF FileInv
  <2>4. /\ file'[backer[b].at] # "none" /\ mtime'[backer[b].at] = clock
        /\ \A t \in Seconds : t # backer[b].at => file'[t] = file[t] /\ mtime'[t] = mtime[t]
    BY <1>5, <1>t, <2>2 DEF FileInv
  <2>5. \A c \in Backers : backer[c].at \in Seconds
    BY <1>t
  <2>6. backer[b].at =< clock
    BY DEF FileInv
  <2>7. /\ \A t \in Seconds : mtime'[t] =< clock
        /\ \A t \in Seconds : file'[t] # "none" => t =< mtime'[t]
    BY <1>t, <2>4, <2>6 DEF FileInv
  <2>8. backer'["manager"].pc = "test" => file'[backer'["manager"].at] # "none"
    BY <1>m, <2>1, <2>2, <2>4, <2>5 DEF FileInv
  <2>9. \A c \in Backers : backer'[c].pc = "vacuum" => file'[backer'[c].at] = "partial"
    BY <2>1, <2>2, <2>3, <2>4, <2>5 DEF FileInv
  <2>10. \A c, d \in Backers : backer'[c].pc = "vacuum" /\ backer'[d].pc = "vacuum"
            /\ backer'[c].at = backer'[d].at => c = d
    BY <2>1, <2>2 DEF FileInv
  <2>11. \A c \in Backers : backer'[c].at =< clock
    BY <1>t, <2>1, <2>2 DEF FileInv
  <2> QED  BY <1>5, <2>7, <2>8, <2>9, <2>10, <2>11 DEF FileInv
<1>6. ASSUME NEW bs \in SUBSET Backers, Abandon(bs), UNCHANGED <<clock, file, mtime>>
      PROVE  FileInv'
  <2>1. \A c \in Backers : backer'[c] = backer[c] \/ (backer'[c].pc = "idle" /\ backer'[c].at = 0)
    BY <1>6 DEF Abandon, Idle
  <2> QED  BY <1>6, <1>m, <1>t, <2>1 DEF FileInv
<1> QED  BY <1>1, <1>2, <1>3, <1>4, <1>5, <1>6 DEF FileStep

(* Every step keeps a partial file its writer, or is an interruption. *)
LEMMA WholeStep == BackupTypes /\ FileInv /\ WholeInv /\ FileStep => WholeInv'
<1> SUFFICES ASSUME BackupTypes, FileInv, WholeInv, FileStep, ~interrupted',
                    NEW t \in Seconds, file'[t] = "partial"
             PROVE  \E b \in Backers : backer'[b].pc = "vacuum" /\ backer'[b].at = t
  BY DEF WholeInv, InProgress
<1>t. /\ clock \in Seconds
      /\ file \in [Seconds -> {"none", "partial", "complete"}]
      /\ backer \in [Backers -> [pc : {"idle", "test", "name", "create", "vacuum"}, at : Seconds]]
  BY DEF BackupTypes
<1>w. ~interrupted /\ file[t] = "partial" =>
         \E b \in Backers : backer[b].pc = "vacuum" /\ backer[b].at = t
  BY DEF WholeInv, InProgress
<1>1. CASE UNCHANGED <<clock, file, mtime, backer>> /\ UNCHANGED interrupted
  BY <1>1, <1>w
<1>2. CASE Tick
  BY <1>2, <1>w DEF Tick
<1>3. ASSUME NEW b \in Backers, backer[b].pc # "vacuum",
             \E v : backer' = [backer EXCEPT ![b] = v],
             UNCHANGED <<clock, file, mtime, interrupted>>
      PROVE  \E c \in Backers : backer'[c].pc = "vacuum" /\ backer'[c].at = t
  <2>1. \A c \in Backers : c # b => backer'[c] = backer[c]
    BY <1>3, <1>t
  <2> QED  BY <1>3, <1>w, <2>1
<1>4. ASSUME NEW b \in Backers, backer[b].pc = "create",
             backer' = [backer EXCEPT ![b] = [pc |-> "vacuum", at |-> backer[b].at]],
             file' = [file EXCEPT ![backer[b].at] = "partial"],
             UNCHANGED interrupted
      PROVE  \E c \in Backers : backer'[c].pc = "vacuum" /\ backer'[c].at = t
  <2>1. \A c \in Backers : c # b => backer'[c] = backer[c]
    BY <1>4, <1>t
  <2>2. backer'[b].pc = "vacuum" /\ backer'[b].at = backer[b].at
    BY <1>4, <1>t
  <2>3. t # backer[b].at => file[t] = "partial"
    BY <1>4, <1>t
  <2> QED  BY <1>4, <1>w, <2>1, <2>2, <2>3
<1>5. ASSUME NEW b \in Backers, backer[b].pc = "vacuum",
             backer' = [backer EXCEPT ![b] = Idle],
             \/ file' = [file EXCEPT ![backer[b].at] = "complete"] /\ UNCHANGED interrupted
             \/ UNCHANGED file /\ interrupted' = TRUE
      PROVE  \E c \in Backers : backer'[c].pc = "vacuum" /\ backer'[c].at = t
  <2>1. \A c \in Backers : c # b => backer'[c] = backer[c]
    BY <1>5, <1>t
  <2>2. file' = [file EXCEPT ![backer[b].at] = "complete"] /\ ~interrupted
    BY <1>5
  <2>3. t # backer[b].at /\ file[t] = "partial"
    BY <1>t, <2>2
  <2> QED  BY <1>w, <2>1, <2>2, <2>3
<1>6. ASSUME NEW bs \in SUBSET Backers, Abandon(bs), UNCHANGED file
      PROVE  \E c \in Backers : backer'[c].pc = "vacuum" /\ backer'[c].at = t
  <2>1. ~interrupted /\ \A c \in bs : backer[c].pc # "vacuum"
    BY <1>6 DEF Abandon
  <2>2. \A c \in Backers : backer[c].pc = "vacuum" => backer'[c] = backer[c]
    BY <1>6, <2>1 DEF Abandon
  <2> QED  BY <1>6, <1>w, <2>1, <2>2
<1> QED  BY <1>1, <1>2, <1>3, <1>4, <1>5, <1>6 DEF FileStep

(* A step loses no snapshot: a file that is complete or being written is so  *)
(* after the step, and no older, unless the step interrupts a VACUUM INTO.   *)
LEMMA SnapshotStep ==
    ASSUME BackupTypes, FileInv, WholeInv, FileInv', WholeInv', BackupTypes', FileStep,
           ~interrupted', NEW t \in Seconds, file[t] = "complete" \/ t \in InProgress
    PROVE  /\ ~interrupted
           /\ file'[t] = "complete" \/ t \in InProgress'
           /\ mtime'[t] >= mtime[t]
<1>t. /\ clock \in Seconds
      /\ file \in [Seconds -> {"none", "partial", "complete"}]
      /\ mtime \in [Seconds -> Seconds]
      /\ backer \in [Backers -> [pc : {"idle", "test", "name", "create", "vacuum"}, at : Seconds]]
  BY DEF BackupTypes
<1>n. \A u \in Seconds : u \in Nat /\ u + 1 >= u
  BY UpkeepAssumption DEF Seconds
<1>0. file[t] # "none"
  BY WritingFacts DEF FileInv
<1>1. ~interrupted
  BY DEF FileStep, Tick, Abandon
<1>2. file'[t] # "none"
  BY <1>0, <1>t DEF FileStep, Tick, Abandon
<1>3. file'[t] = "complete" \/ t \in InProgress'
  <2>1. file'[t] \in {"partial", "complete"}
    BY <1>2 DEF BackupTypes
  <2> QED  BY <2>1 DEF WholeInv
<1>4. mtime'[t] \in {mtime[t], clock, clock + 1}
  BY <1>t DEF FileStep, Tick, Abandon
<1>5. mtime[t] \in Nat /\ clock \in Nat /\ mtime[t] =< clock
  BY <1>t, <1>n DEF FileInv
<1>6. mtime'[t] >= mtime[t]
  BY <1>4, <1>5
<1> QED  BY <1>1, <1>3, <1>6

(* Every step keeps a recent snapshot behind a pass that did not fail. *)
LEMMA RecentStep ==
    ASSUME BackupTypes, FileInv, WholeInv, RecentInv, BackupTypes', FileInv', WholeInv',
           FileStep, [Next]_vars
    PROVE  RecentInv'
<1> USE UpkeepAssumption
<1> SUFFICES ASSUME up', Passed', ~interrupted'
             PROVE  \E t \in Seconds : /\ file'[t] = "complete" \/ t \in InProgress'
                                       /\ mtime'[t] + Interval > passed'.at
  BY DEF RecentInv
<1>t. /\ clock \in Seconds /\ mtime \in [Seconds -> Seconds] /\ mtime' \in [Seconds -> Seconds]
      /\ passed.at \in Seconds /\ passed'.at \in Seconds
      /\ file \in [Seconds -> {"none", "partial", "complete"}]
      /\ backer \in [Backers -> [pc : {"idle", "test", "name", "create", "vacuum"}, at : Seconds]]
  BY DEF BackupTypes
<1>s. Seconds \subseteq Nat
  BY DEF Seconds
<1>m. "manager" \in Backers
  BY DEF Backers
(* The pass is as it was. *)
<1>1. ASSUME UNCHANGED passed, up, back' = 0 => back = 0
      PROVE  \E t \in Seconds : /\ file'[t] = "complete" \/ t \in InProgress'
                                /\ mtime'[t] + Interval > passed'.at
  <2>0. ~interrupted
    BY DEF FileStep, Tick, Abandon
  <2>1. PICK t \in Seconds : /\ file[t] = "complete" \/ t \in InProgress
                             /\ mtime[t] + Interval > passed.at
    BY <1>1, <2>0 DEF RecentInv, Passed
  <2>2. file'[t] = "complete" \/ t \in InProgress'
    BY <2>1, SnapshotStep
  <2>3. mtime'[t] >= mtime[t]
    BY <2>1, SnapshotStep
  <2>4. mtime[t] \in Nat /\ mtime'[t] \in Nat /\ passed.at \in Nat
    BY <1>t, <1>s
  <2>5. mtime'[t] + Interval > passed'.at
    BY <1>1, <2>1, <2>3, <2>4
  <2> QED  BY <2>2, <2>5
(* The pass ended in this step, with a file written to within the interval.  *)
<1>2. ASSUME NEW t \in Seconds, file'[t] # "none", mtime'[t] + Interval > clock,
             passed'.at = clock
      PROVE  \E u \in Seconds : /\ file'[u] = "complete" \/ u \in InProgress'
                                /\ mtime'[u] + Interval > passed'.at
  <2>1. file'[t] \in {"partial", "complete"}
    BY <1>2 DEF BackupTypes
  <2>2. file'[t] = "complete" \/ t \in InProgress'
    BY <2>1 DEF WholeInv
  <2> QED  BY <1>2, <2>2
<1>3. CASE TestFresh
  <2> DEFINE t == backer["manager"].at
  <2>1. CASE EndPass("skipped") /\ IsFresh(t)
    <3>1. t \in Seconds /\ file[t] # "none" /\ UNCHANGED <<file, mtime>>
      BY <1>3, <1>t, <1>m DEF TestFresh, FileInv
    <3>2. mtime[t] \in Nat /\ clock \in Nat
      BY <1>t, <1>s, <3>1
    <3>3. mtime[t] + Interval > clock
      BY <2>1, <3>2 DEF IsFresh
    <3>4. passed'.at = clock
      BY <2>1 DEF EndPass
    <3> QED  BY <1>2, <3>1, <3>3, <3>4
  <2>2. CASE UNCHANGED <<due, passed>>
    BY <1>1, <1>3, <2>2 DEF TestFresh
  <2> QED  BY <1>3, <2>1, <2>2 DEF TestFresh
<1>4. ASSUME NEW b \in Backers, NameFile(b)
      PROVE  \E t \in Seconds : /\ file'[t] = "complete" \/ t \in InProgress'
                                /\ mtime'[t] + Interval > passed'.at
  <2>1. CASE UNCHANGED passed
    BY <1>1, <1>4, <2>1 DEF NameFile
  <2>2. CASE EndPass("exists") /\ file[LocalSecond] # "none"
    <3>1. UNCHANGED <<file, mtime, back>>
      BY <1>4 DEF NameFile
    <3>2. back = 0
      BY <2>2, <3>1 DEF EndPass, Passed
    <3>3. LocalSecond = clock
      BY <3>2, LocalFacts
    <3>4. mtime[clock] \in Nat /\ clock \in Nat /\ clock =< mtime[clock]
      BY <1>t, <1>s, <2>2, <3>3 DEF FileInv
    <3>5. mtime[clock] + Interval > clock
      BY <3>4
    <3>6. passed'.at = clock
      BY <2>2 DEF EndPass
    <3> QED  BY <1>2, <1>t, <2>2, <3>1, <3>3, <3>5, <3>6
  <2> QED  BY <1>4, <2>1, <2>2 DEF NameFile, Finish
<1>5. ASSUME NEW b \in Backers, CreateFile(b)
      PROVE  \E t \in Seconds : /\ file'[t] = "complete" \/ t \in InProgress'
                                /\ mtime'[t] + Interval > passed'.at
  <2>1. CASE UNCHANGED passed
    BY <1>1, <1>5, <2>1 DEF CreateFile
  <2>2. CASE EndPass("failed")
    BY <2>2 DEF EndPass, Passed
  <2> QED  BY <1>5, <2>1, <2>2 DEF CreateFile, Finish
<1>6. ASSUME NEW b \in Backers, EndVacuum(b)
      PROVE  \E t \in Seconds : /\ file'[t] = "complete" \/ t \in InProgress'
                                /\ mtime'[t] + Interval > passed'.at
  <2>1. CASE UNCHANGED passed
    BY <1>1, <1>6, <2>1 DEF EndVacuum
  <2>2. CASE EndPass("failed")
    BY <2>2 DEF EndPass, Passed
  <2>3. CASE EndPass("made") /\ file' = [file EXCEPT ![backer[b].at] = "complete"]
    <3>1. backer[b].at \in Seconds
      BY <1>t
    <3>2. file'[backer[b].at] = "complete" /\ mtime'[backer[b].at] = clock /\ clock \in Nat
      BY <1>6, <1>t, <1>s, <2>3, <3>1 DEF EndVacuum
    <3>3. passed'.at = clock
      BY <2>3 DEF EndPass
    <3> QED  BY <1>2, <3>1, <3>2, <3>3
  <2> QED  BY <1>6, <2>1, <2>2, <2>3 DEF EndVacuum, Finish
<1>7. CASE Tick \/ SetBack \/ FindLatest \/ AskBackup
  BY <1>1, <1>7 DEF Tick, SetBack, FindLatest, AskBackup, backupVars
<1>8. CASE WalNext
  <2>1. UNCHANGED <<back, up, passed>>
    BY <1>8 DEF WalNext, Write, Vacuum, ReadBegins, ReadEnds, CheckpointPass, CheckpointFails, backupVars
  <2> QED  BY <1>1, <2>1
<1>9. CASE Crash \/ Shutdown
  BY <1>9 DEF Crash, Shutdown
<1>10. CASE Start
  BY <1>10 DEF Start, Passed
<1>11. CASE UNCHANGED vars
  BY <1>1, <1>11 DEF vars, backupVars
<1> QED
  BY <1>3, <1>4, <1>5, <1>6, <1>7, <1>8, <1>9, <1>10, <1>11 DEF Next, BackupNext

-----------------------------------------------------------------------------
(* The initial states satisfy the invariant. *)
LEMMA IInvInit == Init => IInv /\ WalTypes
<1> SUFFICES ASSUME Init PROVE IInv /\ WalTypes
  OBVIOUS
<1>0. 0 \in Seconds /\ Idle.pc = "idle" /\ Idle.at = 0
  BY UpkeepAssumption DEF Seconds, Idle
<1>1. BackupTypes
  <2>1. backer \in [Backers -> [pc : {"idle", "test", "name", "create", "vacuum"}, at : Seconds]]
    BY <1>0 DEF Init, Idle
  <2>2. passed \in [at : Seconds, outcome : {"none", "skipped", "exists", "made", "failed"}]
    BY <1>0 DEF Init
  <2>3. due \in 0..(MaxClock + Interval)
    BY UpkeepAssumption DEF Init
  <2>4. back \in {0, Fold} /\ back =< clock
    BY DEF Init
  <2> QED  BY <1>0, <2>1, <2>2, <2>3, <2>4 DEF Init, BackupTypes
<1>2. FileInv /\ WholeInv
  <2>1. /\ \A b \in Backers : backer[b].pc = "idle" /\ backer[b].at = 0
        /\ \A t \in Seconds : mtime[t] = 0 /\ file[t] = "none"
        /\ clock = 0
    BY <1>0 DEF Init
  <2>2. "manager" \in Backers
    BY DEF Backers
  <2> QED  BY <2>1, <2>2 DEF FileInv, WholeInv
<1>3. RecentInv
  BY DEF Init, RecentInv, Passed
<1>4. WalTypes
  BY UpkeepAssumption DEF Init, WalTypes, NoReader
<1> QED  BY <1>1, <1>2, <1>3, <1>4 DEF IInv

(* The invariant holds throughout. *)
LEMMA IInvAlways == Spec => [](IInv /\ WalTypes)
<1>1. (IInv /\ WalTypes) /\ [Next]_vars => (IInv /\ WalTypes)'
  BY FileSteps, BackupTypesStep, FileInvStep, WholeStep, RecentStep, WalTypesStep DEF IInv
<1> QED  BY <1>1, IInvInit, PTL DEF Spec

(* RecentUnlessInterrupted: after a pass of the BackupManager that did not   *)
(* fail there is a snapshot of the last interval, whatever the admin command *)
(* and the CLI do beside it.                                                 *)
THEOREM AlwaysRecentUnlessInterrupted == Spec => []RecentUnlessInterrupted
<1>1. IInv /\ WalTypes => RecentUnlessInterrupted
  <2> SUFFICES ASSUME IInv, WalTypes PROVE RecentUnlessInterrupted
    OBVIOUS
  <2>1. TypeOK
    BY DEF IInv, BackupTypes, WalTypes, TypeOK
  <2> QED  BY <2>1 DEF IInv, RecentInv, RecentUnlessInterrupted
<1> QED  BY <1>1, IInvAlways, PTL

(* SnapshotKept: no step writes to a complete snapshot. *)
THEOREM SnapshotsAlwaysKept == Spec => SnapshotKept
<1>1. IInv /\ [Next]_vars =>
        [\A t \in Seconds : file[t] = "complete" =>
            file'[t] = "complete" /\ mtime'[t] = mtime[t]]_vars
  <2> SUFFICES ASSUME IInv, [Next]_vars, NEW t \in Seconds, file[t] = "complete"
               PROVE  file'[t] = "complete" /\ mtime'[t] = mtime[t]
    OBVIOUS
  <2>1. FileStep
    BY FileSteps
  <2>2. /\ file \in [Seconds -> {"none", "partial", "complete"}]
        /\ mtime \in [Seconds -> Seconds]
        /\ backer \in [Backers -> [pc : {"idle", "test", "name", "create", "vacuum"}, at : Seconds]]
    BY DEF IInv, BackupTypes
  <2>3. t \notin InProgress
    BY WritingFacts DEF IInv, FileInv
  <2>4. \A b \in Backers : backer[b].pc = "vacuum" => backer[b].at # t
    BY DEF IInv, FileInv
  <2> QED  BY <2>1, <2>2, <2>3, <2>4 DEF FileStep, Tick, Abandon
<1> QED  BY <1>1, IInvAlways, PTL DEF Spec, SnapshotKept
=============================================================================
