------------------------------- MODULE Upkeep -------------------------------
(***************************************************************************)
(* What keeps a database in shape beside its use: the backups of the       *)
(* BackupManager, of the admin command and of the CLI (backup.py), the WAL *)
(* and its CheckpointManager (checkpoint.py), ANALYZE and VACUUM           *)
(* (maintenance.py, pragmas.py, service.py), and the checkpoints at start   *)
(* and shutdown (recovery.py, service.py).                                  *)
(*                                                                         *)
(* A snapshot is written by VACUUM INTO under the name of the second it    *)
(* was begun in, by local time.  Time is counted in seconds; a file is     *)
(* fresh for Interval of them.  The WAL is counted in frames: a reader     *)
(* that began with m frames, be it a query or a snapshot being written,    *)
(* keeps the frames after m out of the database.  SQLite is modelled from  *)
(* how the code uses it.  The backups and the WAL share no variable but    *)
(* up, and part says which of the two a behaviour is about.                *)
(***************************************************************************)
EXTENDS Naturals, FiniteSets, FiniteSetsExt

CONSTANTS
    Fold,        \* seconds the local time goes back by at the end of summer time
    Interval,    \* seconds for which a snapshot is fresh
    MaxClock,    \* bound on the clock
    Threshold,   \* max_wal_bytes and journal_size_limit, in frames
    SafeSize,    \* TRUNCATE_SAFE_WAL_BYTES, in frames
    MaxWal,      \* bound on the frames of the WAL
    MaxCrashes   \* bound on crashes of the service

ASSUME UpkeepAssumption ==
    /\ Fold \in Nat \ {0} /\ Interval \in Nat \ {0} /\ Threshold \in Nat \ {0}
    /\ SafeSize \in Nat /\ MaxWal \in Nat /\ MaxClock \in Nat /\ MaxCrashes \in Nat
    /\ SafeSize < Threshold /\ Threshold < MaxWal

VARIABLES
    part,        \* "backup" or "wal"
    clock,
    back,        \* what the local time is behind the clock
    up,          \* the service runs
    file,        \* per second: "none", "partial" or "complete"
    mtime,       \* per second: when that file was last written to
    backer,      \* per writer of snapshots: its step and its file's second
    due,         \* when the manager's next pass begins
    passed,      \* the manager's last pass: when it looked, and its outcome
    interrupted, \* some VACUUM INTO did not come to its end
    wal, ckpt,   \* frames in the WAL, and how many are in the database
    size,        \* the WAL file's size in frames
    mark,        \* the last frame of the query reader's snapshot, or NoReader
    busyRuns,    \* the CheckpointManager's busy_runs
    lastBusy,    \* and its last_busy
    heldBack,    \* passes in a row that a reader kept from completing
    crashes

backupVars == <<file, mtime, backer, due, passed, interrupted>>
walVars == <<wal, ckpt, size, mark, busyRuns, lastBusy, heldBack>>
vars == <<part, clock, back, up, backupVars, walVars, crashes>>

Seconds == 0..MaxClock
Backers == {"manager", "command"}
NoReader == MaxWal + 1
Idle == [pc |-> "idle", at |-> 0]

(* The files being written now. *)
InProgress == {backer[b].at : b \in {b \in Backers : backer[b].pc = "vacuum"}}

Init ==
    /\ part \in {"backup", "wal"}
    /\ clock = 0 /\ back = 0 /\ up = TRUE
    /\ file = [t \in Seconds |-> "none"]
    /\ mtime = [t \in Seconds |-> 0]
    /\ backer = [b \in Backers |-> Idle]
    /\ due = 0
    /\ passed = [at |-> 0, outcome |-> "none"]
    /\ interrupted = FALSE
    /\ wal = 0 /\ ckpt = 0 /\ size = 0
    /\ mark = NoReader
    /\ busyRuns = 0 /\ lastBusy = 0 /\ heldBack = 0
    /\ crashes = 0

(* A second passes; files being written are written to. *)
Tick ==
    /\ clock < MaxClock
    /\ clock' = clock + 1
    /\ mtime' = [t \in Seconds |-> IF t \in InProgress THEN clock + 1 ELSE mtime[t]]
    /\ UNCHANGED <<back, up, file, backer, due, passed, interrupted, walVars, crashes>>

(* The end of summer time: the local time, which names the files, goes back  *)
(* by Fold and repeats as many seconds.                                      *)
SetBack ==
    /\ back = 0 /\ clock >= Fold
    /\ back' = Fold
    /\ UNCHANGED <<clock, up, backupVars, walVars, crashes>>
LocalSecond == clock - back

-----------------------------------------------------------------------------
(* Backups. *)

Move(b, pc, at) == backer' = [backer EXCEPT ![b] = [pc |-> pc, at |-> at]]

(* The end of a pass of the manager, which then sleeps for the interval. *)
EndPass(outcome) ==
    /\ due' = clock + Interval
    /\ passed' = [at |-> clock, outcome |-> outcome]

Names == {t \in Seconds : file[t] # "none"}

(* run_once: backup_latest in a thread; it sorts the names. *)
FindLatest ==
    /\ up /\ backer["manager"].pc = "idle" /\ clock >= due
    /\ IF Names = {} THEN Move("manager", "name", 0) ELSE Move("manager", "test", Max(Names))
    /\ UNCHANGED <<clock, back, up, file, mtime, due, passed, interrupted, walVars, crashes>>

(* _is_fresh, on the loop: a fresh file ends the pass. *)
IsFreshInclusive(t) == clock - mtime[t] <= Interval
IsFresh(t) == clock - mtime[t] < Interval
TestFresh ==
    /\ backer["manager"].pc = "test"
    /\ IF IsFresh(backer["manager"].at)
       THEN backer' = [backer EXCEPT !["manager"] = Idle] /\ EndPass("skipped")
       ELSE Move("manager", "name", 0) /\ UNCHANGED <<due, passed>>
    /\ UNCHANGED <<clock, back, up, file, mtime, interrupted, walVars, crashes>>

(* The command backup, of the admin socket or of the CLI, calls              *)
(* backup_database without a look at other files.                            *)
AskBackup ==
    /\ backer["command"].pc = "idle"
    /\ Move("command", "name", 0)
    /\ UNCHANGED <<clock, back, up, file, mtime, due, passed, interrupted, walVars, crashes>>

(* The end of backup_database for b: the manager counts a pass when the file *)
(* existed, and not when anything else was raised.                           *)
Finish(b, outcome) ==
    /\ backer' = [backer EXCEPT ![b] = Idle]
    /\ IF b = "manager" THEN EndPass(outcome) ELSE UNCHANGED <<due, passed>>

(* backup_database: the name has the second of the local time; a file with   *)
(* that name raises BackupExistsError.                                       *)
NameFile(b) ==
    /\ backer[b].pc = "name"
    /\ IF file[LocalSecond] # "none"
       THEN Finish(b, "exists")
       ELSE Move(b, "create", LocalSecond) /\ UNCHANGED <<due, passed>>
    /\ UNCHANGED <<clock, back, up, file, mtime, interrupted, walVars, crashes>>

(* VACUUM INTO begins: SQLite refuses a file that exists by now. *)
RefusedNever(t) == FALSE
Refused(t) == file[t] # "none"
CreateFile(b) ==
    LET t == backer[b].at IN
    /\ backer[b].pc = "create"
    /\ IF Refused(t)
       THEN Finish(b, "failed") /\ UNCHANGED <<file, mtime>>
       ELSE /\ Move(b, "vacuum", t)
            /\ file' = [file EXCEPT ![t] = "partial"]
            /\ mtime' = [mtime EXCEPT ![t] = clock]
            /\ UNCHANGED <<due, passed>>
    /\ UNCHANGED <<clock, back, up, interrupted, walVars, crashes>>

(* ... and ends, or fails and leaves what it wrote. *)
EndVacuum(b) ==
    LET t == backer[b].at IN
    /\ backer[b].pc = "vacuum"
    /\ mtime' = [mtime EXCEPT ![t] = clock]
    /\ \/ /\ file' = [file EXCEPT ![t] = "complete"]
          /\ Finish(b, "made")
          /\ UNCHANGED interrupted
       \/ /\ Finish(b, "failed")
          /\ interrupted' = TRUE
          /\ UNCHANGED file
    /\ UNCHANGED <<clock, back, up, walVars, crashes>>

-----------------------------------------------------------------------------
(* The WAL. *)

(* A transaction of f frames.  When all frames are in the database and no    *)
(* reader uses the WAL, it starts over and the file is cut to the limit.     *)
Commit(f) ==
    LET reset == ckpt = wal /\ mark = NoReader /\ wal > 0
        after == IF reset THEN f ELSE wal + f
    IN
    /\ after <= MaxWal
    /\ wal' = after
    /\ ckpt' = IF reset THEN 0 ELSE ckpt
    /\ size' = Max({after, IF reset THEN Min({size, Threshold}) ELSE size})

(* A batch of the sink, or the ANALYZE of the MaintenanceManager or of the   *)
(* start: one small transaction.  So is what optimize writes just before a   *)
(* shutdown's checkpoint, if it writes.                                      *)
Write ==
    /\ up /\ Commit(1)
    /\ UNCHANGED <<clock, back, up, backupVars, mark, busyRuns, lastBusy, heldBack, crashes>>

(* VACUUM, by the admin command or by the CLI, writes the database into the  *)
(* WAL; when it is refused as busy nothing changes.                          *)
Vacuum ==
    /\ Commit(2)
    /\ UNCHANGED <<clock, back, up, backupVars, mark, busyRuns, lastBusy, heldBack, crashes>>

ReadBegins ==
    /\ up /\ mark = NoReader
    /\ mark' = wal
    /\ UNCHANGED <<clock, back, up, backupVars, wal, ckpt, size, busyRuns, lastBusy, heldBack, crashes>>

ReadEnds ==
    /\ mark # NoReader
    /\ mark' = NoReader
    /\ UNCHANGED <<clock, back, up, backupVars, wal, ckpt, size, busyRuns, lastBusy, heldBack, crashes>>

(* PRAGMA wal_checkpoint(PASSIVE): as many frames as the readers allow, and  *)
(* never busy because of one.                                                *)
ReachNothingNew == ckpt
Reach == Max({ckpt, Min({wal, mark})})
PassiveBusy == 0

(* _checkpoint_if_needed: nothing below the threshold; else a PASSIVE        *)
(* checkpoint, whose busy counts the runs blocked.                           *)
CheckpointPass ==
    /\ up /\ size >= Threshold
    /\ ckpt' = Reach
    /\ busyRuns' = IF PassiveBusy > 0 THEN busyRuns + 1 ELSE 0
    /\ lastBusy' = PassiveBusy
    /\ heldBack' = IF Reach < wal THEN Min({heldBack + 1, 3}) ELSE 0
    /\ UNCHANGED <<clock, back, up, backupVars, wal, size, mark, crashes>>

(* ... or it raises, which is logged, and the pass is over. *)
CheckpointFails ==
    /\ up /\ size >= Threshold
    /\ lastBusy' = 1
    /\ UNCHANGED <<clock, back, up, backupVars, wal, ckpt, size, mark, busyRuns, heldBack, crashes>>

-----------------------------------------------------------------------------
(* The service's end and start. *)

(* A cancelled or killed manager or command leaves its file as it is: an     *)
(* admin command dies with the service, the CLI's does not.                  *)
Abandon(bs) ==
    /\ backer' = [b \in Backers |-> IF b \in bs THEN Idle ELSE backer[b]]
    /\ interrupted' = (interrupted \/ \E b \in bs : backer[b].pc = "vacuum")

Crash ==
    /\ up /\ crashes < MaxCrashes
    /\ up' = FALSE /\ crashes' = crashes + 1
    /\ \E with \in {{"manager"}, Backers} : Abandon(with)
    /\ mark' = NoReader
    /\ UNCHANGED <<clock, back, file, mtime, due, passed, wal, ckpt, size, busyRuns, lastBusy, heldBack>>

(* shutdown: the manager's task is cancelled but the thread it waits for is  *)
(* joined before the process exits, and writes its file to the end; then     *)
(* optimize, and a checkpoint that truncates a small WAL when nobody reads.  *)
Shutdown ==
    /\ up
    /\ backer["manager"].pc # "vacuum"
    /\ up' = FALSE
    /\ Abandon({"manager"})
    /\ IF size <= SafeSize /\ mark = NoReader
       THEN wal' = 0 /\ ckpt' = 0 /\ size' = 0
       ELSE ckpt' = Reach /\ UNCHANGED <<wal, size>>
    /\ UNCHANGED <<clock, back, file, mtime, due, passed, mark, busyRuns, lastBusy, heldBack, crashes>>

(* start: recover_wal checkpoints; the managers begin anew, the backup       *)
(* manager with a pass.                                                      *)
Start ==
    /\ ~up
    /\ up' = TRUE
    /\ ckpt' = Reach
    /\ due' = clock
    /\ busyRuns' = 0 /\ lastBusy' = 0 /\ heldBack' = 0
    /\ passed' = [at |-> 0, outcome |-> "none"]
    /\ UNCHANGED <<clock, back, file, mtime, backer, interrupted, wal, size, mark, crashes>>

BackupNext ==
    \/ Tick \/ SetBack
    \/ FindLatest \/ TestFresh \/ AskBackup
    \/ \E b \in Backers : NameFile(b) \/ CreateFile(b) \/ EndVacuum(b)

WalNext == Write \/ Vacuum \/ ReadBegins \/ ReadEnds \/ CheckpointPass \/ CheckpointFails

Next ==
    /\ \/ part = "backup" /\ BackupNext
       \/ part = "wal" /\ WalNext
       \/ Crash \/ Shutdown \/ Start
    /\ UNCHANGED part

Spec == Init /\ [][Next]_vars

(* The manager's loop survives every exception and comes round again until a *)
(* checkpoint does not raise, and a query's read ends: it is bounded by the  *)
(* row cap.                                                                  *)
FairSpec == Spec /\ WF_vars(part = "wal" /\ CheckpointPass /\ UNCHANGED part)
                 /\ WF_vars(part = "wal" /\ ReadEnds /\ UNCHANGED part)
-----------------------------------------------------------------------------
TypeOK ==
    /\ clock \in Seconds /\ back \in {0, Fold} /\ up \in BOOLEAN
    /\ file \in [Seconds -> {"none", "partial", "complete"}]
    /\ mtime \in [Seconds -> Seconds]
    /\ \A b \in Backers : backer[b].at \in Seconds
    /\ due \in 0..(MaxClock + Interval)
    /\ wal \in 0..MaxWal /\ ckpt \in 0..wal /\ size \in wal..MaxWal
    /\ mark \in 0..NoReader

(* A pass that does not fail; one that found its name taken only while no    *)
(* local second has come twice.                                              *)
Passed == passed.outcome \in {"skipped", "made"} \/ (passed.outcome = "exists" /\ back = 0)

(* Such a pass of the manager leaves a snapshot of the last interval behind, *)
(* complete or still being written by another, unless some VACUUM INTO was   *)
(* interrupted.                                                              *)
RecentUnlessInterrupted ==
    /\ TypeOK
    /\ up /\ Passed /\ ~interrupted =>
        \E t \in Seconds :
            /\ file[t] = "complete" \/ t \in InProgress
            /\ mtime[t] + Interval > passed.at

(* A complete snapshot stays as it is, however manager, command and CLI      *)
(* meet in one second, and when the seconds of its name come a second time.  *)
SnapshotKept ==
    [][\A t \in Seconds : file[t] = "complete" => file'[t] = "complete" /\ mtime'[t] = mtime[t]]_vars

(* No frame stays out of the database for ever once the WAL is over the      *)
(* threshold, although reads come and go and the pass never waits for them.  *)
FramesReachDatabase ==
    \A n \in 1..MaxWal : up /\ size >= Threshold /\ wal = n ~> ~up \/ ckpt >= n
=============================================================================
