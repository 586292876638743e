------------------------------ MODULE Database ------------------------------
(***************************************************************************)
(* engine/db.py: the reader pool with its slots, the single writer handle  *)
(* under its lock, quarantine of a failed writer, checkpoint, and dispose, *)
(* used by concurrent threads (executor threads, the sink, the managers).  *)
(*                                                                         *)
(* One step is one access to the shared state (semaphore, LifoQueue, the   *)
(* _disposed flag, the lock) or one SQLite call.  A handle is a number;    *)
(* opening takes the smallest one not open.                                *)
(***************************************************************************)
EXTENDS Naturals, Sequences, FiniteSets

CONSTANTS
    Threads,      \* threads that read, write and checkpoint
    PoolSize,     \* reader_pool_size
    OpenFails,    \* "yes" when sqlite3.connect or a PRAGMA may raise
    MaxDisposes   \* bound: calls of dispose (Service.shutdown makes two)

ASSUME DatabaseAssumption ==
    /\ PoolSize \in Nat \ {0}
    /\ IsFiniteSet(Threads)
    /\ MaxDisposes \in Nat
    /\ OpenFails \in {"no", "yes"}
    /\ "free" \notin Threads

NoHandle == 0
Free     == "free"                 \* _writer_lock when nobody holds it
Handles  == 1..(2 * Cardinality(Threads) + PoolSize + 1)

VARIABLES
    tpc,       \* where each thread stands
    slot,      \* connect: does the thread own a slot
    held,      \* the handle each thread works with
    slots,     \* _reader_slots: free slots
    pool,      \* _reader_pool, last in first out
    open,      \* handles that are open
    writer,    \* _writer_conn
    lock,      \* _writer_lock
    disposed,  \* _disposed
    dpc,       \* where dispose stands
    disposes   \* calls of dispose so far

sharedVars == <<slots, pool, open, writer, lock>>
threadVars == <<tpc, slot, held>>
disposeVars == <<disposed, dpc, disposes>>
vars == <<sharedVars, threadVars, disposeVars>>

Init ==
    /\ tpc = [t \in Threads |-> "idle"]
    /\ slot = [t \in Threads |-> "no"]
    /\ held = [t \in Threads |-> NoHandle]
    /\ slots = PoolSize
    /\ pool = << >>
    /\ open = {}
    /\ writer = NoHandle
    /\ lock = Free
    /\ disposed = "no"
    /\ dpc = "idle"
    /\ disposes = 0

Goto(t, pc) == tpc' = [tpc EXCEPT ![t] = pc]
Hold(t, h)  == held' = [held EXCEPT ![t] = h]

(* _open: a fresh handle. *)
IsFresh(h) == h \in Handles \ open /\ \A g \in Handles \ open : h <= g

-----------------------------------------------------------------------------
(* connect(): the thread asks for a slot... *)
ReadStart(t) ==
    /\ tpc[t] = "idle"
    /\ Goto(t, "slot")
    /\ UNCHANGED <<slot, held, sharedVars, disposeVars>>

(* ..._ReaderSlots.acquire gives it one... *)
SlotAcquired(t) ==
    /\ tpc[t] = "slot"
    /\ slots > 0
    /\ slots' = slots - 1
    /\ slot' = [slot EXCEPT ![t] = "yes"]
    /\ Goto(t, "checkout")
    /\ UNCHANGED <<held, pool, open, writer, lock, disposeVars>>

(* Mutant of TimedOut: acquire without a timeout. *)
TimedOutNever == FALSE

(* READER_SLOT_TIMEOUT_S passes with every slot taken. *)
TimedOut == slots = 0

(* ...or acquire times out: the thread goes on without. *)
SlotTimeout(t) ==
    /\ tpc[t] = "slot"
    /\ TimedOut
    /\ Goto(t, "checkout")
    /\ UNCHANGED <<slot, held, sharedVars, disposeVars>>

(* _checkout_reader: the newest pooled handle, or a new one when the pool is *)
(* empty or the thread owns no slot.                                         *)
Checkout(t) ==
    /\ tpc[t] = "checkout"
    /\ \/ /\ slot[t] = "yes" /\ pool # << >>
          /\ Hold(t, pool[Len(pool)])
          /\ pool' = SubSeq(pool, 1, Len(pool) - 1)
          /\ UNCHANGED open
       \/ /\ slot[t] = "no" \/ pool = << >>
          /\ \E h \in Handles : IsFresh(h) /\ Hold(t, h) /\ open' = open \cup {h}
          /\ UNCHANGED pool
    /\ Goto(t, "reading")
    /\ UNCHANGED <<slot, slots, writer, lock, disposeVars>>

(* _open raises in _checkout_reader, before connect's try: the exception     *)
(* reaches the caller and the slot is not released.                          *)
CheckoutFails(t) ==
    /\ OpenFails = "yes"
    /\ tpc[t] = "checkout"
    /\ slot[t] = "no" \/ pool = << >>
    /\ slot' = [slot EXCEPT ![t] = "no"]
    /\ Goto(t, "idle")
    /\ UNCHANGED <<held, sharedVars, disposeVars>>

(* Mutant of Pools: a transient handle is pooled too. *)
PoolsTransient(t) == disposed = "no"

(* _checkin_reader's first test. *)
Pools(t) == slot[t] = "yes" /\ disposed = "no"

(* connect's finally: cursors are closed, then _checkin_reader closes a      *)
(* transient handle, or any handle of a disposed database, or one whose      *)
(* rollback raises; the others go on to be pooled.                           *)
CheckinTest(t) ==
    /\ tpc[t] = "reading"
    /\ \/ /\ open' = open \ {held[t]}
          /\ Hold(t, NoHandle)
          /\ Goto(t, "release")
       \/ /\ Pools(t)
          /\ Goto(t, "put")
          /\ UNCHANGED <<held, open>>
    /\ UNCHANGED <<slot, slots, pool, writer, lock, disposeVars>>

(* put_nowait; a handle that finds the pool full is closed. *)
CheckinPut(t) ==
    /\ tpc[t] = "put"
    /\ pool' = IF Len(pool) < PoolSize THEN Append(pool, held[t]) ELSE pool
    /\ open' = IF Len(pool) < PoolSize THEN open ELSE open \ {held[t]}
    /\ Hold(t, NoHandle)
    /\ Goto(t, "release")
    /\ UNCHANGED <<slot, slots, writer, lock, disposeVars>>

SlotsAfter(t) == IF slot[t] = "yes" THEN slots + 1 ELSE slots

(* connect ends: "if slot: release()". *)
SlotReleased(t) ==
    /\ tpc[t] = "release"
    /\ slots' = SlotsAfter(t)
    /\ slot' = [slot EXCEPT ![t] = "no"]
    /\ Goto(t, "idle")
    /\ UNCHANGED <<held, pool, open, writer, lock, disposeVars>>

-----------------------------------------------------------------------------
LockFree == lock = Free

(* begin() and checkpoint() take the writer lock... *)
WriteLock(t) ==
    /\ tpc[t] = "idle"
    /\ LockFree
    /\ lock' = t
    /\ \/ Goto(t, "begin")
       \/ Goto(t, "checkpoint")
    /\ UNCHANGED <<slot, held, slots, pool, open, writer, disposeVars>>

(* ...and _get_writer opens the handle if there is none. *)
GetWriter(t) ==
    /\ tpc[t] \in {"begin", "checkpoint"}
    /\ held[t] = NoHandle
    /\ IF writer = NoHandle
       THEN \E h \in Handles : /\ IsFresh(h)
                               /\ open' = open \cup {h}
                               /\ writer' = h
                               /\ Hold(t, h)
       ELSE /\ Hold(t, writer)
            /\ UNCHANGED <<open, writer>>
    /\ UNCHANGED <<tpc, slot, slots, pool, lock, disposeVars>>

(* _open raises: nothing was opened, the lock is released. *)
GetWriterFails(t) ==
    /\ OpenFails = "yes"
    /\ tpc[t] \in {"begin", "checkpoint"}
    /\ held[t] = NoHandle
    /\ writer = NoHandle
    /\ lock' = Free
    /\ Goto(t, "idle")
    /\ UNCHANGED <<slot, held, slots, pool, open, writer, disposeVars>>

(* _quarantine_writer: forget the handle if it is the writer, and close it. *)
Untracked(h) == IF writer = h THEN NoHandle ELSE writer

Quarantine(t) ==
    /\ writer' = Untracked(held[t])
    /\ open' = open \ {held[t]}
    /\ Hold(t, NoHandle)

(* BEGIN IMMEDIATE succeeds. *)
Begin(t) ==
    /\ tpc[t] = "begin"
    /\ held[t] # NoHandle
    /\ Goto(t, "txn")
    /\ UNCHANGED <<slot, held, sharedVars, disposeVars>>

(* BEGIN raises ProgrammingError: quarantine, then _get_writer once more and *)
(* BEGIN on the fresh handle.                                                *)
BeginHeals(t) ==
    /\ tpc[t] = "begin"
    /\ held[t] # NoHandle
    /\ \E h \in Handles :
         /\ h \notin open \ {held[t]}
         /\ \A g \in Handles \ (open \ {held[t]}) : h <= g
         /\ open' = (open \ {held[t]}) \cup {h}
         /\ writer' = IF Untracked(held[t]) = NoHandle THEN h ELSE writer
         /\ Hold(t, writer')
    /\ Goto(t, "txn")
    /\ UNCHANGED <<slot, slots, pool, lock, disposeVars>>

(* The transaction (or the checkpoint) ends well: the handle stays. *)
WriteDone(t) ==
    /\ tpc[t] = "txn" \/ (tpc[t] = "checkpoint" /\ held[t] # NoHandle)
    /\ Hold(t, NoHandle)
    /\ lock' = Free
    /\ Goto(t, "idle")
    /\ UNCHANGED <<slot, slots, pool, open, writer, disposeVars>>

(* BEGIN, the body, the commit or the checkpoint raises: quarantine. *)
WriteFails(t) ==
    /\ tpc[t] \in {"begin", "txn", "checkpoint"}
    /\ held[t] # NoHandle
    /\ Quarantine(t)
    /\ lock' = Free
    /\ Goto(t, "idle")
    /\ UNCHANGED <<slot, slots, pool, disposeVars>>

-----------------------------------------------------------------------------
(* dispose() sets _disposed first... *)
DisposeStart ==
    /\ dpc = "idle"
    /\ disposes < MaxDisposes
    /\ disposes' = disposes + 1
    /\ disposed' = "yes"
    /\ dpc' = "drain"
    /\ UNCHANGED <<threadVars, sharedVars>>

(* ...drains the pool, one get_nowait at a time... *)
DisposeDrain ==
    /\ dpc = "drain"
    /\ IF pool # << >>
       THEN /\ open' = open \ {pool[Len(pool)]}
            /\ pool' = SubSeq(pool, 1, Len(pool) - 1)
            /\ UNCHANGED dpc
       ELSE /\ dpc' = "writer"
            /\ UNCHANGED <<open, pool>>
    /\ UNCHANGED <<threadVars, slots, writer, lock, disposed, disposes>>

(* ...and closes the writer under the lock. *)
DisposeWriter ==
    /\ dpc = "writer"
    /\ LockFree
    /\ open' = open \ {writer}
    /\ writer' = NoHandle
    /\ dpc' = "idle"
    /\ UNCHANGED <<threadVars, slots, pool, lock, disposed, disposes>>

-----------------------------------------------------------------------------
Read(t) == \/ SlotAcquired(t) \/ SlotTimeout(t) \/ Checkout(t)
           \/ CheckoutFails(t) \/ CheckinTest(t) \/ CheckinPut(t)
           \/ SlotReleased(t)

Write(t) == \/ GetWriter(t) \/ GetWriterFails(t) \/ Begin(t) \/ BeginHeals(t)
            \/ WriteDone(t) \/ WriteFails(t)

Dispose == DisposeStart \/ DisposeDrain \/ DisposeWriter

Next == \/ \E t \in Threads : ReadStart(t) \/ Read(t) \/ WriteLock(t) \/ Write(t)
        \/ Dispose

Spec == Init /\ [][Next]_vars

(* A thread inside connect, begin or checkpoint runs on; starting a read, a  *)
(* write or a dispose is never forced, and the lock is not fair.             *)
FairSpec == Spec /\ \A t \in Threads : WF_vars(Read(t)) /\ WF_vars(Write(t))

-----------------------------------------------------------------------------
Readers == {t \in Threads : tpc[t] \in {"reading", "put"}}
Writers == {t \in Threads : tpc[t] \in {"begin", "checkpoint", "txn"}}
Pooled  == {pool[i] : i \in DOMAIN pool}
Quiet   == (\A t \in Threads : tpc[t] = "idle") /\ dpc = "idle"

(* Every variable has its type. *)
TypeOK ==
    /\ tpc \in [Threads -> {"idle", "slot", "checkout", "reading", "put",
                            "release", "begin", "checkpoint", "txn"}]
    /\ slot \in [Threads -> {"no", "yes"}]
    /\ held \in [Threads -> Handles \cup {NoHandle}]
    /\ slots \in 0..PoolSize
    /\ pool \in Seq(Handles)
    /\ open \in SUBSET Handles
    /\ writer \in Handles \cup {NoHandle}
    /\ lock \in Threads \cup {Free}
    /\ disposed \in {"no", "yes"}
    /\ dpc \in {"idle", "drain", "writer"}
    /\ disposes \in 0..MaxDisposes

(* No handle is in two hands: a thread's handle is open, no other thread has *)
(* it, and it is neither in the pool nor (for a reader) the writer's; one    *)
(* thread at most is in a write.  The handles in the pool and those out with *)
(* slot owners never exceed reader_pool_size, so put_nowait never finds the  *)
(* pool full.  None is lost, whatever raised, quarantined or timed out: when *)
(* nobody is inside, every open handle is in the pool or is the writer.      *)
HandlesAccounted ==
    /\ TypeOK
    /\ \A t \in Readers : held[t] \in open \ (Pooled \cup {writer})
    /\ \A t \in Writers : held[t] \in {NoHandle, writer} /\ lock = t
    /\ \A t, u \in Readers : held[t] = held[u] => t = u
    /\ Pooled \cup ({writer} \ {NoHandle}) \subseteq open
    /\ Cardinality(Pooled) = Len(pool) /\ writer \notin Pooled
    /\ Len(pool) + Cardinality({t \in Readers : slot[t] = "yes"}) <= PoolSize
    /\ Quiet => open = Pooled \cup ({writer} \ {NoHandle})

(* A read is never kept waiting for ever, even when every slot is taken. *)
ReadEnds == \A t \in Threads : tpc[t] = "slot" ~> tpc[t] = "idle"

(* "BoundedSemaphore.release() is owner-agnostic, so a finally running on a  *)
(* different thread can never corrupt the count": when nobody is inside,     *)
(* every slot is free.                                                       *)
SlotsRestored == Quiet => slots = PoolSize
=============================================================================
