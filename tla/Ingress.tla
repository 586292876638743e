------------------------------ MODULE Ingress ------------------------------
(***************************************************************************)
(* The ingest pipeline of the service: PULL socket -> drain_many ->        *)
(* credit-bounded queue -> persister task -> sink thread -> publish tasks, *)
(* and the part of Service.shutdown that tears it down.                    *)
(*                                                                         *)
(* One step is what runs between two suspension points of the event loop   *)
(* (or of the sink's worker thread).  Two tasks call drain_many: the pump  *)
(* (the single WorkerPool worker) and, during shutdown, the main task.     *)
(* A frame is its arrival number; a batch is the set of the frames in it   *)
(* (drain_many reads the socket in order, so the order inside a batch is   *)
(* the order of the numbers).  The empty set stands for _PERSIST_EXIT: no  *)
(* batch is empty, because both calls of _enqueue are under "if rows".     *)
(***************************************************************************)
EXTENDS Naturals, Sequences, FiniteSets

CONSTANTS
    MaxFrames,    \* bound: frames the producers send
    DrainBatch,   \* DEFAULT_DRAIN_BATCH: frames one drain_many receives
    PendingMax,   \* settings.ingestion.pending_max: the credits
    MaxAttempts,  \* SINK_MAX_ATTEMPTS
    MaxSweeps     \* shutdown's range(10)

ASSUME PendingAssumption == PendingMax \in Nat \ {0}
ASSUME BoundsAssumption ==
    /\ MaxFrames \in Nat
    /\ DrainBatch \in Nat \ {0}
    /\ MaxAttempts \in Nat \ {0}
    /\ MaxSweeps \in Nat \ {0}

Frames   == 1..MaxFrames
Drainers == {"pump", "main"}
Exit     == {}

VARIABLES
    sent,       \* frames the producers have sent
    sock,       \* the PULL socket's receive queue
    dpc,        \* where each drain_many caller stands
    rows,       \* drain_many's local "rows"
    got,        \* iterations of drain_many's recv loop
    credits,    \* the value of _credits
    pending,    \* the queue _pending
    enqueued,   \* _enqueued
    handled,    \* _persisted
    ppc,        \* where the persister task stands
    batch,      \* the batch the persister took last
    spc,        \* the sink call in its worker thread
    attempt,    \* the sink's attempt number
    accepted,   \* frames counted by recv_count
    stored,     \* frames counted by _persisted_count: committed
    dropped,    \* frames counted by _dropped_count
    pubTasks,   \* _publish_tasks: what each still has to publish
    published,  \* frames sent to live subscribers
    mpc,        \* where Service.shutdown stands
    sweeps,     \* shutdown's sweep loop
    cut         \* history: rows of an _enqueue cancelled while awaiting a credit

sockVars == <<sent, sock>>
drainVars == <<dpc, rows, got>>
queueVars == <<credits, pending, enqueued>>
persistVars == <<handled, ppc, batch>>
sinkVars == <<spc, attempt, stored, dropped>>
pubVars == <<pubTasks, published>>
mainVars == <<mpc, sweeps, cut>>
vars == <<sockVars, drainVars, queueVars, persistVars, sinkVars, accepted,
          pubVars, mainVars>>

-----------------------------------------------------------------------------
(* The state after Ingress.start and WorkerPool.start. *)
Init ==
    /\ sent = 0
    /\ sock = << >>
    /\ dpc = [d \in Drainers |-> "idle"]
    /\ rows = [d \in Drainers |-> {}]
    /\ got = [d \in Drainers |-> 0]
    /\ credits = PendingMax
    /\ pending = << >>
    /\ enqueued = 0
    /\ handled = 0
    /\ ppc = "get"
    /\ batch = {}
    /\ spc = "off"
    /\ attempt = 0
    /\ accepted = {}
    /\ stored = {}
    /\ dropped = {}
    /\ pubTasks = {}
    /\ published = {}
    /\ mpc = "up"
    /\ sweeps = 0
    /\ cut = {}

-----------------------------------------------------------------------------
(* A producer's PUSH: the frame reaches the bound PULL socket. *)
Send ==
    /\ sent < MaxFrames
    /\ mpc \notin {"gather", "closed"}
    /\ sent' = sent + 1
    /\ sock' = Append(sock, sent + 1)
    /\ UNCHANGED <<drainVars, queueVars, persistVars, sinkVars, accepted,
                   pubVars, mainVars>>

(* The pump's step, or one iteration of shutdown's sweep, calls drain_many. *)
DrainStart(d) ==
    /\ dpc[d] = "idle"
    /\ \/ d = "pump" /\ mpc = "up" /\ UNCHANGED sweeps
       \/ d = "main" /\ mpc = "sweep" /\ sweeps' = sweeps + 1
    /\ dpc' = [dpc EXCEPT ![d] = "recv"]
    /\ got' = [got EXCEPT ![d] = 0]
    /\ UNCHANGED <<sockVars, rows, queueVars, persistVars, sinkVars, accepted,
                   pubVars, mpc, cut>>

(* One iteration of the loop: recv, then _parse accepts or rejects the frame. *)
Recv(d) ==
    /\ dpc[d] = "recv"
    /\ got[d] < DrainBatch
    /\ sock # << >>
    /\ sock' = Tail(sock)
    /\ got' = [got EXCEPT ![d] = @ + 1]
    /\ \/ /\ rows' = [rows EXCEPT ![d] = @ \cup {Head(sock)}]
          /\ accepted' = accepted \cup {Head(sock)}
       \/ UNCHANGED <<rows, accepted>>
    /\ UNCHANGED <<sent, dpc, queueVars, persistVars, sinkVars, pubVars,
                   mainVars>>

(* Where main goes when its drain_many returned n rows. *)
AfterSweep(n) == IF n = 0 \/ sweeps = MaxSweeps THEN "flush" ELSE "sweep"

(* _enqueue once a credit is free; the put on the unbounded queue does not   *)
(* suspend, so acquire, put and the counters are one step.  A cancelled pump *)
(* re-raises and stops, otherwise drain_many returns to its caller.          *)
PutRows(d, next) ==
    /\ credits > 0
    /\ credits' = credits - 1
    /\ pending' = Append(pending, rows[d])
    /\ enqueued' = enqueued + 1
    /\ rows' = [rows EXCEPT ![d] = {}]
    /\ dpc' = [dpc EXCEPT ![d] = next]

(* After the loop: without rows drain_many returns 0; with rows and a free   *)
(* credit _enqueue completes without suspending; without a credit the caller *)
(* suspends in acquire.                                                      *)
LoopOver(d) ==
    /\ dpc[d] = "recv"
    /\ \/ /\ rows[d] = {}
          /\ dpc' = [dpc EXCEPT ![d] = "idle"]
          /\ mpc' = IF d = "main" THEN AfterSweep(0) ELSE mpc
          /\ UNCHANGED <<rows, queueVars>>
       \/ /\ rows[d] # {}
          /\ PutRows(d, "idle")
          /\ mpc' = IF d = "main" THEN AfterSweep(1) ELSE mpc
       \/ /\ rows[d] # {}
          /\ credits = 0
          /\ dpc' = [dpc EXCEPT ![d] = "acquire"]
          /\ UNCHANGED <<rows, queueVars, mpc>>
    /\ UNCHANGED <<sockVars, got, persistVars, sinkVars, accepted, pubVars,
                   sweeps, cut>>

(* The socket is dry (Again) or the limit is reached. *)
EndRecv(d) == (got[d] = DrainBatch \/ sock = << >>) /\ LoopOver(d)

(* recv raised another ZMQError: the loop is left early. *)
RecvError(d) == got[d] < DrainBatch /\ LoopOver(d)

(* The suspended _enqueue is handed a credit. *)
Acquired(d) ==
    /\ dpc[d] \in {"acquire", "cancelled"}
    /\ PutRows(d, IF dpc[d] = "cancelled" THEN "stopped" ELSE "idle")
    /\ mpc' = IF d = "main" THEN AfterSweep(1) ELSE mpc
    /\ UNCHANGED <<sockVars, got, persistVars, sinkVars, accepted, pubVars,
                   sweeps, cut>>

-----------------------------------------------------------------------------
(* The persister takes the next batch, or returns at the sentinel. *)
Get ==
    /\ ppc = "get"
    /\ pending # << >>
    /\ pending' = Tail(pending)
    /\ \/ /\ Head(pending) = Exit
          /\ ppc' = "done"
          /\ UNCHANGED <<batch, spc, attempt>>
       \/ /\ Head(pending) # Exit
          /\ ppc' = "dispatch"
          /\ batch' = Head(pending)
          /\ spc' = "waiting"
          /\ attempt' = 0
    /\ UNCHANGED <<sockVars, drainVars, credits, enqueued, handled, stored,
                   dropped, accepted, pubVars, mainVars>>

(* Mutant of DropBatch: the lost batch is not counted. *)
DropBatchUncounted == dropped

(* _dropped_count grows by the whole batch. *)
DropBatch == dropped \cup batch

(* The worker thread runs Service._sink: it starts, or wakes from the backoff *)
(* of a failed attempt.  Once shutdown has set self.store to None a first     *)
(* attempt returns silently and a retry raises AttributeError.                *)
SinkBegin ==
    /\ spc = "waiting"
    /\ IF mpc # "closed"
       THEN /\ spc' = "running"
            /\ attempt' = attempt + 1
            /\ UNCHANGED dropped
       ELSE /\ spc' = "returned"
            /\ dropped' = IF attempt = 0 THEN dropped ELSE DropBatch
            /\ UNCHANGED attempt
    /\ UNCHANGED <<sockVars, drainVars, queueVars, persistVars, stored,
                   accepted, pubVars, mainVars>>

(* insert_many commits the whole batch... *)
SinkCommit ==
    /\ spc = "running"
    /\ spc' = "returned"
    /\ stored' = stored \cup batch
    /\ UNCHANGED <<sockVars, drainVars, queueVars, persistVars, attempt,
                   dropped, accepted, pubVars, mainVars>>

LastAttempt == attempt = MaxAttempts

(* ...or raises OperationalError: retried until the last attempt... *)
SinkTransient ==
    /\ spc = "running"
    /\ IF LastAttempt
       THEN /\ spc' = "returned"
            /\ dropped' = DropBatch
       ELSE /\ spc' = "waiting"
            /\ UNCHANGED dropped
    /\ UNCHANGED <<sockVars, drainVars, queueVars, persistVars, attempt,
                   stored, accepted, pubVars, mainVars>>

(* ...or raises anything else: dropped at once. *)
SinkFatal ==
    /\ spc = "running"
    /\ spc' = "returned"
    /\ dropped' = DropBatch
    /\ UNCHANGED <<sockVars, drainVars, queueVars, persistVars, attempt,
                   stored, accepted, pubVars, mainVars>>

(* Mutant of SinkReturned: the sink's thread is not awaited. *)
SinkReturnedIgnored == spc # "off"

(* _dispatch awaits the sink's thread. *)
SinkReturned == spc = "returned"

(* Mutant of Released: the credit is not given back. *)
ReleasedNot == credits

(* _persist_loop's finally. *)
Released == credits + 1

Counted == handled + 1

(* The sink call returned to _dispatch: _on_publish starts one task for the  *)
(* batch, and _persist_loop's finally counts the batch and gives its credit  *)
(* back.                                                                     *)
Dispatched ==
    /\ ppc = "dispatch"
    /\ SinkReturned
    /\ ppc' = "get"
    /\ spc' = "off"
    /\ pubTasks' = pubTasks \cup {batch}
    /\ handled' = Counted
    /\ credits' = Released
    /\ UNCHANGED <<sockVars, drainVars, pending, enqueued, batch, attempt,
                   stored, dropped, accepted, published, mainVars>>

(* One publish task sends its next point; tasks interleave at each await. *)
PublishPoint ==
    /\ \E t \in pubTasks : \E f \in t :
         /\ \A g \in t : f <= g
         /\ published' = published \cup {f}
         /\ pubTasks' = (pubTasks \ {t}) \cup ({t \ {f}} \ {{}})
    /\ UNCHANGED <<sockVars, drainVars, queueVars, persistVars, sinkVars,
                   accepted, mainVars>>

-----------------------------------------------------------------------------
(* Mutant of ParsedRows: drain_many does not catch CancelledError. *)
ParsedRowsLost == {}

(* What drain_many's CancelledError handler still enqueues: the rows parsed  *)
(* so far, when the cancellation lands in the recv loop.                     *)
ParsedRows == IF dpc["pump"] = "recv" THEN rows["pump"] ELSE {}

(* WorkerPool.stop cancels the pump.  Between two calls, or with nothing     *)
(* parsed, it just ends.  In the recv loop the handler enqueues the parsed   *)
(* rows before it re-raises, suspending if no credit is free.  In _enqueue's *)
(* acquire the CancelledError leaves drain_many with its rows.               *)
PoolStop ==
    /\ mpc = "up"
    /\ mpc' = "poolstop"
    /\ \/ /\ dpc["pump"] \in {"idle", "recv"}
          /\ ParsedRows = {}
          /\ dpc' = [dpc EXCEPT !["pump"] = "stopped"]
          /\ rows' = [rows EXCEPT !["pump"] = {}]
          /\ UNCHANGED <<queueVars, cut>>
       \/ /\ ParsedRows # {}
          /\ PutRows("pump", "stopped")
          /\ UNCHANGED cut
       \/ /\ ParsedRows # {}
          /\ credits = 0
          /\ dpc' = [dpc EXCEPT !["pump"] = "cancelled"]
          /\ UNCHANGED <<rows, queueVars, cut>>
       \/ /\ dpc["pump"] = "acquire"
          /\ dpc' = [dpc EXCEPT !["pump"] = "stopped"]
          /\ rows' = [rows EXCEPT !["pump"] = {}]
          /\ cut' = rows["pump"]
          /\ UNCHANGED queueVars
    /\ UNCHANGED <<sockVars, got, persistVars, sinkVars, accepted, pubVars,
                   sweeps>>

(* Mutant of PumpGone: the cancelled worker is not awaited. *)
PumpGoneUnchecked == TRUE

PumpGone == dpc["pump"] = "stopped"

(* pool.stop's gather returns: the sweep of the remaining frames begins. *)
PoolStopped ==
    /\ mpc = "poolstop"
    /\ PumpGone
    /\ mpc' = "sweep"
    /\ UNCHANGED <<sockVars, drainVars, queueVars, persistVars, sinkVars,
                   accepted, pubVars, sweeps, cut>>

(* Mutant of QueueWithExit: no sentinel is put. *)
QueueWithoutExit == pending

(* drain_inflight puts the sentinel behind every batch. *)
QueueWithExit == Append(pending, Exit)

PutExit ==
    /\ mpc = "flush"
    /\ pending' = QueueWithExit
    /\ mpc' = "await"
    /\ UNCHANGED <<sockVars, drainVars, credits, enqueued, persistVars,
                   sinkVars, accepted, pubVars, sweeps, cut>>

(* drain_inflight's await of the persister returns. *)
Flushed ==
    /\ mpc = "await"
    /\ ppc = "done"
    /\ mpc' = "close"
    /\ UNCHANGED <<sockVars, drainVars, queueVars, persistVars, sinkVars,
                   accepted, pubVars, sweeps, cut>>

(* FLUSH_TIMEOUT_S passed: the persister is cancelled.  Inside _dispatch its *)
(* finally still counts the batch and releases the credit, and the sink's    *)
(* thread runs on.                                                           *)
FlushTimeout ==
    /\ mpc = "await"
    /\ ppc \in {"get", "dispatch"}
    /\ ppc' = "cancelled"
    /\ handled' = IF ppc = "dispatch" THEN Counted ELSE handled
    /\ credits' = IF ppc = "dispatch" THEN Released ELSE credits
    /\ mpc' = "close"
    /\ UNCHANGED <<sockVars, drainVars, pending, enqueued, batch, sinkVars,
                   accepted, pubVars, sweeps, cut>>

(* Ingress.stop closes the socket (linger 0 discards what is still in it);   *)
(* the persister is done, so its drain_inflight returns at once.             *)
CloseSocket ==
    /\ mpc = "close"
    /\ sock' = << >>
    /\ mpc' = "gather"
    /\ UNCHANGED <<sent, drainVars, queueVars, persistVars, sinkVars, accepted,
                   pubVars, sweeps, cut>>

PublishesDone == pubTasks = {}

(* The publish tasks are gathered, then pubsub stops and the store closes. *)
CloseStore ==
    /\ mpc = "gather"
    /\ PublishesDone
    /\ mpc' = "closed"
    /\ UNCHANGED <<sockVars, drainVars, queueVars, persistVars, sinkVars,
                   accepted, pubVars, sweeps, cut>>

(* The service has ended and no sink thread outlives it. *)
Terminated == mpc = "closed" /\ spc \in {"off", "returned"} /\ UNCHANGED vars

-----------------------------------------------------------------------------
Drain(d) == \/ DrainStart(d)
            \/ Recv(d)
            \/ EndRecv(d)
            \/ RecvError(d)
            \/ Acquired(d)

Sink == SinkBegin \/ SinkCommit \/ SinkTransient \/ SinkFatal

Shutdown == \/ PoolStop \/ PoolStopped \/ PutExit \/ Flushed \/ FlushTimeout
            \/ CloseSocket \/ CloseStore

Next == \/ Send
        \/ \E d \in Drainers : Drain(d)
        \/ Get \/ Sink \/ Dispatched \/ PublishPoint
        \/ Shutdown
        \/ Terminated

Spec == Init /\ [][Next]_vars

(* Every task the event loop can run is run, and a sink call ends (SQLite's  *)
(* busy timeout bounds it).  The producers, the decision to shut down and    *)
(* the flush timeout are never forced.                                       *)
Fairness ==
    /\ \A d \in Drainers : WF_vars(Drain(d))
    /\ WF_vars(Get) /\ WF_vars(Sink) /\ WF_vars(Dispatched)
    /\ WF_vars(PublishPoint)
    /\ WF_vars(PoolStopped) /\ WF_vars(PutExit) /\ WF_vars(Flushed)
    /\ WF_vars(CloseSocket) /\ WF_vars(CloseStore)

FairSpec == Spec /\ Fairness

-----------------------------------------------------------------------------
(* Where an accepted row can be while it is neither stored nor dropped. *)
InRows  == rows["pump"] \cup rows["main"]
InQueue == UNION {pending[i] : i \in DOMAIN pending}
InSink  == IF spc \in {"waiting", "running"} THEN batch ELSE {}
Open    == InRows \cup InQueue \cup InSink
Lost    == accepted \ (Open \cup stored \cup dropped)

(* Every variable has its type. *)
TypeOK ==
    /\ sent \in 0..MaxFrames
    /\ sock \in Seq(Frames)
    /\ dpc \in [Drainers -> {"idle", "recv", "acquire", "cancelled", "stopped"}]
    /\ rows \in [Drainers -> SUBSET Frames]
    /\ got \in [Drainers -> 0..DrainBatch]
    /\ credits \in Nat
    /\ pending \in Seq(SUBSET Frames)
    /\ enqueued \in Nat
    /\ handled \in Nat
    /\ ppc \in {"get", "dispatch", "done", "cancelled"}
    /\ batch \in SUBSET Frames
    /\ spc \in {"off", "waiting", "running", "returned"}
    /\ attempt \in 0..MaxAttempts
    /\ accepted \in SUBSET Frames
    /\ stored \in SUBSET Frames
    /\ dropped \in SUBSET Frames
    /\ pubTasks \in SUBSET (SUBSET Frames)
    /\ published \in SUBSET Frames
    /\ mpc \in {"up", "poolstop", "sweep", "flush", "await", "close", "gather",
                "closed"}
    /\ sweeps \in 0..MaxSweeps
    /\ cut \in SUBSET Frames

(* The credits bound queued + in-sink batches at pending_max: the batches    *)
(* outstanding by the code's own counters and the free credits always add up *)
(* to pending_max, and the queue holds no more than what is outstanding;     *)
(* every variable has its type.                                              *)
Outstanding == enqueued - handled
CreditsConserved ==
    /\ TypeOK
    /\ credits + Outstanding = PendingMax
    /\ Cardinality({i \in DOMAIN pending : pending[i] # Exit})
         + (IF ppc = "dispatch" THEN 1 ELSE 0) <= PendingMax

(* drain_inflight's sentinel is behind every batch, so a persister that      *)
(* returned at it left nothing on the queue.                                 *)
ExitBehindAll ==
    /\ \A i \in DOMAIN pending : pending[i] = Exit => i = Len(pending)
    /\ ppc = "done" => pending = << >> /\ Outstanding = 0

(* No accepted row is both settled and still open, and none vanishes, except *)
(* those of the one batch whose _enqueue was cancelled while it awaited a    *)
(* credit, as long as the flush has not timed out.  A shutdown that finished *)
(* without that timeout has settled every row that reached the queue, and    *)
(* every row it stored has been published.                                   *)
NoSilentLoss ==
    /\ stored \cap dropped = {}
    /\ Open \cap (stored \cup dropped) = {}
    /\ Open \cup stored \cup dropped \subseteq accepted
    /\ ppc # "cancelled" => Lost = cut
    /\ Cardinality(cut) <= DrainBatch
    /\ mpc = "closed" /\ ppc = "done" =>
        /\ Open = {}
        /\ stored \subseteq published

(* What live subscribers are sent, or a publish task still has to send.      *)
Announced == published \cup UNION pubTasks

(* A point is announced only once the sink has committed it: never while its *)
(* batch is open, never before the commit, whatever retries and shutdown do. *)
(* The one exception is a point the sink has given up and counted as         *)
(* dropped; PublishedLanded below shows that it is a real one.               *)
PublishedUnlessDropped == Announced \ dropped \subseteq stored

(* The pipeline implements the ledger: rows are settled once, in arrival     *)
(* order and by whole batches, because the single receiver, the FIFO queue   *)
(* and the single persister never let a later batch overtake an earlier one. *)
Ledger == INSTANCE IngestLedger
            WITH Rows <- Frames, open <- Open, stopping <- (mpc # "up")
ImplementsLedger == Ledger!Spec

(* Every accepted row is settled while the service is up, whatever the       *)
(* backpressure: nobody waits for a credit for ever.  And flush() returns:   *)
(* _persisted reaches the _enqueued it captured.                             *)
AcceptedSettles ==
    /\ \A f \in Frames : f \in accepted ~> (f \in stored \cup dropped \/ mpc # "up")
    /\ \A n \in 1..MaxFrames : enqueued >= n ~> (handled >= n \/ ppc = "cancelled")

(* A shutdown that has begun ends, with or without the flush timeout. *)
ShutdownEnds == mpc = "poolstop" ~> mpc = "closed"

(* "Every accepted row must land in one of {persisted, dropped} - nothing    *)
(* vanishes silently": no accepted row is ever unaccounted for while the     *)
(* flush has not timed out.                                                  *)
NothingVanishes == ppc # "cancelled" => Lost = {}

(* "live subscribers never see a point that later failed to land" and "only  *)
(* after persistence succeeded" (ingress.py): whatever is announced is       *)
(* committed.  Refuted: Service._sink swallows the last failure, so          *)
(* _dispatch goes on to publish the batch that was dropped.                  *)
PublishedLanded == Announced \subseteq stored
=============================================================================
