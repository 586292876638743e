--------------------------- MODULE IngressProofs ---------------------------
(***************************************************************************)
(* Proofs about Ingress for every value of its constants.                  *)
(***************************************************************************)
EXTENDS Ingress, FiniteSetTheorems, TLAPS

(* The phases of shutdown after drain_inflight has put the sentinel. *)
ExitPut == mpc \in {"await", "close", "gather", "closed"}

(* Who may be in drain_many, and with what, in each phase of shutdown: the   *)
(* pump until the pool is stopped, main during the sweep, nobody later.      *)
DrainInv ==
    /\ dpc["pump"] # "stopped" => mpc \in {"up", "poolstop"}
    /\ dpc["pump"] = "cancelled" => mpc = "poolstop"
    /\ dpc["main"] # "idle" => mpc = "sweep" /\ dpc["main"] \in {"recv", "acquire"}
    /\ mpc = "sweep" /\ dpc["main"] = "idle" => sweeps < MaxSweeps
    /\ mpc \in {"up", "poolstop"} => sweeps = 0
    /\ \A d \in Drainers : dpc[d] \in {"acquire", "cancelled"} => rows[d] # {}

(* A sink thread about to try has attempts left. *)
AttemptInv == spc = "waiting" => attempt < MaxAttempts

(* The queue holds the outstanding batches the persister has not taken and,  *)
(* from PutExit until the persister takes it, the sentinel in last place.    *)
QueueInv ==
    /\ \A i \in 1..Len(pending) : pending[i] = Exit => i = Len(pending) /\ ExitPut
    /\ ExitPut /\ ppc # "done" => pending # << >> /\ pending[Len(pending)] = Exit
    /\ ppc = "done" => ExitPut /\ pending = << >>
    /\ ppc = "cancelled" => ExitPut
    /\ Len(pending) + (IF ppc = "dispatch" THEN 1 ELSE 0)
         = (enqueued - handled) + (IF ExitPut /\ ppc # "done" THEN 1 ELSE 0)
    /\ credits + (enqueued - handled) = PendingMax

IInv == TypeOK /\ DrainInv /\ AttemptInv /\ QueueInv

USE PendingAssumption, BoundsAssumption

(* What the queue's put and get do to it. *)
LEMMA AppendFacts ==
  ASSUME NEW S, NEW s \in Seq(S), NEW e \in S
  PROVE  /\ Append(s, e) \in Seq(S)
         /\ Append(s, e) # << >>
         /\ Len(Append(s, e)) = Len(s) + 1
         /\ \A i \in 1..Len(s) : Append(s, e)[i] = s[i]
         /\ Append(s, e)[Len(s) + 1] = e
  OBVIOUS

(* What Head and Tail do to a sequence. *)
LEMMA TailFacts ==
  ASSUME NEW S, NEW s \in Seq(S), s # << >>
  PROVE  /\ Head(s) \in S
         /\ Head(s) = s[1]
         /\ Len(s) \in Nat \ {0}
         /\ Tail(s) \in Seq(S)
         /\ Len(Tail(s)) = Len(s) - 1
         /\ \A i \in 1..Len(Tail(s)) : Tail(s)[i] = s[i + 1]
  OBVIOUS

(* A batch put before the sentinel keeps the queue's invariant. *)
LEMMA PutRowsQueue ==
  ASSUME TypeOK, QueueInv, ~ExitPut, ~ExitPut',
         NEW d \in Drainers, NEW next, PutRows(d, next), rows[d] # {},
         UNCHANGED <<ppc, handled>>
  PROVE  QueueInv' /\ pending' \in Seq(SUBSET Frames) /\ credits' \in Nat
                   /\ enqueued' \in Nat
  <1>1. /\ rows[d] \in SUBSET Frames
        /\ pending \in Seq(SUBSET Frames)
        /\ pending' = Append(pending, rows[d])
        /\ ppc # "done"
    BY DEF TypeOK, PutRows, QueueInv
  <1>2. rows[d] # Exit
    BY DEF Exit
  <1>3. /\ pending' \in Seq(SUBSET Frames)
        /\ pending' # << >>
        /\ Len(pending') = Len(pending) + 1
        /\ \A i \in 1..Len(pending) : pending'[i] = pending[i]
        /\ pending'[Len(pending) + 1] = rows[d]
    BY <1>1, AppendFacts
  <1>4. Len(pending) \in Nat /\ \A i \in 1..Len(pending') : pending'[i] # Exit'
    BY <1>1, <1>2, <1>3 DEF QueueInv, Exit
  <1>5. /\ credits' = credits - 1 /\ enqueued' = enqueued + 1
        /\ credits \in Nat /\ credits > 0 /\ enqueued \in Nat /\ handled \in Nat
    BY DEF PutRows, TypeOK
  <1> QED
    BY <1>1, <1>3, <1>4, <1>5 DEF QueueInv

(* The first state satisfies the inductive invariant. *)
LEMMA IInvInit == Init => IInv
  BY DEF Init, IInv, TypeOK, DrainInv, AttemptInv, QueueInv, ExitPut, Frames,
         Drainers, Exit

(* Each step preserves it. *)
LEMMA IInvStep == IInv /\ [Next]_vars => IInv'
  <1> SUFFICES ASSUME IInv, [Next]_vars PROVE IInv'
    OBVIOUS
  <1> USE DEF IInv, Drainers, sockVars, drainVars, queueVars,
              persistVars, sinkVars, pubVars, mainVars
  <1>1. CASE Send
    <2>1. TypeOK'
      BY <1>1 DEF Send, TypeOK, Frames
    <2>2. DrainInv'
      BY <1>1 DEF Send, DrainInv
    <2>3. AttemptInv'
      BY <1>1 DEF Send, AttemptInv
    <2>4. QueueInv'
      BY <1>1 DEF Send, QueueInv, ExitPut
    <2> QED BY <2>1, <2>2, <2>3, <2>4
  <1>2. ASSUME NEW d \in Drainers, DrainStart(d) PROVE IInv'
    <2>1. TypeOK'
      BY <1>2 DEF DrainStart, TypeOK, DrainInv, AttemptInv, QueueInv
    <2>2. DrainInv'
      BY <1>2 DEF DrainStart, TypeOK, DrainInv, QueueInv, ExitPut
    <2>3. AttemptInv'
      BY <1>2 DEF DrainStart, TypeOK, AttemptInv
    <2>4. QueueInv'
      BY <1>2 DEF DrainStart, TypeOK, DrainInv, QueueInv, ExitPut
    <2> QED BY <2>1, <2>2, <2>3, <2>4
  <1>3. ASSUME NEW d \in Drainers, Recv(d) PROVE IInv'
    <2>1. TypeOK'
      BY <1>3 DEF Recv, TypeOK, DrainInv, AttemptInv, QueueInv
    <2>2. DrainInv'
      BY <1>3 DEF Recv, TypeOK, DrainInv, QueueInv, ExitPut
    <2>3. AttemptInv'
      BY <1>3 DEF Recv, TypeOK, AttemptInv
    <2>4. QueueInv'
      BY <1>3 DEF Recv, TypeOK, DrainInv, QueueInv, ExitPut
    <2> QED BY <2>1, <2>2, <2>3, <2>4
  <1>4. ASSUME NEW d \in Drainers, LoopOver(d) PROVE IInv'
    <2>0. ~ExitPut /\ ~ExitPut' /\ UNCHANGED <<ppc, handled>>
      BY <1>4 DEF LoopOver, TypeOK, DrainInv, ExitPut, AfterSweep
    <2>1. /\ QueueInv'
          /\ pending' \in Seq(SUBSET Frames) /\ credits' \in Nat /\ enqueued' \in Nat
      <3>1. CASE rows[d] # {} /\ PutRows(d, "idle")
        BY <2>0, <3>1, PutRowsQueue
      <3>2. CASE UNCHANGED queueVars
        BY <2>0, <3>2 DEF TypeOK, QueueInv
      <3> QED BY <1>4, <3>1, <3>2 DEF LoopOver
    <2>2. TypeOK'
      BY <1>4, <2>1 DEF LoopOver, TypeOK, PutRows, AfterSweep
    <2>3. DrainInv'
      BY <1>4 DEF LoopOver, TypeOK, DrainInv, PutRows, AfterSweep
    <2>4. AttemptInv'
      BY <1>4 DEF LoopOver, AttemptInv
    <2> QED BY <2>1, <2>2, <2>3, <2>4
  <1>5. ASSUME NEW d \in Drainers, Acquired(d) PROVE IInv'
    <2>0. /\ ~ExitPut /\ ~ExitPut' /\ UNCHANGED <<ppc, handled>>
          /\ rows[d] # {}
          /\ PutRows(d, IF dpc[d] = "cancelled" THEN "stopped" ELSE "idle")
      BY <1>5 DEF Acquired, TypeOK, DrainInv, ExitPut, AfterSweep
    <2>1. /\ QueueInv'
          /\ pending' \in Seq(SUBSET Frames) /\ credits' \in Nat /\ enqueued' \in Nat
      BY <2>0, PutRowsQueue
    <2>2. TypeOK'
      BY <1>5, <2>1 DEF Acquired, TypeOK, PutRows, AfterSweep
    <2>3. DrainInv'
      BY <1>5 DEF Acquired, TypeOK, DrainInv, PutRows, AfterSweep
    <2>4. AttemptInv'
      BY <1>5 DEF Acquired, AttemptInv
    <2> QED BY <2>1, <2>2, <2>3, <2>4
  <1>6. CASE Get
    <2>1. TypeOK'
      BY <1>6 DEF Get, TypeOK
    <2>2. DrainInv'
      BY <1>6 DEF Get, DrainInv
    <2>3. AttemptInv'
      BY <1>6 DEF Get, AttemptInv
    <2>4. QueueInv'
      <3>0. /\ ExitPut' <=> ExitPut
            /\ enqueued \in Nat /\ handled \in Nat /\ credits \in Nat
            /\ UNCHANGED <<enqueued, handled, credits>>
        BY <1>6 DEF Get, TypeOK, ExitPut
      <3>1. /\ pending \in Seq(SUBSET Frames) /\ pending # << >>
            /\ pending' = Tail(pending)
        BY <1>6 DEF Get, TypeOK
      <3>2. /\ Head(pending) = pending[1] /\ Len(pending) \in Nat \ {0}
            /\ pending' \in Seq(SUBSET Frames)
            /\ Len(pending') = Len(pending) - 1
            /\ \A i \in 1..Len(pending') : pending'[i] = pending[i + 1]
        BY <3>1, TailFacts
      <3>3. CASE Head(pending) = Exit
        <4>1. Len(pending) = 1 /\ ExitPut /\ ppc = "get" /\ ppc' = "done"
          BY <1>6, <3>2, <3>3 DEF Get, QueueInv
        <4>2. pending' = << >>
          BY <3>2, <4>1
        <4> QED
          BY <3>0, <3>2, <4>1, <4>2 DEF QueueInv
      <3>4. CASE Head(pending) # Exit
        <4>1. ppc = "get" /\ ppc' = "dispatch"
          BY <1>6, <3>4 DEF Get
        <4>2. ExitPut => pending[Len(pending)] = Exit /\ Len(pending) > 1
          BY <3>2, <3>4, <4>1 DEF QueueInv
        <4>3. \A i \in 1..Len(pending') :
                 pending'[i] = Exit => i = Len(pending') /\ ExitPut'
          BY <3>0, <3>2 DEF QueueInv
        <4>4. ExitPut' => pending' # << >> /\ pending'[Len(pending')] = Exit
          BY <3>0, <3>2, <4>2
        <4>5. Len(pending') + 1 = (enqueued' - handled') + (IF ExitPut' THEN 1 ELSE 0)
          BY <3>0, <3>2, <4>1 DEF QueueInv
        <4>6. credits' + (enqueued' - handled') = PendingMax
          BY <3>0 DEF QueueInv
        <4> QED
          BY <4>1, <4>3, <4>4, <4>5, <4>6 DEF QueueInv, Exit
      <3> QED BY <3>3, <3>4
    <2> QED BY <2>1, <2>2, <2>3, <2>4
  <1>7. CASE SinkBegin
    BY <1>7 DEF SinkBegin, DropBatch, TypeOK, DrainInv, AttemptInv, QueueInv, ExitPut
  <1>8. CASE SinkCommit
    BY <1>8 DEF SinkCommit, TypeOK, DrainInv, AttemptInv, QueueInv, ExitPut
  <1>9. CASE SinkTransient
    BY <1>9 DEF SinkTransient, DropBatch, LastAttempt, TypeOK, DrainInv, AttemptInv, QueueInv, ExitPut
  <1>10. CASE SinkFatal
    BY <1>10 DEF SinkFatal, DropBatch, TypeOK, DrainInv, AttemptInv, QueueInv, ExitPut
  <1>11. CASE Dispatched
    <2>1. TypeOK'
      BY <1>11 DEF Dispatched, Released, Counted, TypeOK, DrainInv, AttemptInv, QueueInv
    <2>2. DrainInv'
      BY <1>11 DEF Dispatched, Released, Counted, TypeOK, DrainInv, QueueInv, ExitPut
    <2>3. AttemptInv'
      BY <1>11 DEF Dispatched, Released, Counted, TypeOK, AttemptInv
    <2>4. QueueInv'
      BY <1>11 DEF Dispatched, Released, Counted, TypeOK, DrainInv, QueueInv, ExitPut
    <2> QED BY <2>1, <2>2, <2>3, <2>4
  <1>12. CASE PublishPoint
    <2>1. published' \in SUBSET Frames /\ pubTasks' \in SUBSET (SUBSET Frames)
      BY <1>12 DEF PublishPoint, TypeOK
    <2> QED
      BY <1>12, <2>1 DEF PublishPoint, TypeOK, DrainInv, AttemptInv, QueueInv, ExitPut
  <1>13. CASE PoolStop
    <2>0. ~ExitPut /\ ~ExitPut' /\ UNCHANGED <<ppc, handled>>
      BY <1>13 DEF PoolStop, ExitPut
    <2>1. /\ QueueInv'
          /\ pending' \in Seq(SUBSET Frames) /\ credits' \in Nat /\ enqueued' \in Nat
      <3>1. CASE rows["pump"] # {} /\ PutRows("pump", "stopped")
        BY <2>0, <3>1, PutRowsQueue
      <3>2. CASE UNCHANGED queueVars
        BY <2>0, <3>2 DEF TypeOK, QueueInv
      <3> QED BY <1>13, <3>1, <3>2 DEF PoolStop, ParsedRows
    <2>2. TypeOK'
      BY <1>13, <2>1 DEF PoolStop, TypeOK, PutRows
    <2>3. DrainInv'
      BY <1>13 DEF PoolStop, ParsedRows, TypeOK, DrainInv, PutRows
    <2>4. AttemptInv'
      BY <1>13 DEF PoolStop, AttemptInv
    <2> QED BY <2>1, <2>2, <2>3, <2>4
  <1>14. CASE PoolStopped
    BY <1>14 DEF PoolStopped, PumpGone, TypeOK, DrainInv, AttemptInv, QueueInv, ExitPut
  <1>15. CASE PutExit
    <2>1. /\ pending \in Seq(SUBSET Frames) /\ Exit \in SUBSET Frames
          /\ pending' = Append(pending, Exit)
      BY <1>15 DEF PutExit, QueueWithExit, TypeOK, Exit
    <2>2. /\ pending' \in Seq(SUBSET Frames)
          /\ pending' # << >>
          /\ Len(pending') = Len(pending) + 1
          /\ \A i \in 1..Len(pending) : pending'[i] = pending[i]
          /\ pending'[Len(pending) + 1] = Exit
      BY <2>1, AppendFacts
    <2>3. ~ExitPut /\ ExitPut' /\ ppc' = ppc /\ ppc # "done"
      BY <1>15 DEF PutExit, ExitPut, QueueInv
    <2>4. TypeOK'
      BY <1>15, <2>2 DEF PutExit, TypeOK
    <2>5. DrainInv'
      BY <1>15 DEF PutExit, TypeOK, DrainInv
    <2>6. AttemptInv'
      BY <1>15 DEF PutExit, AttemptInv
    <2>7. QueueInv'
      <3>1. Len(pending) \in Nat /\ \A i \in 1..Len(pending) : pending'[i] # Exit
        BY <2>1, <2>2, <2>3 DEF QueueInv
      <3>2. /\ enqueued \in Nat /\ handled \in Nat /\ credits \in Nat
            /\ UNCHANGED <<enqueued, handled, credits>>
        BY <1>15 DEF PutExit, TypeOK
      <3>3. \A i \in 1..Len(pending') :
               pending'[i] = Exit => i = Len(pending') /\ ExitPut'
        BY <2>2, <2>3, <3>1
      <3> QED
        BY <2>2, <2>3, <3>1, <3>2, <3>3 DEF QueueInv, Exit
    <2> QED BY <2>4, <2>5, <2>6, <2>7
  <1>16. CASE Flushed
    BY <1>16 DEF Flushed, TypeOK, DrainInv, AttemptInv, QueueInv, ExitPut
  <1>17. CASE FlushTimeout
    <2>1. TypeOK'
      BY <1>17 DEF FlushTimeout, Released, Counted, TypeOK, DrainInv, AttemptInv, QueueInv
    <2>2. DrainInv'
      BY <1>17 DEF FlushTimeout, Released, Counted, TypeOK, DrainInv, QueueInv, ExitPut
    <2>3. AttemptInv'
      BY <1>17 DEF FlushTimeout, Released, Counted, TypeOK, AttemptInv
    <2>4. QueueInv'
      BY <1>17 DEF FlushTimeout, Released, Counted, TypeOK, DrainInv, QueueInv, ExitPut
    <2> QED BY <2>1, <2>2, <2>3, <2>4
  <1>18. CASE CloseSocket
    BY <1>18 DEF CloseSocket, TypeOK, DrainInv, AttemptInv, QueueInv, ExitPut
  <1>19. CASE CloseStore
    BY <1>19 DEF CloseStore, TypeOK, DrainInv, AttemptInv, QueueInv, ExitPut
  <1>20. CASE UNCHANGED vars
    BY <1>20 DEF vars, TypeOK, DrainInv, AttemptInv, QueueInv, ExitPut
  <1> QED
    BY <1>1, <1>2, <1>3, <1>4, <1>5, <1>6, <1>7, <1>8, <1>9, <1>10, <1>11, <1>12, <1>13, <1>14, <1>15, <1>16, <1>17, <1>18, <1>19, <1>20
       DEF Next, Drain, EndRecv, RecvError, Sink, Shutdown, Terminated

(* The inductive invariant holds in every reachable state. *)
LEMMA IInvAlways == Spec => []IInv
  BY IInvInit, IInvStep, PTL DEF Spec

(* Every variable of the pipeline keeps its type: the counters never go      *)
(* negative, a sink call makes at most SINK_MAX_ATTEMPTS attempts, shutdown   *)
(* sweeps at most MaxSweeps times.                                           *)
THEOREM TypeCorrect == Spec => []TypeOK
  BY IInvAlways, PTL DEF IInv

(* drain_inflight's sentinel is behind every batch and a persister that      *)
(* returned at it left nothing outstanding.                                  *)
THEOREM ExitAlwaysBehindAll == Spec => []ExitBehindAll
  <1>1. IInv => ExitBehindAll
    <2> SUFFICES ASSUME IInv PROVE ExitBehindAll
      OBVIOUS
    <2>1. DOMAIN pending = 1..Len(pending)
      BY DEF IInv, TypeOK
    <2>2. \A i \in DOMAIN pending : pending[i] = Exit => i = Len(pending)
      BY <2>1 DEF IInv, QueueInv
    <2>3. ppc = "done" => pending = << >> /\ Outstanding = 0
      BY DEF IInv, QueueInv, TypeOK, Outstanding
    <2> QED BY <2>2, <2>3 DEF ExitBehindAll
  <1> QED BY <1>1, IInvAlways, PTL

(* The batches on the queue are the outstanding ones the persister has not   *)
(* taken: the sentinel, when it is there, is the last element.               *)
LEMMA QueuedCount ==
  ASSUME IInv
  PROVE  Cardinality({i \in DOMAIN pending : pending[i] # Exit})
           = Outstanding - (IF ppc = "dispatch" THEN 1 ELSE 0)
  <1> DEFINE B == {i \in DOMAIN pending : pending[i] # Exit}
             n == Len(pending)
  <1>1. DOMAIN pending = 1..n /\ n \in Nat /\ (pending # << >> => n # 0)
    BY DEF IInv, TypeOK
  <1>2. /\ \A i \in 1..n : pending[i] = Exit => i = n /\ ExitPut
        /\ ExitPut /\ ppc # "done" => pending # << >> /\ pending[n] = Exit
        /\ ppc = "done" => n = 0
        /\ n + (IF ppc = "dispatch" THEN 1 ELSE 0)
             = Outstanding + (IF ExitPut /\ ppc # "done" THEN 1 ELSE 0)
        /\ Outstanding \in Int
    BY DEF IInv, QueueInv, TypeOK, Outstanding
  <1> HIDE DEF n
  <1>3. CASE ExitPut /\ ppc # "done"
    <2>1. n >= 1 /\ B = 1..(n - 1)
      BY <1>1, <1>2, <1>3
    <2>2. Cardinality(1..(n - 1)) = n - 1
      BY <1>1, <2>1, FS_Interval
    <2> HIDE DEF B
    <2>3. Cardinality(B) = n - 1
      BY <2>1, <2>2
    <2>4. Cardinality(B) = Outstanding - (IF ppc = "dispatch" THEN 1 ELSE 0)
      BY <1>1, <1>2, <1>3, <2>3
    <2> QED BY <2>4 DEF B
  <1>4. CASE ~(ExitPut /\ ppc # "done")
    <2>1. B = 1..n
      BY <1>1, <1>2, <1>4
    <2>2. Cardinality(1..n) = n
      BY <1>1, FS_Interval
    <2> HIDE DEF B
    <2>3. Cardinality(B) = n
      BY <2>1, <2>2
    <2>4. Cardinality(B) = Outstanding - (IF ppc = "dispatch" THEN 1 ELSE 0)
      BY <1>1, <1>2, <1>4, <2>3
    <2> QED BY <2>4 DEF B
  <1> QED BY <1>3, <1>4

(* Free credits and outstanding batches always add up to pending_max, and no *)
(* more than pending_max batches are queued or in the sink.                  *)
THEOREM CreditsAlwaysConserved == Spec => []CreditsConserved
  <1>1. IInv => CreditsConserved
    <2> SUFFICES ASSUME IInv PROVE CreditsConserved
      OBVIOUS
    <2>1. credits + Outstanding = PendingMax /\ Outstanding \in Int /\ credits \in Nat
      BY DEF IInv, QueueInv, TypeOK, Outstanding
    <2> QED
      BY <2>1, QueuedCount DEF CreditsConserved, IInv
  <1> QED BY <1>1, IInvAlways, PTL

(* While the persister runs, shutdown has not passed the flush: the sink of  *)
(* the batch in _dispatch finds its store, and its return means the rows are *)
(* settled.                                                                  *)
DispatchInv ==
    /\ ppc \in {"get", "dispatch"} => mpc \notin {"close", "gather", "closed"}
    /\ ppc = "dispatch" /\ spc = "returned" => batch \subseteq stored \cup dropped

PubInv == DispatchInv /\ PublishedUnlessDropped

(* Each step preserves the publishing invariant. *)
LEMMA PubInvStep == PubInv /\ [Next]_vars => PubInv'
  <1> SUFFICES ASSUME PubInv, [Next]_vars PROVE PubInv'
    OBVIOUS
  <1> USE DEF PubInv, DispatchInv, PublishedUnlessDropped, Announced, sockVars, drainVars,
              queueVars, persistVars, sinkVars, pubVars, mainVars
  <1>1. ASSUME NEW d \in Drainers, Drain(d) PROVE PubInv'
    BY <1>1 DEF Drain, DrainStart, Recv, EndRecv, RecvError, LoopOver, Acquired,
                PutRows, AfterSweep
  <1>2. CASE Get
    BY <1>2 DEF Get
  <1>3. CASE Sink
    BY <1>3 DEF Sink, SinkBegin, SinkCommit, SinkTransient, SinkFatal, DropBatch
  <1>4. CASE Dispatched
    BY <1>4 DEF Dispatched, SinkReturned
  <1>5. CASE PublishPoint
    BY <1>5 DEF PublishPoint
  <1>6. CASE Shutdown
    BY <1>6 DEF Shutdown, PoolStop, PoolStopped, PutExit, Flushed, FlushTimeout,
                CloseSocket, CloseStore, PutRows
  <1>7. CASE Send \/ UNCHANGED vars
    BY <1>7 DEF Send, vars
  <1> QED
    BY <1>1, <1>2, <1>3, <1>4, <1>5, <1>6, <1>7 DEF Next, Terminated

(* No point is published, or even handed to a publish task, before the sink  *)
(* has committed its batch, or has given it up and counted it.               *)
THEOREM AlwaysPublishedUnlessDropped == Spec => []PublishedUnlessDropped
  <1>1. Init => PubInv
    BY DEF Init, PubInv, DispatchInv, PublishedUnlessDropped, Announced
  <1>2. PubInv => PublishedUnlessDropped
    BY DEF PubInv
  <1> QED
    BY <1>1, <1>2, PubInvStep, PTL DEF Spec

-----------------------------------------------------------------------------
(* Where drain_many callers, the persister and the sink's thread stand with   *)
(* respect to each other.                                                    *)
FlowInv ==
    /\ \A d \in Drainers : dpc[d] \in {"idle", "stopped"} => rows[d] = {}
    /\ ppc \in {"get", "done"} => spc = "off"
    /\ ppc = "dispatch" => spc # "off"
    /\ spc # "off" => batch # {}
    /\ ppc = "cancelled" => mpc \in {"close", "gather", "closed"}
    /\ mpc = "up" => cut = {}

(* A batch has at most one row for each frame received. *)
BatchInv ==
    /\ \A d \in Drainers : Cardinality(rows[d]) <= got[d]
    /\ Cardinality(cut) <= DrainBatch

(* Frames move in arrival order: what is in the sink is older than what is   *)
(* queued, each queued batch older than the next, the queue older than the    *)
(* rows being parsed, and everything accepted older than the socket's frames. *)
OrderInv ==
    /\ \A f \in accepted : f <= sent
    /\ \A i \in 1..Len(sock) : sock[i] <= sent
    /\ \A i \in 1..Len(sock) : \A f \in accepted : f < sock[i]
    /\ \A i, j \in 1..Len(sock) : i < j => sock[i] < sock[j]
    /\ \A i, j \in 1..Len(pending) : i < j => \A f \in pending[i], g \in pending[j] : f < g
    /\ \A i \in 1..Len(pending) : \A f \in pending[i], g \in InRows : f < g
    /\ \A f \in InSink : \A i \in 1..Len(pending) : \A g \in pending[i] : f < g
    /\ \A f \in InSink, g \in InRows : f < g

(* A set of frames is finite and one more frame adds at most one. *)
LEMMA FrameCount ==
  ASSUME NEW S \in SUBSET Frames
  PROVE  /\ Cardinality(S) \in Nat
         /\ \A f \in Frames : Cardinality(S \cup {f}) <= Cardinality(S) + 1
  <1>1. IsFiniteSet(Frames)
    BY FS_Interval DEF Frames
  <1>2. IsFiniteSet(S)
    BY <1>1, FS_Subset
  <1>3. Cardinality(S) \in Nat
    BY <1>2, FS_CardinalityType
  <1>4. \A f : Cardinality(S \cup {f}) = IF f \in S THEN Cardinality(S) ELSE Cardinality(S) + 1
    BY <1>2, FS_AddElement
  <1> QED BY <1>3, <1>4

(* Each step preserves FlowInv. *)
LEMMA FlowInvStep == IInv /\ DispatchInv /\ FlowInv /\ [Next]_vars => FlowInv'
  <1> SUFFICES ASSUME IInv, DispatchInv, FlowInv, [Next]_vars PROVE FlowInv'
    OBVIOUS
  <1> USE DEF IInv, TypeOK, FlowInv, Drainers, sockVars, drainVars, queueVars,
              persistVars, sinkVars, pubVars, mainVars
  <1>1. CASE Send \/ PublishPoint \/ UNCHANGED vars
    BY <1>1 DEF Send, PublishPoint, vars
  <1>2. ASSUME NEW d \in Drainers, DrainStart(d) \/ Recv(d) PROVE FlowInv'
    BY <1>2 DEF DrainStart, Recv
  <1>3. ASSUME NEW d \in Drainers, LoopOver(d) PROVE FlowInv'
    BY <1>3 DEF LoopOver, PutRows, AfterSweep, DrainInv
  <1>4. ASSUME NEW d \in Drainers, Acquired(d) PROVE FlowInv'
    BY <1>4 DEF Acquired, PutRows, AfterSweep, DrainInv
  <1>5. CASE Get
    BY <1>5 DEF Get, Exit
  <1>6. CASE Sink
    BY <1>6 DEF Sink, SinkBegin, SinkCommit, SinkTransient, SinkFatal
  <1>7. CASE Dispatched
    BY <1>7 DEF Dispatched
  <1>8. CASE PoolStop
    BY <1>8 DEF PoolStop, PutRows, ParsedRows, DrainInv
  <1>9. CASE PoolStopped \/ PutExit \/ Flushed \/ FlushTimeout \/ CloseSocket \/ CloseStore
    BY <1>9 DEF PoolStopped, PutExit, Flushed, FlushTimeout, CloseSocket, CloseStore,
                DispatchInv
  <1> QED
    BY <1>1, <1>2, <1>3, <1>4, <1>5, <1>6, <1>7, <1>8, <1>9
       DEF Next, Drain, EndRecv, RecvError, Shutdown, Terminated

(* What a step does to the rows of a drain_many call, and to cut. *)
LEMMA RowsStep ==
  ASSUME IInv, FlowInv, [Next]_vars, NEW d \in Drainers
  PROVE  /\ \/ rows'[d] = {}
            \/ rows'[d] = rows[d] /\ got'[d] = got[d]
            \/ got'[d] = got[d] + 1 /\ sock # << >> /\ rows'[d] \in {rows[d], rows[d] \cup {Head(sock)}}
         /\ cut' = cut \/ cut' = rows["pump"]
  <1> USE DEF IInv, TypeOK, FlowInv, Drainers, sockVars, drainVars, queueVars,
              persistVars, sinkVars, pubVars, mainVars
  <1>1. ASSUME NEW e \in Drainers, Drain(e)
        PROVE  /\ \/ rows'[d] = {}
                  \/ rows'[d] = rows[d] /\ got'[d] = got[d]
                  \/ got'[d] = got[d] + 1 /\ sock # << >> /\ rows'[d] \in {rows[d], rows[d] \cup {Head(sock)}}
               /\ cut' = cut
    BY <1>1 DEF Drain, DrainStart, Recv, EndRecv, RecvError, LoopOver, Acquired, PutRows
  <1>2. CASE PoolStop
    BY <1>2 DEF PoolStop, PutRows
  <1>3. CASE UNCHANGED <<rows, got, cut>>
    BY <1>3
  <1> QED
    BY <1>1, <1>2, <1>3 DEF Next, Send, Get, Sink, SinkBegin, SinkCommit, SinkTransient,
       SinkFatal, Dispatched, PublishPoint, Shutdown, PoolStopped, PutExit, Flushed,
       FlushTimeout, CloseSocket, CloseStore, Terminated, vars

(* Each step preserves BatchInv. *)
LEMMA BatchInvStep == IInv /\ FlowInv /\ BatchInv /\ [Next]_vars => BatchInv' 
  <1> SUFFICES ASSUME IInv, FlowInv, BatchInv, [Next]_vars PROVE BatchInv'
    OBVIOUS
  <1>1. /\ rows \in [Drainers -> SUBSET Frames] /\ got \in [Drainers -> 0..DrainBatch]
        /\ got' \in [Drainers -> 0..DrainBatch] /\ sock \in Seq(Frames)
        /\ "pump" \in Drainers
    BY IInvStep DEF IInv, TypeOK, Drainers
  <1>2. ASSUME NEW d \in Drainers PROVE Cardinality(rows'[d]) <= got'[d]
    <2>1. CASE rows'[d] = {}
      BY <1>1, <2>1, FS_EmptySet
    <2>2. CASE rows'[d] = rows[d] /\ got'[d] = got[d]
      BY <2>2 DEF BatchInv
    <2>3. CASE got'[d] = got[d] + 1 /\ sock # << >>
               /\ rows'[d] \in {rows[d], rows[d] \cup {Head(sock)}}
      <3>1. Head(sock) \in Frames /\ rows[d] \in SUBSET Frames
        BY <1>1, <2>3, TailFacts
      <3>2. /\ Cardinality(rows[d]) \in Nat
            /\ Cardinality(rows[d] \cup {Head(sock)}) <= Cardinality(rows[d]) + 1
        BY <3>1, FrameCount
      <3>3. CASE rows'[d] = rows[d]
        BY <1>1, <2>3, <3>2, <3>3 DEF BatchInv
      <3>4. CASE rows'[d] = rows[d] \cup {Head(sock)}
        <4>1. Cardinality(rows'[d]) <= Cardinality(rows[d]) + 1
          BY <3>2, <3>4
        <4>2. Cardinality(rows'[d]) \in Nat
          BY <3>1, <3>4, FrameCount, (rows[d] \cup {Head(sock)}) \in SUBSET Frames
        <4> HIDE <3>4
        <4> QED BY <1>1, <2>3, <3>2, <4>1, <4>2 DEF BatchInv
      <3> QED BY <2>3, <3>3, <3>4
    <2> QED BY <2>1, <2>2, <2>3, RowsStep
  <1>3. Cardinality(cut') <= DrainBatch
    <2>1. CASE cut' = cut
      BY <2>1 DEF BatchInv
    <2>2. CASE cut' = rows["pump"]
      <3>1. Cardinality(rows["pump"]) <= got["pump"] /\ got["pump"] <= DrainBatch
        BY <1>1 DEF BatchInv
      <3>2. Cardinality(rows["pump"]) \in Nat
        BY <1>1, FrameCount
      <3> QED BY <1>1, <2>2, <3>1, <3>2
    <2> QED BY <1>1, <2>1, <2>2, RowsStep
  <1> QED BY <1>2, <1>3 DEF BatchInv

(* The frames on the queue, as the batches that hold them. *)
LEMMA UnionOfQueue ==
  ASSUME NEW S, NEW s \in Seq(S)
  PROVE  \A f : f \in UNION {s[i] : i \in DOMAIN s} <=> \E i \in 1..Len(s) : f \in s[i]
  OBVIOUS

(* A batch put on the queue: its rows move there, behind all others. *)
LEMMA PutRowsOrder ==
  ASSUME IInv, FlowInv, OrderInv, NEW d \in Drainers, NEW next, PutRows(d, next),
         dpc[d] \notin {"idle", "stopped"},
         TypeOK', UNCHANGED <<accepted, sent, sock, spc, batch>>
  PROVE  /\ OrderInv'
         /\ Open' = Open
  <1>1. /\ rows[d] \in SUBSET Frames /\ pending \in Seq(SUBSET Frames)
        /\ pending' = Append(pending, rows[d])
    BY DEF IInv, TypeOK, PutRows
  <1>2. /\ Len(pending') = Len(pending) + 1 /\ Len(pending) \in Nat
        /\ \A i \in 1..Len(pending) : pending'[i] = pending[i]
        /\ pending'[Len(pending) + 1] = rows[d]
    BY <1>1, AppendFacts
  <1>3. InRows' = {} /\ InRows = rows[d] /\ InSink' = InSink
    <2>1. \A e \in Drainers : e # d => rows[e] = {}
      BY DEF IInv, TypeOK, DrainInv, FlowInv, Drainers
    <2> QED
      BY <2>1 DEF PutRows, InRows, InSink, IInv, TypeOK, Drainers
  <1>4. \A f : f \in InQueue' <=> f \in InQueue \/ f \in rows[d]
    <2>1. /\ \A f : f \in InQueue <=> \E i \in 1..Len(pending) : f \in pending[i]
          /\ \A f : f \in InQueue' <=> \E i \in 1..Len(pending') : f \in pending'[i]
      BY UnionOfQueue DEF IInv, TypeOK, InQueue
    <2> QED BY <1>2, <2>1
  <1>5. OrderInv'
    BY <1>2, <1>3 DEF OrderInv
  <1>6. Open' = Open
    BY <1>3, <1>4 DEF Open
  <1> QED BY <1>5, <1>6

(* The head of the queue goes to the sink. *)
LEMMA GetOrder ==
  ASSUME IInv, FlowInv, OrderInv, Get, TypeOK'
  PROVE  OrderInv' /\ Open' = Open
  <1>1. /\ pending \in Seq(SUBSET Frames) /\ pending # << >> /\ pending' = Tail(pending)
        /\ spc = "off"
    BY DEF Get, IInv, TypeOK, FlowInv
  <1>2. /\ Head(pending) = pending[1] /\ Len(pending) \in Nat \ {0}
        /\ Len(pending') = Len(pending) - 1
        /\ \A i \in 1..Len(pending') : pending'[i] = pending[i + 1]
    BY <1>1, TailFacts
  <1>3. InRows' = InRows /\ InSink = {} /\ InSink' = Head(pending)
    <2>1. InRows' = InRows
      BY DEF Get, drainVars, InRows
    <2>2. CASE Head(pending) = Exit
      BY <1>1, <2>1, <2>2 DEF Get, InSink, Exit
    <2>3. CASE Head(pending) # Exit
      BY <1>1, <2>1, <2>3 DEF Get, InSink
    <2> QED BY <2>2, <2>3
  <1>4. \A f : f \in InQueue <=> f \in InQueue' \/ f \in Head(pending)
    <2>1. /\ \A f : f \in InQueue <=> \E i \in 1..Len(pending) : f \in pending[i]
          /\ \A f : f \in InQueue' <=> \E i \in 1..Len(pending') : f \in pending'[i]
      BY UnionOfQueue DEF IInv, TypeOK, InQueue
    <2>2. ASSUME NEW f, f \in InQueue PROVE f \in InQueue' \/ f \in Head(pending)
      <3>1. PICK i \in 1..Len(pending) : f \in pending[i]
        BY <2>1, <2>2
      <3>2. CASE i = 1
        BY <1>2, <3>1, <3>2
      <3>3. CASE i # 1
        <4>1. i - 1 \in 1..Len(pending') /\ (i - 1) + 1 = i
          BY <1>2, <3>1, <3>3
        <4>2. pending'[i - 1] = pending[i]
          BY <1>2, <4>1
        <4> QED BY <2>1, <3>1, <4>1, <4>2
      <3> QED BY <3>2, <3>3
    <2>3. ASSUME NEW f, f \in InQueue' \/ f \in Head(pending) PROVE f \in InQueue
      BY <1>2, <2>1, <2>3
    <2> QED BY <2>2, <2>3
  <1>5. OrderInv'
    BY <1>2, <1>3 DEF OrderInv, Get, sockVars
  <1>6. Open' = Open
    BY <1>3, <1>4 DEF Open
  <1> QED BY <1>5, <1>6

(* Rows are where they can be only once they have been accepted. *)
OpenAccepted == Open \subseteq accepted

RefInv == IInv /\ DispatchInv /\ FlowInv /\ OrderInv /\ OpenAccepted

(* What a step does to the open rows, in the ledger's terms: it accepts the  *)
(* next frame, settles the persister's batch, gives up the rows of a         *)
(* cancelled _enqueue or the batch of an abandoned sink, or moves rows.      *)
OpenStep ==
    \/ \E f \in Frames : Ledger!Accept(f) /\ UNCHANGED cut
    \/ batch \subseteq Open /\ (Ledger!Commit(batch) \/ Ledger!Drop(batch)) /\ UNCHANGED cut
    \/ cut' \subseteq Open /\ Ledger!Stop(cut') /\ mpc = "up"
    \/ batch \subseteq Open /\ Ledger!Stop(batch) /\ ppc' = "cancelled" /\ UNCHANGED cut
    \/ UNCHANGED <<accepted, Open, stored, dropped, mpc # "up", cut>>

(* The batch in the sink is the oldest of what is open. *)
LEMMA SinkOldest ==
  ASSUME RefInv, spc \in {"waiting", "running"}
  PROVE  /\ batch \subseteq Open /\ batch # {}
         /\ Ledger!Oldest(batch)
         /\ batch \cap (InRows \cup InQueue) = {}
  <1>1. InSink = batch /\ batch # {} /\ batch \subseteq Frames /\ InRows \subseteq Frames
    BY DEF InSink, InRows, RefInv, IInv, FlowInv, TypeOK, Drainers
  <1>2. \A f \in batch, g \in InRows : f < g
    BY <1>1 DEF RefInv, OrderInv
  <1>3. \A f \in batch, g \in InQueue : f < g /\ g \in Frames
    <2>1. pending \in Seq(SUBSET Frames)
      BY DEF RefInv, IInv, TypeOK
    <2>2. \A g : g \in InQueue => \E i \in 1..Len(pending) : g \in pending[i]
      BY <2>1, UnionOfQueue DEF InQueue
    <2> QED BY <1>1, <2>1, <2>2 DEF RefInv, OrderInv
  <1>4. \A f \in Frames : f \in Nat /\ ~(f < f)
    BY DEF Frames
  <1>5. batch \cap (InRows \cup InQueue) = {}
    BY <1>1, <1>2, <1>3, <1>4
  <1>6. batch \subseteq Open
    BY <1>1 DEF Open
  <1>7. Ledger!Oldest(batch)
    BY <1>1, <1>2, <1>3 DEF Ledger!Oldest, Open
  <1> QED BY <1>1, <1>5, <1>6, <1>7

(* Each step preserves the order, and is one of the ledger's on the open rows. *)
LEMMA RefInvStep ==
  ASSUME RefInv, [Next]_vars
  PROVE  OrderInv' /\ OpenAccepted' /\ OpenStep
  <1> DEFINE Goal == OrderInv' /\ OpenAccepted' /\ OpenStep
  <1>0. TypeOK /\ TypeOK' /\ FlowInv'
    BY IInvStep, FlowInvStep DEF RefInv, IInv
  <1> USE DEF RefInv, sockVars, drainVars, queueVars, persistVars, sinkVars,
              pubVars, mainVars
  <1>a. ASSUME UNCHANGED <<sent, sock, rows, pending, batch, accepted>>,
               UNCHANGED <<stored, dropped, mpc # "up", cut>>,
               InSink' = InSink
        PROVE  Goal
    BY <1>a DEF OrderInv, InRows, Open, OpenAccepted, OpenStep, InQueue
  <1>b. ASSUME OrderInv', Open' = Open,
               UNCHANGED <<accepted, stored, dropped, mpc # "up", cut>>
        PROVE  Goal
    BY <1>b DEF OpenAccepted, OpenStep
  <1>c. ASSUME UNCHANGED <<sent, sock, rows, pending, batch, accepted, cut>>,
               spc \in {"waiting", "running"}, spc' = "returned"
        PROVE  /\ OrderInv' /\ OpenAccepted'
               /\ Open' = Open \ batch /\ batch \subseteq Open /\ Ledger!Oldest(batch)
    <2>1. /\ InRows' = InRows /\ InQueue' = InQueue /\ InSink' = {} /\ InSink = batch
      BY <1>c DEF InRows, InQueue, InSink
    <2>2. /\ batch \subseteq Open /\ Ledger!Oldest(batch)
          /\ batch \cap (InRows \cup InQueue) = {}
      BY <1>c, SinkOldest
    <2>3. OrderInv'
      BY <1>c, <2>1 DEF OrderInv
    <2>4. Open' = Open \ batch
      BY <2>1, <2>2 DEF Open
    <2> QED BY <1>c, <2>2, <2>3, <2>4 DEF OpenAccepted
  <1>1. CASE Send
    <2>1. /\ sock \in Seq(Frames) /\ sent \in 0..MaxFrames /\ sent + 1 \in Frames
          /\ sock' = Append(sock, sent + 1) /\ sent' = sent + 1
      BY <1>0, <1>1 DEF Send, TypeOK, Frames
    <2>2. /\ Len(sock') = Len(sock) + 1 /\ Len(sock) \in Nat
          /\ \A i \in 1..Len(sock) : sock'[i] = sock[i] /\ sock[i] \in Frames
          /\ sock'[Len(sock) + 1] = sent + 1
      BY <2>1, AppendFacts
    <2>3. /\ UNCHANGED <<rows, pending, batch, spc, accepted, stored, dropped, mpc, cut>>
          /\ InRows' = InRows /\ InQueue' = InQueue /\ InSink' = InSink
      BY <1>1 DEF Send, InRows, InQueue, InSink
    <2>4. accepted \subseteq Frames
      BY <1>0 DEF TypeOK
    <2>5. OrderInv'
      BY <2>1, <2>2, <2>3, <2>4 DEF OrderInv, Frames
    <2> QED BY <2>3, <2>5 DEF Open, OpenAccepted, OpenStep
  <1>2. ASSUME NEW d \in Drainers, DrainStart(d) PROVE Goal
    <2>1. InSink' = InSink /\ mpc' = mpc
      BY <1>2 DEF DrainStart, InSink
    <2> QED BY <1>2, <2>1, <1>a DEF DrainStart
  <1>3. ASSUME NEW d \in Drainers, Recv(d) PROVE Goal
    <2>1. /\ sock \in Seq(Frames) /\ sock # << >> /\ sock' = Tail(sock)
      BY <1>0, <1>3 DEF Recv, TypeOK
    <2>2. /\ Head(sock) = sock[1] /\ Len(sock) \in Nat \ {0} /\ Head(sock) \in Frames
          /\ Len(sock') = Len(sock) - 1
          /\ \A i \in 1..Len(sock') : sock'[i] = sock[i + 1] /\ sock'[i] \in Frames
      BY <2>1, TailFacts
    <2>3. UNCHANGED <<sent, pending, batch, spc, stored, dropped, mpc, cut>>
          /\ InQueue' = InQueue /\ InSink' = InSink
      BY <1>3 DEF Recv, InQueue, InSink
    <2>4. \/ UNCHANGED accepted /\ InRows' = InRows
          \/ accepted' = accepted \cup {Head(sock)} /\ InRows' = InRows \cup {Head(sock)}
      BY <1>0, <1>3 DEF Recv, InRows, TypeOK, Drainers
    <2>5. \A f \in accepted : f < Head(sock) /\ f \in Frames
      <3>1. accepted \subseteq Frames
        BY <1>0 DEF TypeOK
      <3>2. 1 \in 1..Len(sock)
        BY <2>2
      <3>3. \A f \in accepted : f < sock[1]
        BY <3>2 DEF OrderInv
      <3> QED  BY <2>2, <3>1, <3>3
    <2>6. \A f \in Open : f \in accepted
      BY DEF OpenAccepted
    <2>7. OrderInv'
      <3>0. 1 \in 1..Len(sock) /\ \A i \in 1..Len(sock') : i + 1 \in 1..Len(sock)
        BY <2>2
      <3>1. /\ \A f \in accepted' : f <= sent'
            /\ \A i \in 1..Len(sock') : sock'[i] <= sent'
            /\ \A i, j \in 1..Len(sock') : i < j => sock'[i] < sock'[j]
        <4>1. \A f \in accepted' : f <= sent'
          BY <2>2, <2>3, <2>4, <3>0 DEF OrderInv
        <4>2. \A i \in 1..Len(sock') : sock'[i] <= sent'
          BY <2>2, <2>3, <3>0 DEF OrderInv
        <4>3. \A i, j \in 1..Len(sock') : i < j => sock'[i] < sock'[j]
          BY <2>2, <3>0 DEF OrderInv
        <4> QED  BY <4>1, <4>2, <4>3
      <3>2. \A i \in 1..Len(sock') : Head(sock) < sock'[i]
        BY <2>2 DEF OrderInv
      <3>3. \A i \in 1..Len(sock') : \A f \in accepted' : f < sock'[i]
        BY <2>2, <2>4, <3>2 DEF OrderInv
      <3>4. \A f \in InSink : f \in accepted
        BY <2>6 DEF Open
      <3>5. \A i \in 1..Len(pending) : \A f \in pending[i] : f \in accepted
        <4>1. pending \in Seq(SUBSET Frames)
          BY <1>0 DEF TypeOK
        <4>2. \A i \in 1..Len(pending) : \A f \in pending[i] : f \in InQueue
          BY <4>1, UnionOfQueue DEF InQueue
        <4> QED  BY <2>6, <4>2 DEF Open
      <3>6. \A i \in 1..Len(pending') : \A f \in pending'[i], g \in InRows' : f < g
        BY <2>3, <2>4, <2>5, <3>5 DEF OrderInv
      <3>7. \A f \in InSink', g \in InRows' : f < g
        BY <2>3, <2>4, <2>5, <3>4 DEF OrderInv
      <3> QED BY <2>3, <3>1, <3>3, <3>6, <3>7 DEF OrderInv
    <2>8. OpenAccepted'
      BY <2>3, <2>4 DEF OpenAccepted, Open
    <2>9. OpenStep
      <3>1. CASE UNCHANGED accepted /\ InRows' = InRows
        BY <2>3, <3>1 DEF OpenStep, Open
      <3>2. CASE accepted' = accepted \cup {Head(sock)} /\ InRows' = InRows \cup {Head(sock)}
        <4>1. Open' = Open \cup {Head(sock)}
          BY <2>3, <3>2 DEF Open
        <4>2. Ledger!Accept(Head(sock))
          BY <2>3, <2>5, <3>2, <4>1 DEF Ledger!Accept
        <4> QED BY <2>2, <2>3, <4>2 DEF OpenStep
      <3> QED BY <2>4, <3>1, <3>2
    <2> QED BY <2>7, <2>8, <2>9
  <1>4. ASSUME NEW d \in Drainers, LoopOver(d) PROVE Goal
    <2>1. /\ dpc[d] \notin {"idle", "stopped"}
          /\ UNCHANGED <<sent, sock, accepted, spc, batch, stored, dropped, mpc # "up", cut>>
      BY <1>0, <1>4 DEF LoopOver, AfterSweep, IInv, DrainInv, Drainers
    <2>2. CASE PutRows(d, "idle")
      BY <1>0, <1>b, <2>1, <2>2, PutRowsOrder
    <2>3. CASE UNCHANGED <<rows, queueVars>>
      BY <1>a, <2>1, <2>3 DEF InSink
    <2> QED BY <1>4, <2>2, <2>3 DEF LoopOver
  <1>5. ASSUME NEW d \in Drainers, Acquired(d) PROVE Goal
    <2>1. /\ dpc[d] \notin {"idle", "stopped"}
          /\ UNCHANGED <<sent, sock, accepted, spc, batch, stored, dropped, mpc # "up", cut>>
          /\ PutRows(d, IF dpc[d] = "cancelled" THEN "stopped" ELSE "idle")
      BY <1>0, <1>5 DEF Acquired, AfterSweep, IInv, DrainInv, Drainers
    <2> QED BY <1>0, <1>b, <2>1, PutRowsOrder
  <1>6. CASE Get
    BY <1>0, <1>6, <1>b, GetOrder DEF Get
  <1>7. CASE SinkBegin
    <2>0. UNCHANGED <<sent, sock, rows, pending, batch, accepted, stored, cut, mpc, ppc>>
      BY <1>7 DEF SinkBegin
    <2>1. CASE mpc # "closed"
      <3>1. InSink' = InSink /\ UNCHANGED dropped
        BY <1>7, <2>1, <2>0 DEF SinkBegin, InSink
      <3> QED BY <1>a, <2>0, <3>1
    <2>2. CASE mpc = "closed"
      <3>1. /\ spc = "waiting" /\ spc' = "returned"
            /\ dropped' = IF attempt = 0 THEN dropped ELSE dropped \cup batch
        BY <1>7, <2>2 DEF SinkBegin, DropBatch
      <3>2. /\ OrderInv' /\ OpenAccepted'
            /\ Open' = Open \ batch /\ batch \subseteq Open /\ Ledger!Oldest(batch)
        BY <1>c, <2>0, <3>1
      <3>3. ppc' = "cancelled"
        BY <1>0, <2>0, <2>2, <3>1 DEF DispatchInv, FlowInv, TypeOK
      <3>4. Ledger!Drop(batch) \/ Ledger!Stop(batch)
        BY <2>0, <2>2, <3>1, <3>2 DEF Ledger!Drop, Ledger!Stop
      <3> QED BY <2>0, <3>2, <3>3, <3>4 DEF OpenStep
    <2> QED BY <2>1, <2>2
  <1>8. CASE SinkCommit
    <2>1. /\ UNCHANGED <<sent, sock, rows, pending, batch, accepted, dropped, cut, mpc>>
          /\ spc = "running" /\ spc' = "returned" /\ stored' = stored \cup batch
      BY <1>8 DEF SinkCommit
    <2>2. /\ OrderInv' /\ OpenAccepted'
          /\ Open' = Open \ batch /\ batch \subseteq Open /\ Ledger!Oldest(batch)
      BY <1>c, <2>1
    <2>3. Ledger!Commit(batch)
      BY <2>1, <2>2 DEF Ledger!Commit
    <2> QED BY <2>1, <2>2, <2>3 DEF OpenStep
  <1>9. CASE SinkTransient \/ SinkFatal
    <2>1. /\ UNCHANGED <<sent, sock, rows, pending, batch, accepted, stored, cut, mpc>>
          /\ spc = "running"
          /\ \/ spc' = "returned" /\ dropped' = dropped \cup batch
             \/ spc' = "waiting" /\ UNCHANGED dropped
      BY <1>9 DEF SinkTransient, SinkFatal, DropBatch
    <2>2. CASE spc' = "waiting" /\ UNCHANGED dropped
      <3>1. InSink' = InSink
        BY <2>1, <2>2 DEF InSink
      <3> QED BY <1>a, <2>1, <2>2, <3>1
    <2>3. CASE spc' = "returned" /\ dropped' = dropped \cup batch
      <3>1. /\ OrderInv' /\ OpenAccepted'
            /\ Open' = Open \ batch /\ batch \subseteq Open /\ Ledger!Oldest(batch)
        BY <1>c, <2>1, <2>3
      <3>2. Ledger!Drop(batch)
        BY <2>1, <2>3, <3>1 DEF Ledger!Drop
      <3> QED BY <2>1, <3>1, <3>2 DEF OpenStep
    <2> QED BY <2>1, <2>2, <2>3
  <1>10. CASE Dispatched \/ PublishPoint \/ PoolStopped \/ Flushed \/ FlushTimeout \/ CloseStore
    <2>1. /\ UNCHANGED <<sent, sock, rows, pending, batch, accepted, stored, dropped, cut>>
          /\ (mpc # "up") = (mpc' # "up") /\ InSink' = InSink
      BY <1>10 DEF Dispatched, SinkReturned, PublishPoint, PoolStopped, Flushed, FlushTimeout,
                   CloseStore, InSink
    <2> QED BY <1>a, <2>1
  <1>11. CASE PoolStop
    <2>1. /\ mpc = "up" /\ mpc' = "poolstop" /\ cut = {}
          /\ UNCHANGED <<sent, sock, accepted, spc, batch, stored, dropped>>
      BY <1>11 DEF PoolStop, FlowInv
    <2>2. CASE UNCHANGED <<queueVars, cut>> /\ InRows' = InRows
      <3>1. OrderInv' /\ Open' = Open
        BY <2>1, <2>2 DEF OrderInv, Open, InQueue, InSink
      <3> QED BY <2>1, <2>2, <3>1 DEF OpenAccepted, OpenStep, Ledger!Stop
    <2>3. CASE ParsedRows # {} /\ PutRows("pump", "stopped") /\ UNCHANGED cut
      <3>1. "pump" \in Drainers /\ dpc["pump"] \notin {"idle", "stopped"}
        BY <2>3 DEF ParsedRows, Drainers
      <3>2. OrderInv' /\ Open' = Open
        BY <1>0, <2>1, <2>3, <3>1, PutRowsOrder
      <3> QED BY <2>1, <2>3, <3>2 DEF OpenAccepted, OpenStep, Ledger!Stop
    <2>4. CASE /\ dpc["pump"] = "acquire" /\ UNCHANGED queueVars
               /\ rows' = [rows EXCEPT !["pump"] = {}] /\ cut' = rows["pump"]
      <3>1. rows["main"] = {} /\ rows \in [Drainers -> SUBSET Frames]
        BY <1>0, <2>1 DEF IInv, TypeOK, DrainInv, FlowInv, Drainers
      <3>2. InRows = cut' /\ InRows' = {} /\ InQueue' = InQueue /\ InSink' = InSink
        BY <2>1, <2>4, <3>1 DEF InRows, InQueue, InSink, Drainers
      <3>3. OrderInv'
        BY <2>1, <2>4, <3>2 DEF OrderInv
      <3>4. InRows \cap (InQueue \cup InSink) = {}
        <4>1. pending \in Seq(SUBSET Frames) /\ InSink \subseteq Frames
          BY <1>0 DEF TypeOK, InSink
        <4>2. \A g : g \in InQueue => \E i \in 1..Len(pending) : g \in pending[i]
          BY <4>1, UnionOfQueue DEF InQueue
        <4>3. \A g \in InQueue \cup InSink : g \in Frames /\ \A f \in InRows : g < f
          BY <4>1, <4>2 DEF OrderInv
        <4>4. \A f \in Frames : ~(f < f)
          BY DEF Frames
        <4> QED BY <4>3, <4>4
      <3>5. Open' = Open \ cut' /\ cut' \subseteq Open
        BY <3>2, <3>4 DEF Open
      <3> QED BY <2>1, <3>3, <3>5 DEF OpenAccepted, OpenStep, Ledger!Stop
    <2> QED
      <3>1. ASSUME \/ dpc["pump"] \in {"idle", "recv"} /\ ParsedRows = {}
                      /\ rows' = [rows EXCEPT !["pump"] = {}]
                   \/ UNCHANGED rows
            PROVE  InRows' = InRows
        BY <1>0, <3>1 DEF InRows, ParsedRows, FlowInv, TypeOK, Drainers
      <3> QED BY <1>11, <2>2, <2>3, <2>4, <3>1 DEF PoolStop
  <1>12. CASE PutExit
    <2>1. /\ pending \in Seq(SUBSET Frames) /\ Exit \in SUBSET Frames
          /\ pending' = Append(pending, Exit)
          /\ UNCHANGED <<sent, sock, rows, batch, spc, accepted, stored, dropped, cut>>
          /\ (mpc # "up") = (mpc' # "up")
      BY <1>0, <1>12 DEF PutExit, QueueWithExit, TypeOK, Exit
    <2>2. /\ Len(pending') = Len(pending) + 1 /\ Len(pending) \in Nat
          /\ \A i \in 1..Len(pending) : pending'[i] = pending[i]
          /\ pending'[Len(pending) + 1] = Exit
      BY <2>1, AppendFacts
    <2>3. InRows' = InRows /\ InSink' = InSink
      BY <2>1 DEF InRows, InSink
    <2>4. \A i \in 1..Len(pending') : \A f \in pending'[i] :
              i \in 1..Len(pending) /\ pending'[i] = pending[i]
      BY <2>2 DEF Exit
    <2>5. OrderInv'
      <3>1. \A i, j \in 1..Len(pending') : i < j =>
               \A f \in pending'[i], g \in pending'[j] : f < g
        BY <2>4 DEF OrderInv
      <3>2. \A i \in 1..Len(pending') : \A f \in pending'[i], g \in InRows' : f < g
        BY <2>3, <2>4 DEF OrderInv
      <3>3. \A f \in InSink' : \A i \in 1..Len(pending') : \A g \in pending'[i] : f < g
        BY <2>3, <2>4 DEF OrderInv
      <3> QED BY <2>1, <2>3, <3>1, <3>2, <3>3 DEF OrderInv
    <2>6. \A f : f \in InQueue <=> f \in InQueue'
      <3>1. /\ \A f : f \in InQueue <=> \E i \in 1..Len(pending) : f \in pending[i]
            /\ \A f : f \in InQueue' <=> \E i \in 1..Len(pending') : f \in pending'[i]
        BY <1>0, <2>1, UnionOfQueue DEF TypeOK, InQueue
      <3> QED BY <2>2, <2>4, <3>1
    <2>7. Open' = Open
      BY <2>3, <2>6 DEF Open
    <2> QED BY <1>b, <2>1, <2>5, <2>7
  <1>13. CASE CloseSocket
    <2>1. /\ sock' = << >>
          /\ UNCHANGED <<sent, rows, pending, batch, spc, accepted, stored, dropped, cut>>
          /\ (mpc # "up") = (mpc' # "up")
      BY <1>13 DEF CloseSocket
    <2>2. OrderInv'
      BY <2>1 DEF OrderInv, InRows, InSink
    <2>3. Open' = Open
      BY <2>1 DEF Open, InRows, InQueue, InSink
    <2> QED BY <1>b, <2>1, <2>2, <2>3
  <1>14. CASE UNCHANGED vars
    <2>1. InSink' = InSink
      BY <1>14 DEF vars, InSink
    <2> QED BY <1>a, <1>14, <2>1 DEF vars
  <1> QED
    BY <1>1, <1>2, <1>3, <1>4, <1>5, <1>6, <1>7, <1>8, <1>9, <1>10, <1>11, <1>12, <1>13, <1>14
       DEF Next, Drain, EndRecv, RecvError, Sink, Shutdown, Terminated

(* The invariant of the refinement holds in every reachable state. *)
LEMMA RefInvAlways == Spec => []RefInv
  <1>1. Init => RefInv
    <2> SUFFICES ASSUME Init PROVE RefInv
      OBVIOUS
    <2>1. IInv /\ DispatchInv
      BY IInvInit DEF Init, DispatchInv
    <2>2. FlowInv
      BY DEF Init, FlowInv, Drainers
    <2>3. InRows = {} /\ InSink = {} /\ InQueue = {}
      BY DEF Init, InRows, InSink, InQueue, Drainers
    <2>4. OrderInv /\ OpenAccepted
      BY <2>3 DEF Init, OrderInv, OpenAccepted, Open
    <2> QED BY <2>1, <2>2, <2>4 DEF RefInv
  <1>2. PubInv /\ RefInv /\ [Next]_vars => RefInv'
    BY IInvStep, FlowInvStep, RefInvStep, PubInvStep DEF RefInv, PubInv
  <1>3. Init => PubInv
    BY DEF Init, PubInv, DispatchInv, PublishedUnlessDropped, Announced
  <1> QED
    BY <1>1, <1>2, <1>3, PubInvStep, PTL DEF Spec

(* The pipeline implements the ledger, for any number of frames, batch size, *)
(* credits, attempts and sweeps: every step of the receiver, the queue, the  *)
(* persister, the sink's thread and shutdown either leaves the ledger as it  *)
(* is, accepts the next row, settles the oldest batch as a whole, or gives   *)
(* rows up while the service stops.                                          *)
THEOREM PipelineImplementsLedger == Spec => ImplementsLedger
  <1>1. Init => Ledger!Init
    BY DEF Init, Ledger!Init, Open, InRows, InSink, InQueue, Drainers
  <1>2. RefInv /\ [Next]_vars => [Ledger!Next]_(Ledger!vars)
    BY RefInvStep DEF OpenStep, Ledger!Next, Ledger!vars
  <1> QED
    BY <1>1, <1>2, RefInvAlways, PTL DEF Spec, ImplementsLedger, Ledger!Spec

(* Where every accepted row is: NoSilentLoss but for its last two parts. *)
AccountInv ==
    /\ stored \cap dropped = {}
    /\ Open \cap (stored \cup dropped) = {}
    /\ Open \cup stored \cup dropped \subseteq accepted
    /\ ppc # "cancelled" => Lost = cut

(* What publish tasks have sent or have been given. *)
Handed == published \cup UNION pubTasks
(* While the persister lives, every settled row has been handed to a publish *)
(* task or is about to be, and no task outlives a complete shutdown.         *)
PubDone ==
    /\ ppc # "cancelled" =>
         stored \cup dropped \subseteq Handed
            \cup (IF ppc = "dispatch" /\ spc = "returned" THEN batch ELSE {})
    /\ mpc = "closed" /\ ppc = "done" => pubTasks = {}

(* Each step preserves the account: it follows from the ledger's step alone. *)
LEMMA AccountInvStep == RefInv /\ AccountInv /\ [Next]_vars => AccountInv'
  <1> SUFFICES ASSUME RefInv, AccountInv, [Next]_vars PROVE AccountInv'
    OBVIOUS
  <1>1. ppc' # "cancelled" => ppc # "cancelled"
    BY DEF Next, Send, Drain, DrainStart, Recv, EndRecv, RecvError, LoopOver, Acquired,
           Get, Sink, SinkBegin, SinkCommit, SinkTransient, SinkFatal, Dispatched,
           PublishPoint, Shutdown, PoolStop, PoolStopped, PutExit, Flushed, FlushTimeout,
           CloseSocket, CloseStore, Terminated, vars, sockVars, drainVars, queueVars,
           persistVars, sinkVars, pubVars, mainVars
  <1>2. \A f \in accepted : f \in Nat
    BY DEF RefInv, IInv, TypeOK, Frames
  <1>3. ASSUME NEW f \in Frames, Ledger!Accept(f), UNCHANGED cut PROVE AccountInv'
    <2>1. f \notin accepted /\ f \notin Open
      BY <1>2, <1>3 DEF Ledger!Accept, RefInv, OpenAccepted
    <2> QED BY <1>1, <1>3, <2>1 DEF Ledger!Accept, AccountInv, Lost
  <1>4. ASSUME batch \subseteq Open, Ledger!Commit(batch), UNCHANGED cut PROVE AccountInv'
    BY <1>1, <1>4 DEF Ledger!Commit, AccountInv, Lost
  <1>5. ASSUME batch \subseteq Open, Ledger!Drop(batch), UNCHANGED cut PROVE AccountInv'
    BY <1>1, <1>5 DEF Ledger!Drop, AccountInv, Lost
  <1>6. ASSUME cut' \subseteq Open, Ledger!Stop(cut'), mpc = "up" PROVE AccountInv'
    <2>1. Lost = {}
      BY <1>6 DEF RefInv, FlowInv, AccountInv
    <2> QED BY <1>6, <2>1 DEF Ledger!Stop, AccountInv, Lost
  <1>7. ASSUME batch \subseteq Open, Ledger!Stop(batch), ppc' = "cancelled" PROVE AccountInv'
    BY <1>7 DEF Ledger!Stop, AccountInv
  <1>8. ASSUME UNCHANGED <<accepted, Open, stored, dropped, mpc # "up", cut>> PROVE AccountInv'
    BY <1>1, <1>8 DEF AccountInv, Lost
  <1> QED
    BY <1>3, <1>4, <1>5, <1>6, <1>7, <1>8, RefInvStep DEF OpenStep

(* One more publish task. *)
LEMMA UnionAdd ==
  ASSUME NEW S, NEW T
  PROVE  UNION (S \cup {T}) = (UNION S) \cup T
  OBVIOUS

(* Each step preserves it. *)
LEMMA PubDoneStep == RefInv /\ PubDone /\ [Next]_vars => PubDone'
  <1> SUFFICES ASSUME RefInv, PubDone, [Next]_vars PROVE PubDone'
    OBVIOUS
  <1> USE DEF RefInv, PubDone, sockVars, drainVars, queueVars, persistVars,
              sinkVars, pubVars, mainVars
  <1>1. ASSUME NEW d \in Drainers, Drain(d) PROVE PubDone'
    BY <1>1 DEF Drain, DrainStart, Recv, EndRecv, RecvError, LoopOver, Acquired,
                PutRows, AfterSweep, IInv, DrainInv, Drainers, Handed
  <1>2. CASE Get
    BY <1>2 DEF Get, FlowInv, DispatchInv, Handed
  <1>3. CASE Sink
    <2>1. /\ UNCHANGED <<Handed, pubTasks, ppc, mpc, batch>>
          /\ spc \in {"waiting", "running"}
          /\ \/ UNCHANGED <<stored, dropped>>
             \/ spc' = "returned" /\ stored' \cup dropped' = stored \cup dropped \cup batch
      BY <1>3 DEF Sink, SinkBegin, SinkCommit, SinkTransient, SinkFatal, DropBatch, Handed
    <2>2. ppc \in {"dispatch", "cancelled"}
      BY <2>1 DEF IInv, TypeOK, FlowInv
    <2>3. CASE ppc = "cancelled"
      BY <2>1, <2>3
    <2>4. CASE ppc = "dispatch"
      <3>1. stored \cup dropped \subseteq Handed
        BY <2>1, <2>4
      <3>2. CASE UNCHANGED <<stored, dropped>>
        BY <2>1, <2>4, <3>1, <3>2
      <3>3. CASE spc' = "returned" /\ stored' \cup dropped' = stored \cup dropped \cup batch
        BY <2>1, <2>4, <3>1, <3>3
      <3> QED BY <2>1, <3>2, <3>3
    <2> QED BY <2>2, <2>3, <2>4
  <1>4. CASE Dispatched
    <2>1. /\ pubTasks' = pubTasks \cup {batch} /\ UNCHANGED <<published, stored, dropped, mpc>>
          /\ ppc = "dispatch" /\ ppc' = "get" /\ spc = "returned"
      BY <1>4 DEF Dispatched, SinkReturned
    <2>2. Handed' = Handed \cup batch
      BY <2>1, UnionAdd DEF Handed
    <2> QED BY <2>1, <2>2
  <1>5. CASE PublishPoint
    <2>0. PICK t \in pubTasks : \E f \in t :
            /\ published' = published \cup {f}
            /\ pubTasks' = (pubTasks \ {t}) \cup ({t \ {f}} \ {{}})
      BY <1>5 DEF PublishPoint
    <2>1. PICK f \in t :
            /\ published' = published \cup {f}
            /\ pubTasks' = (pubTasks \ {t}) \cup ({t \ {f}} \ {{}})
      BY <2>0
    <2>2. ASSUME NEW x \in Handed PROVE x \in Handed'
      <3>1. CASE x \in published \/ x = f
        BY <2>1, <3>1 DEF Handed
      <3>2. CASE x \in t \ {f}
        <4>1. t \ {f} \in pubTasks'
          BY <2>1, <3>2
        <4> QED BY <3>2, <4>1 DEF Handed
      <3>3. ASSUME NEW u \in pubTasks, u # t, x \in u
            PROVE  x \in Handed'
        <4>1. u \in pubTasks'
          BY <2>1, <3>3
        <4> QED BY <3>3, <4>1 DEF Handed
      <3> QED BY <2>2, <3>1, <3>2, <3>3 DEF Handed
    <2>3. UNCHANGED <<stored, dropped, ppc, spc, batch, mpc>>
      BY <1>5 DEF PublishPoint
    <2>4. pubTasks = {} => pubTasks' = {}
      BY <2>1
    <2> QED BY <2>2, <2>3, <2>4
  <1>6. CASE Shutdown
    BY <1>6 DEF Shutdown, PoolStop, PoolStopped, PutExit, Flushed, FlushTimeout,
                CloseSocket, CloseStore, PublishesDone, PutRows, Handed
  <1>7. CASE Send \/ UNCHANGED vars
    BY <1>7 DEF Send, vars, Handed
  <1> QED
    BY <1>1, <1>2, <1>3, <1>4, <1>5, <1>6, <1>7 DEF Next, Terminated

(* No accepted row vanishes or is settled twice: each is open, stored or     *)
(* dropped, except the rows of the one _enqueue that was cancelled while it  *)
(* awaited a credit, at most DEFAULT_DRAIN_BATCH of them, and what the flush *)
(* timeout abandons.  A shutdown without that timeout leaves nothing open    *)
(* and nothing stored unpublished.                                           *)
THEOREM NeverSilentLoss == Spec => []NoSilentLoss
  <1>1. Init => AccountInv /\ BatchInv /\ PubDone /\ PubInv
    <2> SUFFICES ASSUME Init PROVE AccountInv /\ BatchInv /\ PubDone /\ PubInv
      OBVIOUS
    <2>1. Open = {}
      BY DEF Init, Open, InRows, InSink, InQueue, Drainers
    <2>2. BatchInv
      BY FS_EmptySet DEF Init, BatchInv, Drainers
    <2> QED
      BY <2>1, <2>2 DEF Init, AccountInv, Lost, PubDone, Handed, PubInv, DispatchInv,
                        PublishedUnlessDropped, Announced
  <1>2. RefInv /\ BatchInv /\ [Next]_vars => BatchInv'
    BY BatchInvStep DEF RefInv
  <1>3. RefInv /\ AccountInv /\ BatchInv /\ PubDone /\ PubInv => NoSilentLoss
    <2> SUFFICES ASSUME RefInv, AccountInv, BatchInv, PubDone, PubInv PROVE NoSilentLoss
      OBVIOUS
    <2>1. ASSUME mpc = "closed", ppc = "done"
          PROVE  Open = {} /\ stored \subseteq published
      <3>1. InRows = {}
        BY <2>1 DEF RefInv, IInv, DrainInv, FlowInv, InRows, Drainers
      <3>2. InQueue = {} /\ InSink = {}
        BY <2>1 DEF RefInv, IInv, QueueInv, FlowInv, InQueue, InSink
      <3>3. stored \subseteq published
        BY <2>1 DEF PubDone, Handed
      <3> QED BY <3>1, <3>2, <3>3 DEF Open
    <2> QED BY <2>1 DEF NoSilentLoss, AccountInv, BatchInv
  <1> QED
    BY <1>1, <1>2, <1>3, RefInvAlways, AccountInvStep, PubDoneStep, PubInvStep, PTL DEF Spec

=============================================================================
