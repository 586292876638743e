---------------------------- MODULE IngestLedger ----------------------------
(***************************************************************************)
(* What the ingest pipeline promises, without its queue, credits, tasks    *)
(* and threads: rows are accepted in arrival order, every accepted row is  *)
(* settled (stored or dropped) at most once, whole batches at a time and   *)
(* oldest first, and an accepted row can be lost only once the service is  *)
(* stopping.                                                               *)
(***************************************************************************)
EXTENDS Naturals

CONSTANT Rows          \* arrival numbers of the rows

VARIABLES accepted,    \* rows counted as received
          open,        \* accepted and not yet settled
          stored,      \* committed
          dropped,     \* counted as dropped
          stopping     \* shutdown has begun

vars == <<accepted, open, stored, dropped, stopping>>

Init == /\ accepted = {}
        /\ open = {}
        /\ stored = {}
        /\ dropped = {}
        /\ stopping = FALSE

(* A row is received and validated. *)
Accept(f) ==
    /\ \A g \in accepted : g < f
    /\ accepted' = accepted \cup {f}
    /\ open' = open \cup {f}
    /\ UNCHANGED <<stored, dropped, stopping>>

(* A batch: some of the oldest open rows. *)
Oldest(S) == S # {} /\ \A f \in S, g \in open \ S : f < g

Commit(S) ==
    /\ Oldest(S)
    /\ open' = open \ S
    /\ stored' = stored \cup S
    /\ UNCHANGED <<accepted, dropped, stopping>>

Drop(S) ==
    /\ Oldest(S)
    /\ open' = open \ S
    /\ dropped' = dropped \cup S
    /\ UNCHANGED <<accepted, stored, stopping>>

(* Shutdown begins, or goes on, giving some open rows up. *)
Stop(S) ==
    /\ stopping' = TRUE
    /\ open' = open \ S
    /\ UNCHANGED <<accepted, stored, dropped>>

Next == \/ \E f \in Rows : Accept(f)
        \/ \E S \in SUBSET open : Commit(S) \/ Drop(S) \/ Stop(S)

Spec == Init /\ [][Next]_vars
=============================================================================
