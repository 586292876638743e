------------------------------- MODULE Fanout -------------------------------
(***************************************************************************)
(* Live streaming: messaging/pubsub.py's publish into the queues of        *)
(* messaging/fanout.py, the WebSocket handlers that empty them             *)
(* (gateway/websocket.py), the connection cap of gateway/app.py, and the   *)
(* end of it all in Service.shutdown.  What follows the connection         *)
(* registry is in module Registry.                                         *)
(*                                                                         *)
(* Everything here runs on the event loop: a step is what runs between two *)
(* awaits.  A frame is its size; a topic is the sequence of its             *)
(* dot-separated names.                                                    *)
(***************************************************************************)
EXTENDS Naturals, Sequences, FiniteSets, SequencesExt, Sums

CONSTANTS
    Clients,      \* connections to /ws/subscribe
    Names,        \* names topics are made of
    Sizes,        \* payload sizes
    Budget,       \* queue_bytes
    Cap,          \* max_websocket_connections
    MaxFrames     \* bound: frames published

ASSUME FanoutAssumption ==
    /\ IsFiniteSet(Clients)
    /\ Sizes \subseteq Nat \ {0}
    /\ Budget \in Nat /\ Cap \in Nat /\ MaxFrames \in Nat

Topics   == {<<n>> : n \in Names} \cup {<<n, m>> : n \in Names, m \in Names}
All      == [path |-> << >>, dot |-> "yes"]      \* "*"
Patterns == {All} \cup [path : {<<n>> : n \in Names}, dot : {"no", "yes"}]
Sentinel == 0                                    \* None in a queue

VARIABLES
    phase,     \* "up", "closing" (should_exit is set), "stopped"
    handler,   \* where each connection's handler stands
    loop,      \* where its send_loop stands
    left,      \* has its watch_disconnect returned
    pattern,   \* topic of its _Subscriber
    queue,     \* queue of its _Subscriber
    pending,   \* pending_bytes
    drops,     \* dropped
    owed,      \* history: frames that matched it and were not sent to it
    subs,      \* keys of FanoutHub._subs
    wsCount,   \* app.state.ws_count
    attached,  \* keys of ConnectionRegistry._ws
    frames     \* published

connVars == <<handler, loop, left>>
hubVars  == <<pattern, queue, pending, drops, owed, subs>>
streamVars == <<phase, connVars, hubVars, wsCount, attached, frames>>

StreamInit ==
    /\ phase = "up"
    /\ handler = [c \in Clients |-> "away"]
    /\ loop = [c \in Clients |-> "done"]
    /\ left = [c \in Clients |-> "no"]
    /\ pattern = [c \in Clients |-> All]
    /\ queue = [c \in Clients |-> << >>]
    /\ pending = [c \in Clients |-> 0]
    /\ drops = [c \in Clients |-> 0]
    /\ owed = [c \in Clients |-> 0]
    /\ subs = {}
    /\ wsCount = 0
    /\ attached = {}
    /\ frames = 0

-----------------------------------------------------------------------------
(* _ws_slot_available. *)
SlotAvailable == wsCount < Cap

(* ws_subscribe: a slot, the registry and the hub, without an await. *)
Connect(c) ==
    /\ phase = "up" /\ handler[c] = "away" /\ SlotAvailable
    /\ wsCount' = wsCount + 1
    /\ handler' = [handler EXCEPT ![c] = "open"]
    /\ loop' = [loop EXCEPT ![c] = "recv"]
    /\ \E p \in Patterns : pattern' = [pattern EXCEPT ![c] = p]
    /\ attached' = attached \cup {c}
    /\ subs' = subs \cup {c}
    /\ UNCHANGED <<phase, left, queue, pending, drops, owed, frames>>

(* Close code 1013. *)
Refuse(c) ==
    /\ phase = "up" /\ handler[c] = "away" /\ ~SlotAvailable
    /\ handler' = [handler EXCEPT ![c] = "ended"]
    /\ UNCHANGED <<phase, loop, left, hubVars, wsCount, attached, frames>>

(* topic_matches: "*" is everything, "a." the topics below a, "a" also a. *)
TopicMatches(p, topic) ==
    \/ p = All
    \/ IsStrictPrefix(p.path, topic)
    \/ p.dot = "no" /\ p.path = topic

(* A frame is queued when it fits, or alone. *)
Fits(c, size) == pending[c] + size <= Budget \/ (pending[c] = 0 /\ size > Budget)

(* Mutant of Dropped: an oversize frame is not counted. *)
DroppedOversize(to, size) == {c \in to : ~Fits(c, size) /\ size <= Budget}

Dropped(to, size) == {c \in to : ~Fits(c, size)}

(* publish: to the XPUB, then deliver to every subscriber it matches. *)
Publish ==
    /\ phase # "stopped" /\ frames < MaxFrames
    /\ frames' = frames + 1
    /\ \E topic \in Topics, size \in Sizes :
         LET to   == {c \in subs : TopicMatches(pattern[c], topic)}
             fit  == {c \in to : Fits(c, size)}
         IN  /\ owed' = [c \in Clients |-> owed[c] + IF c \in to THEN 1 ELSE 0]
             /\ drops' = [c \in Clients |-> drops[c] + IF c \in Dropped(to, size) THEN 1 ELSE 0]
             /\ pending' = [c \in Clients |-> pending[c] + IF c \in fit THEN size ELSE 0]
             /\ queue' = [c \in Clients |-> IF c \in fit
                            THEN Append(queue[c], size) ELSE queue[c]]
    /\ UNCHANGED <<phase, connVars, pattern, subs, wsCount, attached>>

-----------------------------------------------------------------------------
(* send_loop: recv takes the oldest frame, or finds the sentinel... *)
Recv(c) ==
    /\ loop[c] = "recv" /\ queue[c] # << >>
    /\ queue' = [queue EXCEPT ![c] = Tail(@)]
    /\ LET item == Head(queue[c])
       IN  \/ /\ item = Sentinel
              /\ loop' = [loop EXCEPT ![c] = "done"]
              /\ UNCHANGED pending
           \/ /\ item # Sentinel
              /\ pending' = [pending EXCEPT ![c] = @ - item]
              /\ loop' = [loop EXCEPT ![c] = "send"]
    /\ UNCHANGED <<phase, handler, left, pattern, drops, owed, subs, wsCount,
                   attached, frames>>

(* ...and when the frame is out calls recv again, which asks the hub first. *)
Sent(c) ==
    /\ loop[c] = "send"
    /\ owed' = [owed EXCEPT ![c] = @ - 1]
    /\ loop' = [loop EXCEPT ![c] = IF c \in subs THEN "recv" ELSE "done"]
    /\ UNCHANGED <<phase, handler, left, pattern, queue, pending, drops, subs, wsCount,
                   attached, frames>>

(* The frame does not go out within SEND_TIMEOUT, or the send raises. *)
SendFails(c) ==
    /\ loop[c] = "send"
    /\ loop' = [loop EXCEPT ![c] = "done"]
    /\ UNCHANGED <<phase, handler, left, hubVars, wsCount, attached, frames>>

(* Nothing came for KEEPALIVE_S: the keepalive fails, or it goes out and the *)
(* next recv finds the subscriber gone.  One that goes out to a subscriber   *)
(* changes nothing.                                                          *)
KeepaliveEnds(c) ==
    /\ loop[c] = "recv" /\ queue[c] = << >>
    /\ loop' = [loop EXCEPT ![c] = "done"]
    /\ UNCHANGED <<phase, handler, left, hubVars, wsCount, attached, frames>>

(* watch_disconnect sees the client go. *)
Disconnect(c) ==
    /\ handler[c] = "open" /\ left[c] = "no"
    /\ left' = [left EXCEPT ![c] = "yes"]
    /\ UNCHANGED <<phase, handler, loop, hubVars, wsCount, attached, frames>>

(* Mutant of Released: the slot is not given back. *)
ReleasedNot == wsCount

Released == wsCount - 1

(* The finally blocks of subscribe_and_forward and of ws_subscribe. *)
EndHandler(c) ==
    /\ handler' = [handler EXCEPT ![c] = "ended"]
    /\ subs' = subs \ {c}
    /\ attached' = attached \ {c}
    /\ wsCount' = Released

(* Mutant of Returned: the handler waits for both tasks. *)
ReturnedBoth(c) == loop[c] = "done" /\ left[c] = "yes"

Returned(c) == loop[c] = "done" \/ left[c] = "yes"

(* One of the two tasks has returned: the other one is cancelled, and the    *)
(* subscriber goes with them.                                                *)
Finish(c) ==
    /\ handler[c] = "open" /\ Returned(c)
    /\ EndHandler(c)
    /\ loop' = [loop EXCEPT ![c] = "done"]
    /\ queue' = [queue EXCEPT ![c] = << >>]
    /\ pending' = [pending EXCEPT ![c] = 0]
    /\ drops' = [drops EXCEPT ![c] = 0]
    /\ owed' = [owed EXCEPT ![c] = 0]
    /\ pattern' = [pattern EXCEPT ![c] = All]
    /\ left' = [left EXCEPT ![c] = "no"]
    /\ UNCHANGED <<phase, frames>>

Woken(q) == Append(q, Sentinel)

(* uvicorn cancels the handler after timeout_graceful_shutdown: asyncio.wait *)
(* leaves its two tasks running, and the send_loop has only the sentinel of  *)
(* detach, or its next recv, to end by.                                      *)
Cancelled(c) ==
    /\ phase = "closing" /\ handler[c] = "open"
    /\ EndHandler(c)
    /\ queue' = [queue EXCEPT ![c] = Woken(@)]
    /\ UNCHANGED <<phase, loop, left, pattern, pending, drops, owed,
                   frames>>

-----------------------------------------------------------------------------
(* Service.shutdown: should_exit, and uvicorn closes every connection... *)
Shutdown ==
    /\ phase = "up"
    /\ phase' = "closing"
    /\ left' = [c \in Clients |-> IF handler[c] = "open" THEN "yes" ELSE left[c]]
    /\ UNCHANGED <<handler, loop, hubVars, wsCount, attached, frames>>

(* ...and when their handlers have ended, PubSub.stop: the hub wakes every   *)
(* queue, the reader ends and the XPUB is closed.                            *)
PubSubStop ==
    /\ phase = "closing"
    /\ \A c \in Clients : handler[c] # "open"
    /\ phase' = "stopped"
    /\ queue' = [c \in Clients |-> IF c \in subs THEN Woken(queue[c]) ELSE queue[c]]
    /\ UNCHANGED <<connVars, pattern, pending, drops, owed, subs,
                   wsCount, attached, frames>>

HandlerStep(c) == Recv(c) \/ Sent(c) \/ SendFails(c) \/ KeepaliveEnds(c) \/ Finish(c)

StreamNext ==
    \/ Publish \/ Shutdown \/ PubSubStop
    \/ \E c \in Clients :
          Connect(c) \/ Refuse(c) \/ Disconnect(c) \/ HandlerStep(c) \/ Cancelled(c)

StreamSpec == StreamInit /\ [][StreamNext]_streamVars

(* The loop runs every ready task, a send ends by SEND_TIMEOUT, and uvicorn  *)
(* ends the handlers once it closes.  Nothing is assumed of the clients, and *)
(* nothing rests on the keepalive.                                           *)
StreamFairSpec ==
    /\ StreamSpec
    /\ WF_streamVars(PubSubStop)
    /\ \A c \in Clients :
         /\ WF_streamVars(Recv(c)) /\ WF_streamVars(Sent(c) \/ SendFails(c))
         /\ WF_streamVars(Finish(c))

-----------------------------------------------------------------------------
(* Every variable has its type; the sentinel is the last item of a queue. *)
StreamTypeOK ==
    /\ phase \in {"up", "closing", "stopped"}
    /\ handler \in [Clients -> {"away", "open", "ended"}]
    /\ loop \in [Clients -> {"recv", "send", "done"}]
    /\ left \in [Clients -> {"no", "yes"}]
    /\ pattern \in [Clients -> Patterns]
    /\ \A c \in Clients : \A i \in DOMAIN queue[c] :
         queue[c][i] \in Sizes \/ (queue[c][i] = Sentinel /\ i = Len(queue[c]))
    /\ pending \in [Clients -> Nat]
    /\ drops \in [Clients -> 0..MaxFrames]
    /\ owed \in [Clients -> 0..MaxFrames]
    /\ subs \subseteq Clients /\ attached \subseteq Clients
    /\ wsCount \in 0..Cap
    /\ frames \in 0..MaxFrames

Open == {c \in Clients : handler[c] = "open"}

(* The cap's counter, the registry and the hub agree on who is connected,    *)
(* however handlers end: refused, left, timed out or cancelled.              *)
NoLeak ==
    /\ subs = Open /\ attached = Open
    /\ wsCount = Cardinality(Open)

(* "Drop deliberately, never silently": each frame that matched a subscriber *)
(* was sent to it, is being sent, is queued, or is counted as dropped; and   *)
(* pending_bytes is the size of what is queued, within the budget unless one *)
(* oversize frame is queued alone.                                           *)
Accounted ==
    /\ StreamTypeOK
    /\ \A c \in subs : loop[c] # "done" =>
        owed[c] = Len(queue[c]) + drops[c] + IF loop[c] = "send" THEN 1 ELSE 0
    /\ \A c \in Clients :
        /\ pending[c] = SumTo(queue[c], Len(queue[c]))
        /\ pending[c] > Budget =>
             Cardinality({i \in DOMAIN queue[c] : queue[c][i] # Sentinel}) = 1

(* Shutdown comes to its end, whatever the clients do, and the send_loop of  *)
(* a handler that has ended ends as well, also of one that was cancelled.    *)
ShutdownEnds ==
    /\ phase = "closing" ~> phase = "stopped"
    /\ \A c \in Clients : handler[c] = "ended" ~> loop[c] = "done"
=============================================================================
