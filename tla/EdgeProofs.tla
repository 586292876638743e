----------------------------- MODULE EdgeProofs -----------------------------
(***************************************************************************)
(* Proofs about the two ways into the service from outside, which share no *)
(* state: what the gateway tells its writers and the times it stores       *)
(* (Gateway), and the client's replies, resubscription and close (Client), *)
(* for all payloads, bounds and numbers of requests.  Each side has an     *)
(* inductive invariant of its own.                                         *)
(***************************************************************************)
EXTENDS Gateway, Client, FiniteSetTheorems, WellFoundedInduction, TLAPS

(* The client.  A request in flight belongs to a socket that some request    *)
(* made; on the socket in use only the current request can be in flight.     *)
Messages == [sock : Nat, to : Nat]

AskTypes ==
    /\ ask \in [pc : {"idle", "recv", "broken"}, n : Nat, got : Nat]
    /\ querySock \in Nat /\ awaiting \in BOOLEAN
    /\ sent \in SUBSET Messages /\ replies \in SUBSET Messages

FlightInv ==
    /\ sent \cap replies = {}
    /\ \A m \in sent \cup replies : m.sock > 2 /\ m.sock =< 2 + ask.n
    /\ \A m \in sent \cup replies : m.sock = querySock => m.to = ask.n /\ ask.pc = "recv"
    /\ querySock = Nothing \/ (querySock > 2 /\ querySock =< 2 + ask.n)

(* Which sockets close can still meet, at each step of close and of the      *)
(* iterator.                                                                 *)
CloseInv ==
    /\ sockets \in SUBSET (Nat \ {Nothing})
    /\ sub \in {"poll", "probe", "probing", "drop", "create", "assign", "checked", "ended"}
    /\ closer \in {"idle", "sockets", "clear", "term", "done"}
    /\ held \in BOOLEAN /\ raced \in BOOLEAN /\ closing \in BOOLEAN
    /\ closer # "idle" => ask.pc # "recv"
    /\ sockets \subseteq {Sub, Probe, querySock} 
    /\ closer \in {"clear", "term", "done"} => sockets \subseteq {Sub, Probe}
    /\ Probe \in sockets => sub = "probing"
    /\ sub = "create" => Sub \notin sockets
    /\ closer \in {"term", "done"} /\ held => raced /\ sub = "ended"
    /\ closer = "term" /\ sub = "ended" => Sub \notin sockets \/ raced

(* The last answered probe against the server's restarts: a server of a      *)
(* later epoch began after it.                                               *)
SubInv ==
    /\ time \in Nat
    /\ server \in [up : BOOLEAN, since : Nat, epoch : Nat] /\ server.since =< time
    /\ known \in Nat
    /\ probe \in [at : Nat, uptime : Nat \cup {Unknown}, epoch : Nat]
    /\ before \in [at : Nat, uptime : Nat \cup {Unknown}, epoch : Nat]
    /\ lastUptime = probe.uptime
    /\ probe.at =< time
    /\ probe.epoch =< server.epoch
    /\ probe.epoch < server.epoch => server.since >= probe.at
    /\ sub \in {"create", "assign"} => known = Nothing \/ known >= probe.epoch
    /\ ResubscribedUnlessYoung

(* The gateway: its types, how a request's coroutine and its thread stand to *)
(* each other, and which rows of the table a request has.                    *)
Answers == {"none", "200", "400", "429", "500", "504"}
ReqSteps == {"idle", "waiting", "broadcast", "answered"}
ThreadSteps == {"none", "pending", "cancelled", "prepared", "returned", "raised", "timedout"}

HttpTypes ==
    /\ clock \in Start..End
    /\ req \in [Reqs -> [pc : ReqSteps, batch : Batches \cup {<<>>}, reply : Answers]]
    /\ thread = [r \in Reqs |-> [pc |-> thread[r].pc, rows |-> thread[r].rows]]
    /\ \A r \in Reqs : thread[r].pc \in ThreadSteps
    /\ published \in [Reqs -> Nat]

ThreadOf(r) ==
    /\ req[r].pc = "idle" => thread[r].pc = "none" /\ req[r].reply = "none"
    /\ req[r].pc = "broadcast" => thread[r].pc = "returned"
    /\ req[r].reply = "200" \/ published[r] > 0 => thread[r].pc = "returned"
    /\ req[r].reply \in {"400", "429"} => thread[r].pc = "none"
    /\ req[r].reply = "500" => thread[r].pc = "raised"
    /\ req[r].pc \in {"waiting", "broadcast"} => req[r].reply = "none"

ThreadInv == \A r \in Reqs : ThreadOf(r)

RowsBy(r) == {row \in table : row.by = r}

RowOf(r) ==
    /\ thread[r].pc \in {"prepared", "returned", "raised"} =>
          /\ \A row \in thread[r].rows : row.by = r
          /\ Cardinality(thread[r].rows) = Len(req[r].batch)
    /\ thread[r].pc = "returned" => RowsBy(r) = thread[r].rows
    /\ thread[r].pc # "returned" => RowsBy(r) = {}

RowInv ==
    /\ \A row \in zmq : row.by \in {"server", "client"}
    /\ \A r \in Reqs : RowOf(r)

-----------------------------------------------------------------------------
(* No step of the client mixes up requests in flight. *)
LEMMA AskStep ==
    AskTypes /\ FlightInv /\ CloseInv /\ (ClientNext \/ UNCHANGED clientVars) =>
        AskTypes' /\ FlightInv'
<1> SUFFICES ASSUME AskTypes, FlightInv, CloseInv, ClientNext \/ UNCHANGED clientVars
             PROVE  AskTypes' /\ FlightInv'
  OBVIOUS
<1>u. ASSUME UNCHANGED askVars PROVE AskTypes' /\ FlightInv'
  BY <1>u DEF askVars, AskTypes, FlightInv
<1>1. CASE Request
  <2>1. CASE awaiting
    <3>1. ask' = [ask EXCEPT !.pc = "broken"] /\ UNCHANGED <<querySock, awaiting, sent, replies>>
      BY <1>1, <2>1 DEF Request
    <3>2. ask'.n = ask.n /\ ask' \in [pc : {"idle", "recv", "broken"}, n : Nat, got : Nat]
      BY <3>1 DEF AskTypes
    <3>3. \A m \in sent \cup replies : m.sock # querySock
      BY <1>1 DEF Request, FlightInv
    <3> QED  BY <3>1, <3>2, <3>3 DEF AskTypes, FlightInv
  <2>2. CASE ~awaiting
    <3> DEFINE s == IF querySock = Nothing THEN QuerySocket(ask.n + 1) ELSE querySock
               new == [sock |-> s, to |-> ask.n + 1]
    <3>1. /\ ask' = [pc |-> "recv", n |-> ask.n + 1, got |-> Nothing]
          /\ querySock' = s /\ awaiting' = TRUE /\ sent' = sent \cup {new} /\ replies' = replies
      BY <1>1, <2>2 DEF Request
    <3>2. s \in Nat /\ s > 2 /\ s =< 2 + (ask.n + 1) /\ ask.n \in Nat
      BY DEF AskTypes, FlightInv, QuerySocket, Nothing
    <3>3. \A m \in sent \cup replies : m.sock # s /\ m.sock > 2 /\ m.sock =< 2 + (ask.n + 1)
      <4> TAKE m \in sent \cup replies
      <4>1. m.sock \in Nat /\ m.sock > 2 /\ m.sock =< 2 + ask.n /\ m.sock # querySock
        BY <1>1 DEF Request, AskTypes, FlightInv, Messages
      <4> QED  BY <3>2, <4>1 DEF QuerySocket
    <3>4. new \in Messages /\ new.sock = s /\ new.to = ask.n + 1
      BY <3>2 DEF Messages
    <3>5. ask'.pc = "recv" /\ ask'.n = ask.n + 1
          /\ ask' \in [pc : {"idle", "recv", "broken"}, n : Nat, got : Nat]
      BY <3>1, <3>2 DEF Nothing
    <3> HIDE DEF s, new
    <3>6. AskTypes'
      BY <3>1, <3>2, <3>4, <3>5 DEF AskTypes
    <3>7. new \notin replies
      BY <3>3, <3>4
    <3> QED  BY <3>1, <3>2, <3>3, <3>4, <3>5, <3>6, <3>7 DEF FlightInv
  <2> QED  BY <2>1, <2>2
<1>2. ASSUME NEW m \in sent, ServerReplies(m) PROVE AskTypes' /\ FlightInv'
  <2>1. /\ sent' = sent \ {m} /\ replies' \in {replies, replies \cup {m}}
        /\ UNCHANGED <<ask, querySock, awaiting>>
    BY <1>2 DEF ServerReplies
  <2> QED  BY <2>1 DEF AskTypes, FlightInv
<1>3. ASSUME NEW m \in replies, Receive(m) PROVE AskTypes' /\ FlightInv'
  <2>1. /\ ask' = [ask EXCEPT !.pc = "idle", !.got = m.to] /\ awaiting' = FALSE
        /\ replies' = replies \ {m} /\ UNCHANGED <<querySock, sent>> /\ m.sock = querySock
    BY <1>3 DEF Receive
  <2>2. m \in Messages /\ m.to \in Nat
    BY DEF AskTypes, Messages
  <2>3. ask' \in [pc : {"idle", "recv", "broken"}, n : Nat, got : Nat] /\ ask'.n = ask.n
    BY <2>1, <2>2 DEF AskTypes
  <2>4. \A k \in sent \cup (replies \ {m}) : k.sock # querySock
    <3> SUFFICES ASSUME NEW k \in sent \cup (replies \ {m}), k.sock = querySock PROVE FALSE
      OBVIOUS
    <3>1. k \in Messages /\ k.to = ask.n /\ m.to = ask.n
      BY <2>1 DEF AskTypes, FlightInv
    <3>2. k = m
      BY <2>1, <2>2, <3>1 DEF Messages
    <3> QED  BY <3>2 DEF FlightInv
  <2> QED  BY <2>1, <2>3, <2>4 DEF AskTypes, FlightInv
<1>4. CASE ReceiveTimesOut
  <2>1. /\ ask' = [ask EXCEPT !.pc = "idle"] /\ querySock' = Nothing /\ awaiting' = FALSE
        /\ replies' \subseteq replies /\ sent' = sent
    BY <1>4 DEF ReceiveTimesOut, ResetSock
  <2>2. ask' \in [pc : {"idle", "recv", "broken"}, n : Nat, got : Nat] /\ ask'.n = ask.n
    BY <2>1 DEF AskTypes
  <2>3. \A m \in sent \cup replies : m.sock # Nothing
    BY DEF FlightInv, AskTypes, Messages, Nothing
  <2>4. AskTypes'
    BY <2>1, <2>2 DEF AskTypes, Nothing
  <2> QED  BY <2>1, <2>2, <2>3, <2>4 DEF FlightInv
<1>5. CASE CloseClear
  <2>1. querySock' = Nothing /\ UNCHANGED <<ask, awaiting, sent, replies>>
    BY <1>5 DEF CloseClear
  <2> QED  BY <2>1 DEF AskTypes, FlightInv, Nothing
<1>6. CASE \/ Pass \/ ServerEnds \/ ServerStarts \/ Subscribed \/ Poll \/ OpenProbe \/ EndProbe
           \/ Checked \/ DropSocket \/ CreateSocket \/ AssignSocket \/ CloseFlag \/ CloseSockets
           \/ CloseReturns \/ UNCHANGED clientVars
  <2>1. UNCHANGED askVars
    BY <1>6 DEF Pass, ServerEnds, ServerStarts, Subscribed, Poll, OpenProbe, EndProbe, Checked,
       DropSocket, CreateSocket, AssignSocket, CloseFlag, CloseSockets, CloseReturns, clientVars
  <2> QED  BY <1>u, <2>1
<1> QED  BY <1>1, <1>2, <1>3, <1>4, <1>5, <1>6 DEF ClientNext

(* What query returns stays the answer to the request it sent. *)
LEMMA OwnReplyStep ==
    AskTypes /\ FlightInv /\ OwnReply /\ (ClientNext \/ UNCHANGED clientVars) => OwnReply'
<1> SUFFICES ASSUME AskTypes, FlightInv, OwnReply, ClientNext \/ UNCHANGED clientVars
             PROVE  OwnReply'
  OBVIOUS
<1>1. CASE Request
  <2>1. ask' = [pc |-> "recv", n |-> ask.n + 1, got |-> Nothing]
    BY <1>1 DEF Request, OwnReply
  <2> QED  BY <2>1 DEF OwnReply
<1>2. ASSUME NEW m \in replies, Receive(m) PROVE OwnReply'
  <2>1. m.to = ask.n
    BY <1>2 DEF Receive, FlightInv
  <2>2. ask'.pc = "idle" /\ ask'.n = ask.n /\ ask'.got = m.to /\ awaiting' = FALSE
    BY <1>2 DEF Receive, AskTypes
  <2> QED  BY <2>1, <2>2 DEF OwnReply
<1>3. CASE ReceiveTimesOut
  <2>1. ask'.pc = "idle" /\ ask'.n = ask.n /\ ask'.got = ask.got /\ awaiting' = FALSE
    BY <1>3 DEF ReceiveTimesOut, ResetSock, AskTypes
  <2> QED  BY <2>1 DEF OwnReply
<1>4. ASSUME UNCHANGED <<ask, awaiting>> PROVE OwnReply'
  BY <1>4 DEF OwnReply
<1>5. CASE ~Request /\ ~ReceiveTimesOut /\ ~(\E m \in replies : Receive(m))
  <2>1. UNCHANGED <<ask, awaiting>>
    BY <1>5 DEF ClientNext, Pass, ServerEnds, ServerStarts, Subscribed, ServerReplies, Poll,
       OpenProbe, EndProbe, Checked, DropSocket, CreateSocket, AssignSocket, CloseFlag,
       CloseSockets, CloseClear, CloseReturns, clientVars, askVars
  <2> QED  BY <1>4, <2>1
<1> QED  BY <1>1, <1>2, <1>3, <1>5

(* Each step of close, the iterator and the caller keeps CloseInv. *)
LEMMA CloseStep ==
    AskTypes /\ FlightInv /\ CloseInv /\ (ClientNext \/ UNCHANGED clientVars) => CloseInv'
<1> SUFFICES ASSUME AskTypes, FlightInv, CloseInv, ClientNext \/ UNCHANGED clientVars
             PROVE  CloseInv'
  OBVIOUS
<1> USE DEF Nothing, Sub, Probe
<1>s. querySock \in Nat /\ (querySock = 0 \/ querySock > 2)
  BY DEF AskTypes, FlightInv
<1>1. CASE Pass \/ ServerEnds \/ ServerStarts \/ Subscribed \/ UNCHANGED clientVars
  <2>1. UNCHANGED <<sockets, ask, querySock, sub, held, closing, closer, raced>>
    BY <1>1 DEF Pass, ServerEnds, ServerStarts, Subscribed, clientVars, askVars, subVars, closeVars
  <2> QED  BY <2>1 DEF CloseInv
<1>2. ASSUME NEW m \in sent, ServerReplies(m) PROVE CloseInv'
  BY <1>2 DEF ServerReplies, subVars, closeVars, CloseInv
<1>3. ASSUME NEW m \in replies, Receive(m) PROVE CloseInv'
  <2>1. ask'.pc = "idle"
    BY <1>3 DEF Receive, AskTypes
  <2> QED  BY <1>3, <2>1 DEF Receive, subVars, closeVars, CloseInv
<1>4. CASE Request
  <2>1. closer = "idle" /\ UNCHANGED <<sub, held, closing, closer, raced>>
    BY <1>4 DEF Request, subVars, closeVars
  <2>2. CASE awaiting
    <3>1. UNCHANGED <<sockets, querySock>> /\ ask'.pc = "broken"
      BY <1>4, <2>2 DEF Request, AskTypes
    <3> QED  BY <2>1, <3>1 DEF CloseInv
  <2>3. CASE ~awaiting
    <3>1. querySock' \in Nat /\ querySock' > 2 /\ sockets' = sockets \cup {querySock'}
          /\ (querySock = 0 \/ querySock' = querySock)
      BY <1>4, <1>s, <2>3 DEF Request, AskTypes, QuerySocket
    <3>2. querySock = 0 => sockets \subseteq {1, 2, 0}
      BY DEF CloseInv
    <3>3. 0 \notin sockets
      BY DEF CloseInv
    <3> QED  BY <2>1, <3>1, <3>2, <3>3 DEF CloseInv
  <2> QED  BY <2>2, <2>3
<1>5. CASE ReceiveTimesOut
  <2>1. /\ ask'.pc = "idle" /\ ask.pc = "recv" /\ querySock' = 0 /\ sockets' = sockets \ {querySock}
        /\ UNCHANGED <<sub, held, closing, closer, raced>>
    BY <1>5 DEF ReceiveTimesOut, ResetSock, AskTypes, subVars, closeVars
  <2>2. closer = "idle"
    BY <2>1 DEF CloseInv
  <2> QED  BY <1>s, <2>1, <2>2 DEF CloseInv
<1>6. CASE Poll
  <2>1. UNCHANGED <<ask, querySock, held, closing, closer, raced>> /\ sub = "poll"
    BY <1>6 DEF Poll, askVars, closeVars
  <2>2. CASE sub' = "ended" /\ sockets' = IF held THEN sockets ELSE sockets \ {Sub}
    BY <2>1, <2>2 DEF CloseInv
  <2>3. CASE sub' = "probe" /\ UNCHANGED sockets
    BY <2>1, <2>3 DEF CloseInv
  <2> QED  BY <1>6, <2>2, <2>3 DEF Poll, Return
<1>7. CASE OpenProbe
  <2>1. UNCHANGED <<ask, querySock, held, closing, closer, raced>> /\ sub = "probe"
    BY <1>7 DEF OpenProbe, askVars, closeVars
  <2>2. CASE sub' = "poll" /\ sockets' = sockets
    BY <2>1, <2>2 DEF CloseInv
  <2>3. CASE sub' = "probing" /\ sockets' = sockets \cup {2}
    <3>1. sockets' \in SUBSET (Nat \ {0}) /\ sockets' \subseteq {1, 2, querySock}
      BY <2>3 DEF CloseInv
    <3>2. closer \in {"clear", "term", "done"} => sockets' \subseteq {1, 2}
      BY <2>3 DEF CloseInv
    <3>3. ~(closer \in {"term", "done"} /\ held) /\ (2 \in sockets' => sub' = "probing")
      BY <2>1, <2>3 DEF CloseInv
    <3> QED  BY <2>1, <2>3, <3>1, <3>2, <3>3 DEF CloseInv
  <2> QED  BY <1>7, <2>2, <2>3 DEF OpenProbe
<1>8. CASE EndProbe
  <2>1. /\ sub = "probing" /\ sub' \in {"drop", "checked", "poll"} /\ sockets' = sockets \ {Probe}
        /\ UNCHANGED <<ask, querySock, held, closing, closer, raced>>
    BY <1>8 DEF EndProbe, askVars, closeVars
  <2> QED  BY <2>1 DEF CloseInv
<1>9. CASE Checked
  BY <1>9 DEF Checked, askVars, closeVars, CloseInv
<1>10. CASE DropSocket
  BY <1>10 DEF DropSocket, askVars, closeVars, CloseInv
<1>11. CASE CreateSocket
  <2>1. UNCHANGED <<ask, querySock, held, closing, closer, raced>> /\ sub = "create"
    BY <1>11 DEF CreateSocket, askVars, closeVars
  <2>2. CASE sub' = "ended" /\ sockets' = sockets
    BY <2>1, <2>2 DEF CloseInv
  <2>3. CASE sub' = "assign" /\ sockets' = sockets \cup {1}
    <3>1. sockets' \in SUBSET (Nat \ {0}) /\ sockets' \subseteq {1, 2, querySock}
      BY <2>3 DEF CloseInv
    <3>2. closer \in {"clear", "term", "done"} => sockets' \subseteq {1, 2}
      BY <2>3 DEF CloseInv
    <3>3. ~(closer \in {"term", "done"} /\ held) /\ (2 \in sockets' => sub' = "probing")
      BY <2>1, <2>3 DEF CloseInv
    <3> QED  BY <2>1, <2>3, <3>1, <3>2, <3>3 DEF CloseInv
  <2> QED  BY <1>11, <2>2, <2>3 DEF CreateSocket
<1>12. CASE AssignSocket
  <2>1. UNCHANGED <<ask, querySock, closing, closer>> /\ sub = "assign"
    BY <1>12 DEF AssignSocket, askVars
  <2>2. CASE /\ UNCHANGED sockets /\ held' = TRUE
             /\ raced' = (closer \in {"term", "done"})
             /\ sub' = IF closer \in {"term", "done"} THEN "ended" ELSE "checked"
    <3>1. raced' \in BOOLEAN
      BY <2>2
    <3>2. CASE closer \in {"term", "done"}
      <4>1. sub' = "ended" /\ raced'
        BY <2>2, <3>2
      <4> QED  BY <2>1, <2>2, <3>1, <4>1 DEF CloseInv
    <3>3. CASE closer \notin {"term", "done"}
      <4>1. sub' = "checked"
        BY <2>2, <3>3
      <4> QED  BY <2>1, <2>2, <3>1, <3>3, <4>1 DEF CloseInv
    <3> QED  BY <3>2, <3>3
  <2>3. CASE sub' = "ended" /\ sockets' = sockets \ {Sub} /\ UNCHANGED <<held, raced>>
    BY <2>1, <2>3 DEF CloseInv
  <2> QED  BY <1>12, <2>2, <2>3 DEF AssignSocket, Terminated
<1>13. CASE CloseFlag
  BY <1>13 DEF CloseFlag, askVars, subVars, CloseInv
<1>14. CASE CloseSockets
  <2>1. /\ closer = "sockets" /\ closer' = "clear"
        /\ sockets' \subseteq sockets \ {querySock}
        /\ UNCHANGED <<ask, querySock, sub, held, closing, raced>>
    BY <1>14 DEF CloseSockets, askVars, subVars
  <2> QED  BY <2>1 DEF CloseInv
<1>15. CASE CloseClear
  BY <1>15 DEF CloseClear, CloseInv
<1>16. CASE CloseReturns
  BY <1>16 DEF CloseReturns, askVars, subVars, CloseInv
<1> QED
  BY <1>1, <1>2, <1>3, <1>4, <1>5, <1>6, <1>7, <1>8, <1>9, <1>10, <1>11, <1>12, <1>13, <1>14,
     <1>15, <1>16 DEF ClientNext

(* Each step keeps what the last two probes say of the subscription. *)
LEMMA SubStep == CloseInv /\ SubInv /\ (ClientNext \/ UNCHANGED clientVars) => SubInv'
<1> SUFFICES ASSUME CloseInv, SubInv, ClientNext \/ UNCHANGED clientVars PROVE SubInv'
  OBVIOUS
<1> USE DEF Nothing
<1>u. ASSUME UNCHANGED <<time, server, known, lastUptime, probe, before>>,
             sub' \notin {"create", "assign"} \/ sub \in {"create", "assign"},
             sub' # "checked" \/ sub \in {"assign", "checked"}
      PROVE  SubInv'
  <2>1. sub' \in {"create", "assign"} => known = Nothing \/ known >= probe.epoch
    BY <1>u DEF SubInv
  <2>2. ResubscribedUnlessYoung'
    BY <1>u DEF SubInv, ResubscribedUnlessYoung
  <2> QED  BY <1>u, <2>1, <2>2 DEF SubInv
<1>1. CASE Pass
  <2>1. /\ time' = time + 1
        /\ UNCHANGED <<server, known, lastUptime, probe, before, sub>>
    BY <1>1 DEF Pass, subVars
  <2>2. ResubscribedUnlessYoung'
    BY <2>1 DEF SubInv, ResubscribedUnlessYoung
  <2>3. time' \in Nat /\ server.since =< time' /\ probe.at =< time'
    BY <2>1 DEF SubInv
  <2> QED  BY <2>1, <2>2, <2>3 DEF SubInv
<1>2. CASE ServerEnds
  <2>1. /\ server' = [server EXCEPT !.up = FALSE]
        /\ UNCHANGED <<time, known, lastUptime, probe, before, sub>>
    BY <1>2 DEF ServerEnds, subVars
  <2>2. /\ server' \in [up : BOOLEAN, since : Nat, epoch : Nat]
        /\ server'.since = server.since /\ server'.epoch = server.epoch
    BY <2>1 DEF SubInv
  <2>3. ResubscribedUnlessYoung'
    BY <2>1 DEF SubInv, ResubscribedUnlessYoung
  <2> QED  BY <2>1, <2>2, <2>3 DEF SubInv
<1>3. CASE ServerStarts
  <2>1. /\ server' = [up |-> TRUE, since |-> time, epoch |-> server.epoch + 1]
        /\ UNCHANGED <<time, known, lastUptime, probe, before, sub>>
    BY <1>3 DEF ServerStarts, subVars
  <2>2. /\ server' \in [up : BOOLEAN, since : Nat, epoch : Nat]
        /\ server'.since = time /\ server'.epoch = server.epoch + 1
    BY <2>1 DEF SubInv
  <2>3. ResubscribedUnlessYoung'
    BY <2>1 DEF SubInv, ResubscribedUnlessYoung
  <2>4. probe.epoch \in Nat /\ server.epoch \in Nat /\ probe.epoch =< server.epoch
    BY DEF SubInv
  <2>5. probe.epoch =< server'.epoch
    BY <2>2, <2>4
  <2> QED  BY <2>1, <2>2, <2>3, <2>5 DEF SubInv
<1>4. CASE Subscribed
  <2>1. /\ known' = server.epoch
        /\ UNCHANGED <<time, server, lastUptime, probe, before, sub>>
    BY <1>4 DEF Subscribed
  <2>2. known' \in Nat /\ known' >= probe.epoch
    BY <2>1 DEF SubInv
  <2>3. ResubscribedUnlessYoung'
    BY <2>1, <2>2 DEF ResubscribedUnlessYoung
  <2> QED  BY <2>1, <2>2, <2>3 DEF SubInv
<1>5. CASE EndProbe
  <2> DEFINE uptime == time - server.since
  <2>1. CASE sub' = "poll" /\ UNCHANGED <<before, probe, lastUptime>>
    BY <1>5, <1>u, <2>1 DEF EndProbe
  <2>2. CASE /\ before' = probe
             /\ probe' = [at |-> time, uptime |-> uptime, epoch |-> server.epoch]
             /\ lastUptime' = uptime
             /\ sub' = IF Restarted(uptime) THEN "drop" ELSE "checked"
    <3>1. UNCHANGED <<time, server, known>>
      BY <1>5 DEF EndProbe
    <3>2. /\ time \in Nat /\ server.since \in Nat /\ server.epoch \in Nat /\ server.since =< time
          /\ uptime \in Nat
      BY DEF SubInv
    <3>3. /\ probe' \in [at : Nat, uptime : Nat \cup {Unknown}, epoch : Nat]
          /\ probe'.at = time /\ probe'.uptime = uptime /\ probe'.epoch = server.epoch
      BY <2>2, <3>2
    <3>4. ResubscribedUnlessYoung'
      <4> SUFFICES ASSUME sub' = "checked", before'.uptime > probe'.at - before'.at,
                          before'.epoch # probe'.epoch
                   PROVE  FALSE
        BY DEF ResubscribedUnlessYoung
      <4>1. probe.uptime > time - probe.at /\ probe.epoch # server.epoch
        BY <2>2, <3>3
      <4>2. probe.epoch < server.epoch
        BY <4>1 DEF SubInv
      <4>3. server.since >= probe.at
        BY <4>2 DEF SubInv
      <4>4. probe.at \in Nat /\ probe.at =< time
        BY DEF SubInv
      <4>5. uptime =< time - probe.at
        BY <3>2, <4>3, <4>4
      <4>6. probe.uptime \in Nat \cup {-1}
        BY DEF SubInv, Unknown
      <4>7. uptime < probe.uptime /\ probe.uptime # -1
        BY <3>2, <4>1, <4>4, <4>5, <4>6
      <4>8. Restarted(uptime)
        BY <4>7 DEF Restarted, SubInv, Unknown
      <4> QED  BY <2>2, <4>8
    <3>5. sub' \in {"drop", "checked"}
      BY <2>2
    <3> QED  BY <2>2, <3>1, <3>2, <3>3, <3>4, <3>5 DEF SubInv
  <2> QED  BY <1>5, <2>1, <2>2 DEF EndProbe, Remembered
<1>6. CASE DropSocket
  <2>1. /\ sub' = "create" /\ known' = 0 /\ UNCHANGED <<time, server, lastUptime, probe, before>>
    BY <1>6 DEF DropSocket
  <2>2. ResubscribedUnlessYoung'
    BY <2>1 DEF ResubscribedUnlessYoung
  <2> QED  BY <2>1, <2>2 DEF SubInv
<1>7. CASE CreateSocket
  BY <1>7, <1>u DEF CreateSocket
<1>8. CASE AssignSocket
  BY <1>8, <1>u DEF AssignSocket
<1>9. CASE Checked \/ Poll \/ OpenProbe
  BY <1>9, <1>u DEF Checked, Poll, Return, OpenProbe
<1>10. CASE \/ Request \/ ReceiveTimesOut \/ (\E m \in sent : ServerReplies(m))
            \/ (\E m \in replies : Receive(m)) \/ CloseFlag \/ CloseSockets \/ CloseReturns
            \/ CloseClear \/ UNCHANGED clientVars
  <2>1. UNCHANGED <<time, server, known, lastUptime, probe, before, sub>>
    BY <1>10 DEF Request, ReceiveTimesOut, ServerReplies, Receive, CloseFlag, CloseSockets,
       CloseReturns, CloseClear, clientVars, subVars
  <2> QED  BY <1>u, <2>1
<1> QED  BY <1>1, <1>2, <1>3, <1>4, <1>5, <1>6, <1>7, <1>8, <1>9, <1>10 DEF ClientNext

-----------------------------------------------------------------------------
(* The batch of a request that has not arrived. *)
LEMMA EmptyLength == Len(<<>>) = 0
  OBVIOUS

(* The steps of a request and its thread: what each action does to one.      *)
HttpStep ==
    \/ UNCHANGED <<req, thread, published>> /\ clock' \in Start..End
    \/ \E r \in Reqs, b \in Batches :
          /\ req[r].pc = "idle"
          /\ req' = [req EXCEPT ![r] = [pc |-> "waiting", batch |-> b, reply |-> "none"]]
          /\ thread' = [thread EXCEPT ![r].pc = "pending"]
          /\ UNCHANGED <<clock, published>>
    \/ \E r \in Reqs : \E code \in {"400", "429"} :
          req[r].pc = "idle" /\ Reply(r, code) /\ UNCHANGED <<clock, thread, published>>
    \/ \E r \in Reqs : \E rows :
          /\ thread[r].pc = "pending"
          /\ thread' = [thread EXCEPT ![r] = [pc |-> "prepared", rows |-> rows]]
          /\ UNCHANGED <<clock, req, published>>
    \/ \E r \in Reqs : \E pc \in {"returned", "raised", "timedout"} :
          /\ thread[r].pc = "prepared"
          /\ thread' = [thread EXCEPT ![r].pc = pc]
          /\ UNCHANGED <<clock, req, published>>
    \/ \E r \in Reqs :
          /\ req[r].pc = "waiting" /\ Reply(r, "504")
          /\ thread' = [thread EXCEPT ![r].pc = IF @ = "pending" THEN "cancelled" ELSE @]
          /\ UNCHANGED <<clock, published>>
    \/ \E r \in Reqs :
          /\ req[r].pc = "waiting"
          /\ \/ thread[r].pc = "returned" /\ req' = [req EXCEPT ![r].pc = "broadcast"]
             \/ thread[r].pc = "raised" /\ Reply(r, "500")
             \/ thread[r].pc = "timedout" /\ Reply(r, "504")
          /\ UNCHANGED <<clock, thread, published>>
    \/ \E r \in Reqs : \E n \in Nat :
          /\ req[r].pc = "broadcast" /\ published' = [published EXCEPT ![r] = n]
          /\ Reply(r, "200")
          /\ UNCHANGED <<clock, thread>>

(* What most of the proofs need to know of the constants. *)
LEMMA GatewayNumbers ==
    /\ Limit \in Nat \ {0} /\ MaxKeys \in Nat \ {0} /\ Minute \in Nat \ {0}
    /\ Start \in Nat /\ End \in Nat
    /\ \A b \in Batches \cup ZmqBatches : Len(b) \in Nat
    /\ {"server", "client"} \cap Reqs = {}
BY GatewayAssumption

(* Every step of the gateway is one of HttpStep. *)
LEMMA HttpSteps == HttpTypes /\ (HttpNext \/ UNCHANGED httpVars) => HttpStep
<1> SUFFICES ASSUME HttpTypes, HttpNext \/ UNCHANGED httpVars PROVE HttpStep
  OBVIOUS
<1>1. ASSUME NEW r \in Reqs, NEW a \in Addrs, NEW b \in Batches, Arrive(r, a, b) PROVE HttpStep
  BY <1>1 DEF Arrive, HttpStep
<1>2. ASSUME NEW r \in Reqs, Prepare(r) PROVE HttpStep
  <2>1. \E rows : thread' = [thread EXCEPT ![r] = [pc |-> "prepared", rows |-> rows]]
    BY <1>2 DEF Prepare
  <2> QED  BY <1>2, <2>1 DEF Prepare, HttpStep
<1>3. ASSUME NEW r \in Reqs, Commit(r) PROVE HttpStep
  BY <1>3 DEF Commit, HttpStep
<1>10. ASSUME NEW r \in Reqs, InsertFails(r) PROVE HttpStep
  BY <1>10 DEF InsertFails, HttpStep
<1>4. ASSUME NEW r \in Reqs, TimesOut(r) PROVE HttpStep
  BY <1>4 DEF TimesOut, HttpStep
<1>5. ASSUME NEW r \in Reqs, Resume(r) PROVE HttpStep
  BY <1>5 DEF Resume, HttpStep
<1>6. ASSUME NEW r \in Reqs, Broadcast(r) PROVE HttpStep
  <2>1. Len(req[r].batch) \in Nat
    BY GatewayAssumption, EmptyLength DEF HttpTypes
  <2> QED  BY <1>6, <2>1 DEF Broadcast, HttpStep
<1>7. ASSUME NEW b \in ZmqBatches, ZmqReceive(b) PROVE HttpStep
  <2>1. UNCHANGED <<clock, req, thread, published>>
    BY <1>7 DEF ZmqReceive
  <2> QED  BY <2>1 DEF HttpTypes, HttpStep
<1>8. CASE ZmqCommit \/ UNCHANGED httpVars
  BY <1>8 DEF ZmqCommit, httpVars, HttpTypes, HttpStep
<1>9. CASE Tick
  <2>1. clock' \in Start..End
    BY <1>9, GatewayAssumption DEF Tick, HttpTypes
  <2> QED  BY <1>9, <2>1 DEF Tick, HttpStep
<1> QED  BY <1>1, <1>2, <1>3, <1>4, <1>5, <1>6, <1>7, <1>8, <1>9, <1>10 DEF HttpNext

(* What Reply leaves of the requests. *)
LEMMA ReplyFacts ==
    ASSUME HttpTypes, NEW r \in Reqs, NEW code \in Answers, Reply(r, code)
    PROVE  /\ req' \in [Reqs -> [pc : ReqSteps, batch : Batches \cup {<<>>}, reply : Answers]]
           /\ req'[r].pc = "answered" /\ req'[r].reply = code /\ req'[r].batch = req[r].batch
           /\ \A o \in Reqs : o # r => req'[o] = req[o]
  BY DEF HttpTypes, Reply, ReqSteps

(* What a step does to one request, in the order of HttpStep. *)
StepOf(r) ==
    \/ req'[r] = req[r] /\ thread'[r] = thread[r] /\ published'[r] = published[r]
    \/ /\ req[r].pc = "idle"
       /\ req'[r].pc = "waiting" /\ req'[r].reply = "none"
       /\ thread'[r].pc = "pending" /\ published'[r] = published[r]
    \/ /\ req[r].pc = "idle"
       /\ req'[r].pc = "answered" /\ req'[r].reply \in {"400", "429"}
       /\ thread'[r] = thread[r] /\ published'[r] = published[r]
    \/ /\ thread[r].pc = "pending" /\ thread'[r].pc = "prepared"
       /\ req'[r] = req[r] /\ published'[r] = published[r]
    \/ /\ thread[r].pc = "prepared" /\ thread'[r].pc \in {"returned", "raised", "timedout"}
       /\ thread'[r].rows = thread[r].rows
       /\ req'[r] = req[r] /\ published'[r] = published[r]
    \/ /\ req[r].pc = "waiting" /\ req'[r].pc = "answered" /\ req'[r].reply = "504"
       /\ req'[r].batch = req[r].batch /\ thread'[r].rows = thread[r].rows
       /\ thread'[r].pc = IF thread[r].pc = "pending" THEN "cancelled" ELSE thread[r].pc
       /\ published'[r] = published[r]
    \/ /\ req[r].pc = "waiting" /\ thread[r].pc = "returned"
       /\ req'[r].pc = "broadcast" /\ req'[r].reply = req[r].reply
       /\ req'[r].batch = req[r].batch
       /\ thread'[r] = thread[r] /\ published'[r] = published[r]
    \/ /\ req[r].pc = "waiting" /\ thread[r].pc = "raised"
       /\ req'[r].pc = "answered" /\ req'[r].reply = "500"
       /\ req'[r].batch = req[r].batch
       /\ thread'[r] = thread[r] /\ published'[r] = published[r]
    \/ /\ req[r].pc = "broadcast"
       /\ req'[r].pc = "answered" /\ req'[r].reply = "200"
       /\ req'[r].batch = req[r].batch
       /\ thread'[r] = thread[r]

(* A step keeps the types, and moves one request at most. *)
LEMMA HttpTypesStep ==
    ASSUME HttpTypes, HttpStep
    PROVE  HttpTypes' /\ \A r \in Reqs : StepOf(r)
<1> USE DEF ReqSteps, ThreadSteps, Answers
<1>t. /\ req \in [Reqs -> [pc : ReqSteps, batch : Batches \cup {<<>>}, reply : Answers]]
      /\ thread = [r \in Reqs |-> [pc |-> thread[r].pc, rows |-> thread[r].rows]]
      /\ \A r \in Reqs : thread[r].pc \in ThreadSteps
      /\ published \in [Reqs -> Nat]
      /\ clock \in Start..End
  BY DEF HttpTypes
<1>p. ASSUME NEW r \in Reqs, NEW pc \in ThreadSteps, thread' = [thread EXCEPT ![r].pc = pc]
      PROVE  /\ thread' = [o \in Reqs |-> [pc |-> thread'[o].pc, rows |-> thread'[o].rows]]
             /\ \A o \in Reqs : thread'[o].pc \in ThreadSteps
             /\ thread'[r].pc = pc /\ thread'[r].rows = thread[r].rows
             /\ \A o \in Reqs : o # r => thread'[o] = thread[o]
  <2>1. thread' = [o \in Reqs |-> IF o = r THEN [pc |-> pc, rows |-> thread[r].rows]
                                  ELSE thread[o]]
    BY <1>p, <1>t
  <2> QED  BY <1>t, <2>1
<1>1. CASE UNCHANGED <<req, thread, published>> /\ clock' \in Start..End
  BY <1>1 DEF HttpTypes, StepOf
<1>2. ASSUME NEW r \in Reqs, NEW b \in Batches, req[r].pc = "idle",
             req' = [req EXCEPT ![r] = [pc |-> "waiting", batch |-> b, reply |-> "none"]],
             thread' = [thread EXCEPT ![r].pc = "pending"], UNCHANGED <<clock, published>>
      PROVE  HttpTypes' /\ \A o \in Reqs : StepOf(o)
  <2>1. /\ req' \in [Reqs -> [pc : ReqSteps, batch : Batches \cup {<<>>}, reply : Answers]]
        /\ req'[r].pc = "waiting" /\ req'[r].reply = "none"
        /\ \A o \in Reqs : o # r => req'[o] = req[o]
    BY <1>2, <1>t
  <2>2. HttpTypes'
    BY <1>2, <1>t, <1>p, <2>1 DEF HttpTypes
  <2>3. thread'[r].pc = "pending" /\ \A o \in Reqs : o # r => thread'[o] = thread[o]
    BY <1>2, <1>p
  <2> QED  BY <1>2, <2>1, <2>2, <2>3 DEF StepOf
<1>3. ASSUME NEW r \in Reqs, NEW code \in {"400", "429"}, req[r].pc = "idle", Reply(r, code),
             UNCHANGED <<clock, thread, published>>
      PROVE  HttpTypes' /\ \A o \in Reqs : StepOf(o)
  <2>1. HttpTypes'
    BY <1>3, <1>t, ReplyFacts DEF HttpTypes
  <2> QED  BY <1>3, <2>1, ReplyFacts DEF StepOf
<1>4. ASSUME NEW r \in Reqs, NEW rows, thread[r].pc = "pending",
             thread' = [thread EXCEPT ![r] = [pc |-> "prepared", rows |-> rows]],
             UNCHANGED <<clock, req, published>>
      PROVE  HttpTypes' /\ \A o \in Reqs : StepOf(o)
  <2>1. thread' = [o \in Reqs |-> IF o = r THEN [pc |-> "prepared", rows |-> rows]
                                  ELSE thread[o]]
    BY <1>4, <1>t
  <2>2. /\ thread' = [o \in Reqs |-> [pc |-> thread'[o].pc, rows |-> thread'[o].rows]]
        /\ \A o \in Reqs : thread'[o].pc \in ThreadSteps
        /\ thread'[r].pc = "prepared"
        /\ \A o \in Reqs : o # r => thread'[o] = thread[o]
    BY <1>t, <2>1
  <2>3. HttpTypes'
    BY <1>4, <1>t, <2>2 DEF HttpTypes
  <2> QED  BY <1>4, <2>2, <2>3 DEF StepOf
<1>5. ASSUME NEW r \in Reqs, NEW pc \in {"returned", "raised", "timedout"}, thread[r].pc = "prepared",
             thread' = [thread EXCEPT ![r].pc = pc], UNCHANGED <<clock, req, published>>
      PROVE  HttpTypes' /\ \A o \in Reqs : StepOf(o)
  <2>1. HttpTypes'
    BY <1>5, <1>t, <1>p DEF HttpTypes
  <2> QED  BY <1>5, <1>p, <2>1 DEF StepOf
<1>6. ASSUME NEW r \in Reqs, req[r].pc = "waiting", Reply(r, "504"),
             thread' = [thread EXCEPT ![r].pc = IF @ = "pending" THEN "cancelled" ELSE @],
             UNCHANGED <<clock, published>>
      PROVE  HttpTypes' /\ \A o \in Reqs : StepOf(o)
  <2> DEFINE pc == IF thread[r].pc = "pending" THEN "cancelled" ELSE thread[r].pc
  <2>1. pc \in ThreadSteps /\ thread' = [thread EXCEPT ![r].pc = pc]
    BY <1>6, <1>t
  <2> HIDE DEF pc
  <2>a. /\ thread' = [o \in Reqs |-> [pc |-> thread'[o].pc, rows |-> thread'[o].rows]]
        /\ \A o \in Reqs : thread'[o].pc \in ThreadSteps
    BY <1>p, <2>1
  <2>b. req' \in [Reqs -> [pc : ReqSteps, batch : Batches \cup {<<>>}, reply : Answers]]
    BY <1>6, ReplyFacts
  <2>2. HttpTypes'
    BY <1>6, <1>t, <2>a, <2>b DEF HttpTypes
  <2>3. /\ thread'[r].pc = pc /\ thread'[r].rows = thread[r].rows
        /\ \A o \in Reqs : o # r => thread'[o] = thread[o]
    BY <1>p, <2>1
  <2> QED  BY <1>6, <2>2, <2>3, ReplyFacts DEF StepOf, pc
<1>7. ASSUME NEW r \in Reqs, req[r].pc = "waiting",
             \/ thread[r].pc = "returned" /\ req' = [req EXCEPT ![r].pc = "broadcast"]
             \/ thread[r].pc = "raised" /\ Reply(r, "500")
             \/ thread[r].pc = "timedout" /\ Reply(r, "504"),
             UNCHANGED <<clock, thread, published>>
      PROVE  HttpTypes' /\ \A o \in Reqs : StepOf(o)
  <2>1. CASE thread[r].pc = "returned" /\ req' = [req EXCEPT ![r].pc = "broadcast"]
    <3>1. /\ req' \in [Reqs -> [pc : ReqSteps, batch : Batches \cup {<<>>}, reply : Answers]]
          /\ req'[r].pc = "broadcast" /\ req'[r].reply = req[r].reply
          /\ req'[r].batch = req[r].batch
          /\ \A o \in Reqs : o # r => req'[o] = req[o]
      BY <1>t, <2>1
    <3>2. HttpTypes'
      BY <1>7, <1>t, <3>1 DEF HttpTypes
    <3> QED  BY <1>7, <2>1, <3>1, <3>2 DEF StepOf
  <2>2. CASE thread[r].pc = "raised" /\ Reply(r, "500")
    <3>1. HttpTypes'
      BY <1>7, <1>t, <2>2, ReplyFacts DEF HttpTypes
    <3> QED  BY <1>7, <2>2, <3>1, ReplyFacts DEF StepOf
  <2>3. CASE thread[r].pc = "timedout" /\ Reply(r, "504")
    <3>1. HttpTypes'
      BY <1>7, <1>t, <2>3, ReplyFacts DEF HttpTypes
    <3> QED  BY <1>7, <2>3, <3>1, ReplyFacts DEF StepOf
  <2> QED  BY <1>7, <2>1, <2>2, <2>3
<1>8. ASSUME NEW r \in Reqs, NEW n \in Nat, req[r].pc = "broadcast",
             published' = [published EXCEPT ![r] = n], Reply(r, "200"), UNCHANGED <<clock, thread>>
      PROVE  HttpTypes' /\ \A o \in Reqs : StepOf(o)
  <2>1. published' \in [Reqs -> Nat] /\ \A o \in Reqs : o # r => published'[o] = published[o]
    BY <1>8, <1>t
  <2>2. HttpTypes'
    BY <1>8, <1>t, <2>1, ReplyFacts DEF HttpTypes
  <2> QED  BY <1>8, <2>1, <2>2, ReplyFacts DEF StepOf
<1> QED  BY <1>1, <1>2, <1>3, <1>4, <1>5, <1>6, <1>7, <1>8 DEF HttpStep

(* The coroutine and the thread of a request stay in step. *)
LEMMA ThreadStep ==
    ASSUME HttpTypes, NEW r \in Reqs, ThreadOf(r), StepOf(r)
    PROVE  ThreadOf(r)'
  BY DEF ThreadOf, StepOf, HttpTypes, ReqSteps, ThreadSteps, Answers

-----------------------------------------------------------------------------
(* Rows numbered 1 to n are n rows. *)
LEMMA NumberedRows ==
    ASSUME NEW n \in Nat, NEW f, \A i \in 1..n : f[i].i = i
    PROVE  Cardinality({f[i] : i \in 1..n}) = n
<1> DEFINE S == {f[i] : i \in 1..n}
           g == [i \in 1..n |-> f[i]]
<1>1. g \in Injection(1..n, S)
  BY DEF Injection, IsInjective
<1>2. g \in Surjection(1..n, S)
  BY DEF Surjection
<1>3. ExistsBijection(1..n, S)
  BY <1>1, <1>2 DEF ExistsBijection, Bijection
<1> HIDE DEF S
<1>4. Cardinality(S) = n
  BY <1>3, FS_CountingElements
<1> QED  BY <1>4 DEF S

(* A request's rows reach the table all together, and with its thread's return. *)
LEMMA RowStep ==
    ASSUME HttpTypes, ThreadInv, RowInv, HttpNext \/ UNCHANGED httpVars,
           \A r \in Reqs : StepOf(r)
    PROVE  RowInv'
<1> USE GatewayNumbers DEF ThreadSteps
<1>t. /\ thread = [r \in Reqs |-> [pc |-> thread[r].pc, rows |-> thread[r].rows]]
      /\ \A r \in Reqs : thread[r].pc \in ThreadSteps
  BY DEF HttpTypes
<1>z. \A r \in Reqs : r # "server" /\ r # "client"
  OBVIOUS
(* The table and the rows of the threads stay as they are. *)
<1>u. ASSUME NEW r \in Reqs, UNCHANGED table, ~(thread'[r].pc = "prepared" /\ thread[r].pc = "pending"),
             ~(thread[r].pc = "prepared" /\ thread'[r].pc = "returned")
      PROVE  RowOf(r)'
  <2>1. RowsBy(r)' = RowsBy(r)
    BY <1>u DEF RowsBy
  <2>2. StepOf(r) /\ ThreadOf(r) /\ RowOf(r) /\ thread[r].pc \in ThreadSteps
    BY <1>t DEF ThreadInv, RowInv
  <2>3. thread'[r].pc \in {"prepared", "returned", "raised"} =>
           /\ thread[r].pc \in {"prepared", "returned", "raised"}
           /\ thread'[r].rows = thread[r].rows /\ req'[r].batch = req[r].batch
    BY <1>u, <2>2 DEF StepOf, ThreadOf
  <2>4. thread'[r].pc = "returned" <=> thread[r].pc = "returned"
    BY <1>u, <2>2 DEF StepOf, ThreadOf
  <2> QED  BY <2>1, <2>2, <2>3, <2>4 DEF RowOf
<1>1. ASSUME NEW r \in Reqs, Commit(r) PROVE RowInv'
  <2>1. thread[r].pc = "prepared" /\ UNCHANGED <<zmq, req>>
    BY <1>1 DEF Commit, zmqVars
  <2>2. /\ RowOf(r) /\ RowsBy(r) = {} /\ \A row \in thread[r].rows : row.by = r
        /\ Cardinality(thread[r].rows) = Len(req[r].batch)
    BY <2>1 DEF RowInv, RowOf
  <2>3. ASSUME NEW o \in Reqs, o # r PROVE RowOf(o)'
    <3>1. thread'[o] = thread[o] /\ req'[o] = req[o]
      BY <1>1, <1>t, <2>1, <2>3 DEF Commit
    <3>2. RowsBy(o)' = RowsBy(o)
      BY <1>1, <2>2, <2>3 DEF Commit, RowsBy, Stored
    <3> QED  BY <3>1, <3>2 DEF RowInv, RowOf
  <2>4. RowOf(r)'
    <3>1. CASE Fits(thread[r].rows)
      <4>1. thread'[r].pc = "returned" /\ thread'[r].rows = thread[r].rows
        BY <1>1, <1>t, <3>1 DEF Commit
      <4>2. table' = table \cup thread[r].rows
        BY <1>1, <3>1 DEF Commit, Stored
      <4>3. RowsBy(r)' = thread[r].rows
        BY <2>2, <4>2 DEF RowsBy
      <4> QED  BY <2>1, <2>2, <4>1, <4>3 DEF RowOf
    <3>2. CASE ~Fits(thread[r].rows)
      <4>1. thread'[r].pc = "raised" /\ thread'[r].rows = thread[r].rows
        BY <1>1, <1>t, <3>2 DEF Commit
      <4>2. table' = table
        BY <1>1, <3>2 DEF Commit, Stored
      <4>3. RowsBy(r)' = {}
        BY <2>2, <4>2 DEF RowsBy
      <4> QED  BY <2>1, <2>2, <4>1, <4>3 DEF RowOf
    <3> QED  BY <3>1, <3>2
  <2> QED  BY <2>1, <2>3, <2>4 DEF RowInv
<1>6. ASSUME NEW r \in Reqs, InsertFails(r) PROVE RowInv'
  <2>1. UNCHANGED <<table, zmq, req>> /\ thread[r].pc = "prepared"
    BY <1>6 DEF InsertFails, zmqVars
  <2>2. /\ thread'[r].pc \in {"raised", "timedout"}
        /\ \A o \in Reqs : o # r => thread'[o] = thread[o]
    BY <1>6, <1>t DEF InsertFails
  <2>3. \A o \in Reqs : ~(thread'[o].pc = "prepared" /\ thread[o].pc = "pending")
                         /\ ~(thread[o].pc = "prepared" /\ thread'[o].pc = "returned")
    BY <2>1, <2>2
  <2> QED  BY <1>u, <2>1, <2>3 DEF RowInv
<1>2. ASSUME NEW r \in Reqs, Prepare(r) PROVE RowInv'
  <2> DEFINE b == req[r].batch
             f == [i \in 1..Len(b) |->
                     [series |-> b[i].series,
                      ns |-> IF b[i].stamp.kind = "none" THEN ServerNs(i) ELSE HttpNs(b[i].stamp),
                      by |-> r, i |-> i]]
             rows == {f[i] : i \in 1..Len(b)}
  <2>1. /\ UNCHANGED <<table, zmq, req>> /\ thread[r].pc = "pending"
        /\ thread' = [thread EXCEPT ![r] = [pc |-> "prepared", rows |-> rows]]
    BY <1>2 DEF Prepare, zmqVars
  <2>2. Len(b) \in Nat
    BY EmptyLength DEF HttpTypes
  <2>3. Cardinality(rows) = Len(b)
    <3>1. \A i \in 1..Len(b) : f[i].i = i
      OBVIOUS
    <3> HIDE DEF f, b
    <3> QED  BY <2>2, <3>1, NumberedRows, Zenon
  <2>4. \A row \in rows : row.by = r
    <3>1. \A i \in 1..Len(b) : f[i].by = r
      OBVIOUS
    <3> HIDE DEF f, b
    <3> QED  BY <3>1
  <2> HIDE DEF rows
  <2>5. thread'[r].pc = "prepared" /\ thread'[r].rows = rows
    BY <1>t, <2>1
  <2>6. RowsBy(r)' = {}
    BY <2>1 DEF RowInv, RowOf, RowsBy
  <2>7. RowOf(r)'
    BY <2>1, <2>3, <2>4, <2>5, <2>6 DEF RowOf
  <2>8. \A o \in Reqs : o # r => RowOf(o)'
    <3> SUFFICES ASSUME NEW o \in Reqs, o # r PROVE RowOf(o)'
      OBVIOUS
    <3>1. thread'[o] = thread[o]
      BY <1>t, <2>1
    <3> QED  BY <2>1, <3>1 DEF RowInv, RowOf, RowsBy
  <2> QED  BY <2>1, <2>7, <2>8 DEF RowInv
<1>3. CASE ZmqCommit
  <2>1. /\ zmq' = {} /\ UNCHANGED <<req, thread>>
        /\ \A row : row \in table' => row \in table \/ row \in zmq
        /\ table \subseteq table'
    BY <1>3 DEF ZmqCommit, Stored
  <2>2. \A r \in Reqs : RowsBy(r)' = RowsBy(r)
    BY <1>z, <2>1 DEF RowsBy, RowInv
  <2> QED  BY <2>1, <2>2 DEF RowInv, RowOf
<1>4. ASSUME NEW b \in ZmqBatches, ZmqReceive(b) PROVE RowInv'
  <2>1. UNCHANGED <<table, req, thread>>
    BY <1>4 DEF ZmqReceive
  <2>2. \A row \in zmq' : row.by \in {"server", "client"}
    <3> DEFINE kept == {i \in 1..Len(b) : ZmqAccepts(b[i].stamp)}
               fresh == {i \in kept : b[i].stamp.kind = "none"}
               stamp[i \in 0..Len(b)] ==
                   IF i = 0 THEN lastTs
                   ELSE IF i \in fresh THEN NextStamp(stamp[i - 1]) ELSE stamp[i - 1]
               f(i) == [series |-> b[i].series,
                        ns |-> IF i \in fresh THEN stamp[i] ELSE ZmqNs(b[i].stamp),
                        by |-> IF i \in fresh THEN "server" ELSE "client",
                        i |-> i]
    <3>1. zmq' = {f(i) : i \in kept}
      BY <1>4 DEF ZmqReceive
    <3> HIDE DEF kept, fresh, stamp
    <3>2. \A i \in kept : f(i).by \in {"server", "client"}
      OBVIOUS
    <3> HIDE DEF f
    <3> QED  BY <3>1, <3>2
  <2> QED  BY <2>1, <2>2 DEF RowInv, RowOf, RowsBy
<1>5. CASE \/ \E r \in Reqs, a \in Addrs, b \in Batches : Arrive(r, a, b)
           \/ \E r \in Reqs : TimesOut(r) \/ Resume(r) \/ Broadcast(r)
           \/ Tick \/ UNCHANGED httpVars
  <2>1. UNCHANGED <<table, zmq>>
    BY <1>5 DEF Arrive, TimesOut, Resume, Broadcast, Tick, httpVars, zmqVars
  <2>2. \A r \in Reqs : ~(thread'[r].pc = "prepared" /\ thread[r].pc = "pending")
                         /\ ~(thread[r].pc = "prepared" /\ thread'[r].pc = "returned")
    <3>1. ASSUME NEW q \in Reqs, NEW a \in Addrs, NEW b \in Batches, Arrive(q, a, b),
                 NEW r \in Reqs
          PROVE  thread'[r].pc \in {thread[r].pc, "pending"}
      BY <3>1, <1>t DEF Arrive
    <3>2. ASSUME NEW q \in Reqs, TimesOut(q), NEW r \in Reqs
          PROVE  thread'[r].pc \in {thread[r].pc, "cancelled"}
      BY <3>2, <1>t DEF TimesOut
    <3>3. CASE UNCHANGED thread
      BY <3>3
    <3> QED  BY <1>5, <3>1, <3>2, <3>3 DEF Resume, Broadcast, Tick, httpVars
  <2> QED  BY <1>u, <2>1, <2>2 DEF RowInv
<1> QED  BY <1>1, <1>2, <1>3, <1>4, <1>5, <1>6 DEF HttpNext

-----------------------------------------------------------------------------
(* The rows the server stamps are told apart by their time, and none is      *)
(* later than the last time given.                                           *)
ServerRows == {row \in table \cup zmq : row.by = "server"}

StampInv ==
    /\ lastTs \in Int
    /\ \A row \in ServerRows : row.ns \in Int /\ row.ns =< lastTs
    /\ \A row, other \in ServerRows : row.ns = other.ns => row = other
    /\ ServerStampsDistinct

(* A set of naturals has a least element. *)
LEMMA LeastNatural ==
    ASSUME NEW T \in SUBSET Nat, T # {}
    PROVE  \E x \in T : \A y \in T : x =< y
<1> DEFINE R == OpToRel(<, Nat)
<1>1. IsWellFoundedOn(R, Nat)
  BY NatLessThanWellFounded
<1>2. PICK x \in T : \A y \in T : ~(<<y, x>> \in R)
  <2> HIDE DEF R
  <2> QED  BY <1>1, WFMin
<1>3. \A y \in T : <<y, x>> \in Nat \X Nat /\ ~(y < x)
  BY <1>2 DEF OpToRel
<1> HIDE DEF R
<1>4. \A y \in T : x =< y
  <2> TAKE y \in T
  <2>1. ~(y < x)
    BY <1>3
  <2>2. x \in Nat /\ y \in Nat
    OBVIOUS
  <2> QED  BY <2>1, <2>2
<1> QED  BY <1>4

(* The times to_rows gives the items of a batch, F those without a time of   *)
(* their own: a function that is given by what it is at the item before.     *)
StampAt(F, f, i) ==
    IF i = 0 THEN lastTs ELSE IF i \in F THEN NextStamp(f[i - 1]) ELSE f[i - 1]

(* There is such a function for every batch, by the least length without one. *)
LEMMA StampsExist ==
    ASSUME NEW n \in Nat, NEW F
    PROVE  \E f : f = [i \in 0..n |-> StampAt(F, f, i)]
<1> DEFINE Bad == {m \in Nat : ~\E f : f = [i \in 0..m |-> StampAt(F, f, i)]}
<1> SUFFICES ASSUME n \in Bad PROVE FALSE
  OBVIOUS
<1>1. PICK m \in Bad : \A k \in Bad : m =< k
  BY LeastNatural
<1>2. m # 0
  <2> SUFFICES ASSUME m = 0 PROVE FALSE
    OBVIOUS
  <2> DEFINE f == [i \in 0..0 |-> lastTs]
  <2>1. f = [i \in 0..0 |-> StampAt(F, f, i)]
    BY DEF StampAt
  <2> QED  BY <2>1
<1>3. m - 1 \in Nat /\ m - 1 \notin Bad
  BY <1>1, <1>2
<1>4. PICK g : g = [i \in 0..(m - 1) |-> StampAt(F, g, i)]
  BY <1>3
<1> DEFINE f == [i \in 0..m |-> IF i = m THEN StampAt(F, g, m) ELSE g[i]]
<1>5. ASSUME NEW i \in 0..m PROVE f[i] = StampAt(F, f, i)
  <2>1. CASE i = 0
    <3>1. f[i] = g[i] /\ i \in 0..(m - 1)
      BY <1>2, <1>3, <2>1
    <3>2. g[i] = StampAt(F, g, i)
      BY <1>4, <3>1
    <3> QED  BY <2>1, <3>1, <3>2 DEF StampAt
  <2>2. CASE i # 0
    <3>1. i - 1 \in 0..m /\ i - 1 # m /\ i - 1 \in 0..(m - 1)
      BY <1>3, <2>2
    <3>2. f[i - 1] = g[i - 1]
      BY <3>1
    <3>3. f[i] = StampAt(F, g, i)
      <4>1. i # m => i \in 0..(m - 1) /\ f[i] = g[i]
        BY <1>3
      <4>2. i # m => g[i] = StampAt(F, g, i)
        BY <1>4, <4>1
      <4> QED  BY <4>1, <4>2
    <3> QED  BY <2>2, <3>2, <3>3 DEF StampAt
  <2> QED  BY <2>1, <2>2
<1>6. f = [i \in 0..m |-> StampAt(F, f, i)]
  <2> DEFINE h == [i \in 0..m |-> StampAt(F, f, i)]
  <2>1. \A i \in 0..m : h[i] = f[i]
    BY <1>5
  <2> QED  BY <2>1
<1> QED  BY <1>1, <1>6

(* They never fall along the batch, and rise at every item of F. *)
LEMMA StampsRise ==
    ASSUME NEW n \in Nat, NEW F, NEW f, f = [i \in 0..n |-> StampAt(F, f, i)],
           lastTs \in Int, clock \in Int
    PROVE  \A j \in 0..n : f[j] \in Int
                /\ \A i \in 0..j : f[i] \in Int /\ f[i] =< f[j] /\ (i < j /\ j \in F => f[i] < f[j])
<1> DEFINE Good(j) == f[j] \in Int
                /\ \A i \in 0..j : f[i] \in Int /\ f[i] =< f[j] /\ (i < j /\ j \in F => f[i] < f[j])
           Bad == {j \in 0..n : ~Good(j)}
<1> SUFFICES ASSUME Bad # {} PROVE FALSE
  OBVIOUS
<1>1. PICK j \in Bad : \A k \in Bad : j =< k
  <2>1. Bad \in SUBSET Nat
    OBVIOUS
  <2> HIDE DEF Bad
  <2> QED  BY <2>1, LeastNatural
<1>2. j \in 0..n /\ ~Good(j)
  OBVIOUS
<1>3. f[j] = StampAt(F, f, j)
  BY <1>2
<1>4. j # 0
  <2> SUFFICES ASSUME j = 0 PROVE FALSE
    OBVIOUS
  <2>1. f[0] \in Int
    BY <1>3 DEF StampAt
  <2> QED  BY <1>2, <2>1
<1>5. j - 1 \in 0..n /\ Good(j - 1)
  <2>1. j - 1 \in 0..n
    BY <1>2, <1>4
  <2>2. j - 1 \notin Bad
    <3>1. j \in Int
      BY <1>2
    <3> HIDE DEF Bad
    <3> QED  BY <1>1, <3>1
  <2> QED  BY <2>1, <2>2
<1> HIDE DEF Bad
<1>6. /\ f[j - 1] \in Int /\ f[j] \in Int
      /\ f[j - 1] =< f[j] /\ (j \in F => f[j - 1] < f[j])
  BY <1>3, <1>4, <1>5 DEF StampAt, NextStamp
<1>7. ASSUME NEW i \in 0..j PROVE f[i] \in Int /\ f[i] =< f[j] /\ (i < j /\ j \in F => f[i] < f[j])
  <2>1. CASE i = j
    BY <1>6, <2>1
  <2>2. CASE i # j
    <3>1. i \in 0..(j - 1)
      BY <1>2, <2>2
    <3>2. f[i] \in Int /\ f[i] =< f[j - 1]
      BY <1>5, <3>1
    <3> QED  BY <1>6, <3>2
  <2> QED  BY <2>1, <2>2
<1> QED  BY <1>2, <1>6, <1>7

(* No step of the gateway or the ingest path repeats a server's time. *)
LEMMA StampStep ==
    ASSUME HttpTypes, RowInv, StampInv, HttpNext \/ UNCHANGED httpVars
    PROVE  StampInv'
<1> USE GatewayNumbers
<1>z. \A r \in Reqs : r # "server"
  OBVIOUS
<1>u. ASSUME ServerRows' = ServerRows, UNCHANGED <<lastTs, zmqLost>> PROVE StampInv'
  BY <1>u DEF StampInv, ServerStampsDistinct
<1>1. ASSUME NEW b \in ZmqBatches, ZmqReceive(b) PROVE StampInv'
  <2> DEFINE kept == {i \in 1..Len(b) : ZmqAccepts(b[i].stamp)}
             fresh == {i \in kept : b[i].stamp.kind = "none"}
             stamp[i \in 0..Len(b)] ==
                 IF i = 0 THEN lastTs
                 ELSE IF i \in fresh THEN NextStamp(stamp[i - 1]) ELSE stamp[i - 1]
             f(i) == [series |-> b[i].series,
                      ns |-> IF i \in fresh THEN stamp[i] ELSE ZmqNs(b[i].stamp),
                      by |-> IF i \in fresh THEN "server" ELSE "client",
                      i |-> i]
  <2>1. /\ zmq = {} /\ zmq' = {f(i) : i \in kept} /\ lastTs' = stamp[Len(b)]
        /\ UNCHANGED <<table, zmqLost>>
    BY <1>1 DEF ZmqReceive
  <2>2. Len(b) \in Nat
    OBVIOUS
  <2>3. kept \subseteq 1..Len(b) /\ fresh \subseteq kept
    OBVIOUS
  <2> HIDE DEF kept, fresh
  <2>4. stamp = [i \in 0..Len(b) |-> StampAt(fresh, stamp, i)]
    <3>1. \E g : g = [i \in 0..Len(b) |-> StampAt(fresh, g, i)]
      BY <2>2, StampsExist
    <3>2. stamp = CHOOSE g : g = [i \in 0..Len(b) |-> StampAt(fresh, g, i)]
      BY Zenon DEF stamp, StampAt
    <3> HIDE DEF stamp
    <3> QED  BY <3>1, <3>2, Zenon
  <2> HIDE DEF stamp
  <2>5. \A j \in 0..Len(b) : stamp[j] \in Int
            /\ \A i \in 0..j : /\ stamp[i] \in Int /\ stamp[i] =< stamp[j]
                               /\ (i < j /\ j \in fresh => stamp[i] < stamp[j])
    <3>1. lastTs \in Int /\ clock \in Int
      BY DEF StampInv, HttpTypes
    <3> QED  BY <2>2, <2>4, <3>1, StampsRise
  <2>6. stamp[0] = lastTs
    BY <2>2, <2>4 DEF StampAt
  <2>7. ASSUME NEW i \in fresh
        PROVE  i \in 0..Len(b) /\ stamp[i] \in Int /\ lastTs < stamp[i] /\ stamp[i] =< lastTs'
    <3>1. i \in 0..Len(b) /\ 0 \in 0..i /\ 0 < i /\ Len(b) \in 0..Len(b) /\ i \in 0..Len(b)
      BY <2>2, <2>3
    <3> QED  BY <2>1, <2>5, <2>6, <3>1
  <2>8. lastTs' \in Int /\ lastTs =< lastTs'
    <3>1. Len(b) \in 0..Len(b) /\ 0 \in 0..Len(b)
      BY <2>2
    <3> QED  BY <2>1, <2>5, <2>6, <3>1
  <2>9. ASSUME NEW i \in fresh, NEW j \in fresh, i # j PROVE stamp[i] # stamp[j]
    <3>1. i \in 0..Len(b) /\ j \in 0..Len(b)
      BY <2>7
    <3>2. CASE i < j
      <4>1. i \in 0..j
        BY <3>1, <3>2
      <4> QED  BY <2>5, <3>1, <3>2, <4>1
    <3>3. CASE j < i
      <4>1. j \in 0..i
        BY <3>1, <3>3
      <4> QED  BY <2>5, <3>1, <3>3, <4>1
    <3> QED  BY <2>9, <3>1, <3>2, <3>3
  <2>a. \A i \in kept : f(i).by = "server" => i \in fresh /\ f(i).ns = stamp[i]
    OBVIOUS
  <2> HIDE DEF f
  <2>b. ASSUME NEW row \in ServerRows'
        PROVE  row \in ServerRows \/ \E i \in fresh : row = f(i) /\ row.ns = stamp[i]
    BY <2>1, <2>a DEF ServerRows
  <2>c. ASSUME NEW row \in ServerRows
        PROVE  row.ns \in Int /\ row.ns =< lastTs
    BY DEF StampInv
  <2>d. \A row \in ServerRows' : row.ns \in Int /\ row.ns =< lastTs'
    <3> TAKE row \in ServerRows'
    <3>1. CASE row \in ServerRows
      <4>1. row.ns \in Int /\ row.ns =< lastTs /\ lastTs \in Int
        BY <2>c, <3>1 DEF StampInv
      <4> QED  BY <2>8, <4>1
    <3>2. CASE \E i \in fresh : row = f(i) /\ row.ns = stamp[i]
      BY <2>7, <3>2
    <3> QED  BY <2>b, <3>1, <3>2
  <2>e. \A row, other \in ServerRows' : row.ns = other.ns => row = other
    <3> SUFFICES ASSUME NEW row \in ServerRows', NEW other \in ServerRows', row.ns = other.ns
                 PROVE  row = other
      OBVIOUS
    <3>0. lastTs \in Int
      BY DEF StampInv
    <3>1. CASE row \in ServerRows /\ other \in ServerRows
      BY <3>1 DEF StampInv
    <3>2. CASE row \in ServerRows /\ \E i \in fresh : other = f(i) /\ other.ns = stamp[i]
      <4>1. PICK i \in fresh : other.ns = stamp[i]
        BY <3>2
      <4>2. stamp[i] \in Int /\ lastTs < stamp[i]
        BY <2>7
      <4>3. row.ns \in Int /\ row.ns =< lastTs
        BY <2>c, <3>2
      <4> QED  BY <3>0, <4>1, <4>2, <4>3
    <3>3. CASE other \in ServerRows /\ \E i \in fresh : row = f(i) /\ row.ns = stamp[i]
      <4>1. PICK i \in fresh : row.ns = stamp[i]
        BY <3>3
      <4>2. stamp[i] \in Int /\ lastTs < stamp[i]
        BY <2>7
      <4>3. other.ns \in Int /\ other.ns =< lastTs
        BY <2>c, <3>3
      <4> QED  BY <3>0, <4>1, <4>2, <4>3
    <3>4. CASE /\ \E i \in fresh : row = f(i) /\ row.ns = stamp[i]
               /\ \E i \in fresh : other = f(i) /\ other.ns = stamp[i]
      BY <2>9, <3>4
    <3> QED  BY <2>b, <3>1, <3>2, <3>3, <3>4
  <2> QED  BY <2>1, <2>8, <2>d, <2>e DEF StampInv, ServerStampsDistinct
<1>2. CASE ZmqCommit
  <2>1. ServerRows' \subseteq ServerRows /\ lastTs' = lastTs
    BY <1>2 DEF ZmqCommit, Stored, ServerRows
  <2>2. zmqLost' = FALSE
    <3>1. \A row \in zmq : ~(row.by = "server" /\ Collides(row, {o \in table \cup zmq : o.by = "server"}))
      <4> SUFFICES ASSUME NEW row \in zmq, row.by = "server",
                          NEW o \in {o \in table \cup zmq : o.by = "server"} \ {row}, o.ns = row.ns
                   PROVE  FALSE
        BY DEF Collides
      <4>1. row \in ServerRows /\ o \in ServerRows /\ o # row
        BY DEF ServerRows
      <4> QED  BY <4>1 DEF StampInv
    <3> QED  BY <1>2, <3>1 DEF ZmqCommit, StampInv, ServerStampsDistinct
  <2> QED  BY <2>1, <2>2 DEF StampInv, ServerStampsDistinct
<1>3. ASSUME NEW r \in Reqs, Commit(r) PROVE StampInv'
  <2>1. \A row \in thread[r].rows : row.by # "server"
    BY <1>3, <1>z DEF Commit, RowInv, RowOf
  <2>2. UNCHANGED <<zmq, lastTs, zmqLost>> /\ table' = table \cup Stored(thread[r].rows)
    BY <1>3 DEF Commit, zmqVars
  <2>3. ServerRows' = ServerRows
    BY <2>1, <2>2 DEF ServerRows, Stored
  <2> QED  BY <1>u, <2>2, <2>3
<1>4. CASE \/ \E r \in Reqs, a \in Addrs, b \in Batches : Arrive(r, a, b)
           \/ \E r \in Reqs : \/ Prepare(r) \/ InsertFails(r)
                              \/ TimesOut(r) \/ Resume(r) \/ Broadcast(r)
           \/ Tick \/ UNCHANGED httpVars
  <2>1. UNCHANGED <<table, zmqVars>>
    BY <1>4 DEF Arrive, Prepare, InsertFails, TimesOut, Resume, Broadcast, Tick, httpVars
  <2> QED  BY <1>u, <2>1 DEF ServerRows, zmqVars
<1> QED  BY <1>1, <1>2, <1>3, <1>4 DEF HttpNext

-----------------------------------------------------------------------------
(* Numbers of seconds near the clock stay below the bound between seconds    *)
(* and nanoseconds.                                                          *)
LEMMA SecondsBelowBig ==
    ASSUME NEW n \in Int, n * NS =< End + MaxSkew * NS
    PROVE  n < Big
<1> USE GatewayAssumption
<1> DEFINE q == End \div NS
<1>1. NS \in Nat \ {0} /\ End \in Nat /\ MaxSkew \in Nat /\ Big \in Nat
  OBVIOUS
<1>2. q \in Nat /\ End < (q + 1) * NS
  BY <1>1
<1>3. q + MaxSkew < Big
  OBVIOUS
<1> HIDE DEF q
<1>4. n * NS < (q + 1) * NS + MaxSkew * NS
  BY <1>1, <1>2
<1>5. (q + 1) * NS + MaxSkew * NS = (q + 1 + MaxSkew) * NS
  BY <1>1, <1>2
<1>6. n * NS < (q + 1 + MaxSkew) * NS
  BY <1>4, <1>5
<1> DEFINE k == q + 1 + MaxSkew
<1>7. k \in Int /\ n * NS < k * NS
  BY <1>1, <1>2, <1>6
<1> HIDE DEF k
<1>8. n < k
  <2> SUFFICES ASSUME n >= k PROVE FALSE
    BY <1>7
  <2> DEFINE d == n - k
  <2>1. d \in Nat /\ n = k + d
    BY <1>7
  <2>2. n * NS = k * NS + d * NS
    BY <1>1, <1>7, <2>1
  <2>3. d * NS >= 0
    BY <1>1, <2>1
  <2> HIDE DEF d
  <2> QED  BY <1>1, <1>7, <2>1, <2>2, <2>3
<1> QED  BY <1>1, <1>2, <1>3, <1>8 DEF k

(* What Near says of an instant: it lies between the clock's bounds, widened *)
(* by the allowed skew, and those lie between Big and MaxInt.                *)
LEMMA NearBounds ==
    ASSUME clock \in Start..End, MaxSkew > 0, NEW ns \in Int, Near(ns)
    PROVE  /\ ns > Big /\ ns =< End + MaxSkew * NS /\ ns < MaxInt /\ ns > 0
           /\ ns >= Start - MaxSkew * NS
<1> USE GatewayAssumption
<1> DEFINE d == MaxSkew * NS
<1>1. d \in Nat
  OBVIOUS
<1>2. Abs(clock - ns) =< d
  BY DEF Near
<1>3. Start - d > Big /\ End + d < MaxInt /\ {Big, MaxInt, Start, End} \subseteq Nat
  OBVIOUS
<1> HIDE DEF d
<1>4. clock - ns =< d /\ ns - clock =< d
  BY <1>1, <1>2, <1>3 DEF Abs
<1>5. ns > Big /\ ns =< End + d /\ ns < MaxInt /\ ns > 0 /\ ns >= Start - d
  BY <1>1, <1>3, <1>4
<1> QED  BY <1>5 DEF d

(* Both paths agree on a time at any instant of the clock. *)
LEMMA SameTime == clock \in Start..End => SameTimeOnBothPaths
<1> USE GatewayAssumption
<1> SUFFICES ASSUME clock \in Start..End, MaxSkew > 0, NEW s \in Stamps,
                    s.kind \in {"int", "float", "digits"} \/ (s.kind = "iso" /\ s.n > Big)
             PROVE  /\ s.kind = "iso" => (ZmqAccepts(s) <=> HttpAccepts(s))
                    /\ s.kind = "digits" => ~(ZmqAccepts(s) /\ HttpAccepts(s))
                    /\ ZmqAccepts(s) /\ HttpAccepts(s) => ZmqNs(s) = HttpNs(s)
                    /\ ZmqAccepts(s) => ZmqNs(s) =< MaxInt
  BY DEF SameTimeOnBothPaths
<1> DEFINE n == s.n
           m == IngestNumber(s)
<1>1. n \in Int /\ NS \in Nat /\ Big \in Nat /\ MaxInt \in Nat
  OBVIOUS
<1>2. n * NS \in Int
  BY <1>1
<1>3. s.kind # "bad" /\ s.kind # "none"
  OBVIOUS
<1>4. ZmqAccepts(s) => m \in Int
  BY <1>1, DatesAssumption DEF ZmqAccepts, IngestReads, IngestNumber
<1>5. ZmqAccepts(s) => ZmqNs(s) =< MaxInt
  <2> SUFFICES ASSUME ZmqAccepts(s) PROVE ZmqNs(s) =< MaxInt
    OBVIOUS
  <2>1. m * NS \in Int
    BY <1>1, <1>4
  <2>2. ZmqNs(s) \in Int
    BY <1>4, <2>1 DEF ZmqNs
  <2>3. Near(ZmqNs(s))
    BY <1>3 DEF ZmqAccepts
  <2>4. ZmqNs(s) < MaxInt
    BY <2>2, <2>3, NearBounds
  <2> QED  BY <1>1, <2>2, <2>4
<1>6. CASE s.kind = "iso"
  <2>1. m = n /\ n > Big /\ IsNs(s)
    BY <1>1, <1>6 DEF IsNs, Abs, IngestNumber
  <2>2. ZmqNs(s) = n /\ HttpNs(s) = n
    BY <1>6, <2>1 DEF ZmqNs, HttpNs
  <2>3. Near(n) => n \in (-MaxInt - 1)..MaxInt
    <3> SUFFICES ASSUME Near(n) PROVE n \in (-MaxInt - 1)..MaxInt
      OBVIOUS
    <3>1. n < MaxInt /\ n > 0
      BY <1>1, NearBounds
    <3> QED  BY <1>1, <3>1
  <2>4. ZmqAccepts(s) <=> Near(n)
    BY <1>3, <1>6, <2>2 DEF ZmqAccepts, IngestReads
  <2>5. HttpAccepts(s) <=> Near(n)
    BY <1>3, <2>2, <2>3 DEF HttpAccepts
  <2> QED  BY <1>5, <1>6, <2>2, <2>4, <2>5
<1>7. CASE s.kind = "digits"
  <2>1. ~(ZmqAccepts(s) /\ HttpAccepts(s))
    <3> SUFFICES ASSUME ZmqAccepts(s), HttpAccepts(s) PROVE FALSE
      OBVIOUS
    <3>1. n \in DOMAIN Dates
      BY <1>7 DEF ZmqAccepts, IngestReads
    <3>2. Near(n * NS)
      BY <1>3, <1>7 DEF HttpAccepts, HttpNs
    <3>3. n * NS >= Start - MaxSkew * NS /\ n * NS =< End + MaxSkew * NS
      BY <1>2, <3>2, NearBounds
    <3>4. n * NS < Start - MaxSkew * NS \/ n * NS > End + MaxSkew * NS
      BY <3>1, DatesAssumption
    <3> DEFINE x == n * NS
               lo == Start - MaxSkew * NS
               hi == End + MaxSkew * NS
    <3>5. x \in Int /\ lo \in Int /\ hi \in Int
      <4>1. MaxSkew * NS \in Int /\ Start \in Int /\ End \in Int
        OBVIOUS
      <4> DEFINE d == MaxSkew * NS
      <4>2. d \in Int /\ lo = Start - d /\ hi = End + d
        BY <4>1
      <4> HIDE DEF d
      <4>3. lo \in Int /\ hi \in Int
        BY <4>1, <4>2
      <4>4. x \in Int
        BY <1>2
      <4> QED  BY <4>3, <4>4
    <3>6. x >= lo /\ x =< hi /\ (x < lo \/ x > hi)
      BY <3>3, <3>4
    <3> HIDE DEF x, lo, hi
    <3> QED  BY <3>5, <3>6
  <2> QED  BY <1>5, <1>7, <2>1
<1>8. CASE s.kind \in {"int", "float"} /\ ~IsNs(s)
  <2>1. ZmqNs(s) = n * NS /\ HttpNs(s) = n * NS
    BY <1>8 DEF ZmqNs, HttpNs, IngestNumber
  <2> QED  BY <1>5, <1>8, <2>1
<1>9. CASE s.kind \in {"int", "float"} /\ IsNs(s)
  <2>1. ZmqNs(s) = n /\ HttpNs(s) = n * NS
    BY <1>9 DEF ZmqNs, HttpNs, IngestNumber
  <2>2. ~(ZmqAccepts(s) /\ HttpAccepts(s))
    <3> SUFFICES ASSUME Near(n), Near(n * NS) PROVE FALSE
      BY <1>3, <2>1 DEF ZmqAccepts, HttpAccepts
    <3>1. n > Big
      BY <1>1, NearBounds
    <3>2. n * NS =< End + MaxSkew * NS
      BY <1>2, NearBounds
    <3>3. n < Big
      BY <1>1, <3>2, SecondsBelowBig
    <3> QED  BY <1>1, <3>1, <3>3
  <2> QED  BY <1>5, <1>9, <2>2
<1> QED  BY <1>6, <1>7, <1>8, <1>9

-----------------------------------------------------------------------------
(* The rate limiter.  Its table has a client's address once, and what it     *)
(* counts for an address that was not evicted in this window is what was let *)
(* through.                                                                  *)
Hits == [addr : Addrs, count : Nat, window : Int]
Unique(h) == \A i, j \in 1..Len(h) : h[i].addr = h[j].addr => i = j

LimiterInv ==
    /\ hits \in Seq(Hits) /\ Unique(hits) /\ Len(hits) =< MaxKeys + 1
    /\ \A i \in 1..Len(hits) : hits[i].window =< Window
    /\ admitted \in [Addrs -> Nat]
    /\ \A a \in Addrs \ forgotten : admitted[a] = Counted(hits, a) /\ admitted[a] =< Limit

(* What a table counts for an address it has, and for one it does not have. *)
LEMMA CountedFacts ==
    ASSUME NEW h, Unique(h), NEW a
    PROVE  /\ a \notin Keys(h) => Counted(h, a) = 0
           /\ \A i \in 1..Len(h) : h[i].addr = a =>
                /\ a \in Keys(h)
                /\ Counted(h, a) = IF h[i].window = Window THEN h[i].count ELSE 0
<1>1. a \notin Keys(h) => Counted(h, a) = 0
  BY DEF Counted
<1>2. ASSUME NEW i \in 1..Len(h), h[i].addr = a
      PROVE  /\ a \in Keys(h)
             /\ Counted(h, a) = IF h[i].window = Window THEN h[i].count ELSE 0
  <2> DEFINE k == CHOOSE j \in 1..Len(h) : h[j].addr = a
  <2>1. k \in 1..Len(h) /\ h[k].addr = a
    BY <1>2
  <2>2. k = i
    BY <1>2, <2>1 DEF Unique
  <2>3. a \in Keys(h)
    BY <1>2 DEF Keys
  <2>4. Counted(h, a) = IF a \in Keys(h) /\ h[k].window = Window THEN h[k].count ELSE 0
    BY DEF Counted
  <2> QED  BY <2>2, <2>3, <2>4
<1> QED  BY <1>1, <1>2

(* The entries of this window among the first n of a table, as a function    *)
(* that is given by what it is for one less.                                 *)
SweptAt(h, f, n) ==
    IF n = 0 THEN << >>
    ELSE IF h[n].window = Window THEN Append(f[n - 1], h[n]) ELSE f[n - 1]

(* There is such a function for every table, as for the stamps. *)
LEMMA SweptExist ==
    ASSUME NEW n \in Nat, NEW h
    PROVE  \E f : f = [i \in 0..n |-> SweptAt(h, f, i)]
<1> DEFINE Bad == {m \in Nat : ~\E f : f = [i \in 0..m |-> SweptAt(h, f, i)]}
<1> SUFFICES ASSUME n \in Bad PROVE FALSE
  OBVIOUS
<1>1. PICK m \in Bad : \A k \in Bad : m =< k
  BY LeastNatural
<1>2. m # 0
  <2> SUFFICES ASSUME m = 0 PROVE FALSE
    OBVIOUS
  <2> DEFINE f == [i \in 0..0 |-> << >>]
  <2>1. f = [i \in 0..0 |-> SweptAt(h, f, i)]
    BY DEF SweptAt
  <2> QED  BY <2>1
<1>3. m - 1 \in Nat /\ m - 1 \notin Bad
  BY <1>1, <1>2
<1>4. PICK g : g = [i \in 0..(m - 1) |-> SweptAt(h, g, i)]
  BY <1>3
<1> DEFINE f == [i \in 0..m |-> IF i = m THEN SweptAt(h, g, m) ELSE g[i]]
<1>5. ASSUME NEW i \in 0..m PROVE f[i] = SweptAt(h, f, i)
  <2>1. CASE i = 0
    <3>1. f[i] = g[i] /\ i \in 0..(m - 1)
      BY <1>2, <1>3, <2>1
    <3>2. g[i] = SweptAt(h, g, i)
      BY <1>4, <3>1
    <3> QED  BY <2>1, <3>1, <3>2 DEF SweptAt
  <2>2. CASE i # 0
    <3>1. i - 1 \in 0..m /\ i - 1 # m /\ i - 1 \in 0..(m - 1)
      BY <1>3, <2>2
    <3>2. f[i - 1] = g[i - 1]
      BY <3>1
    <3>3. f[i] = SweptAt(h, g, i)
      <4>1. i # m => i \in 0..(m - 1) /\ f[i] = g[i]
        BY <1>3
      <4>2. i # m => g[i] = SweptAt(h, g, i)
        BY <1>4, <4>1
      <4> QED  BY <4>1, <4>2
    <3> QED  BY <2>2, <3>2, <3>3 DEF SweptAt
  <2> QED  BY <2>1, <2>2
<1>6. f = [i \in 0..m |-> SweptAt(h, f, i)]
  <2> DEFINE k == [i \in 0..m |-> SweptAt(h, f, i)]
  <2>1. \A i \in 0..m : k[i] = f[i]
    BY <1>5
  <2> QED  BY <2>1
<1> QED  BY <1>1, <1>6

(* s is made of entries of h, each at most once. *)
PartOf(s, h, n) ==
    /\ s \in Seq(Hits) /\ Unique(s)
    /\ \A j \in 1..Len(s) : \E i \in 1..n : s[j] = h[i]

(* Each value of the function is made of entries of the table. *)
LEMMA SweptParts ==
    ASSUME NEW h \in Seq(Hits), Unique(h), NEW f,
           f = [i \in 0..Len(h) |-> SweptAt(h, f, i)]
    PROVE  \A n \in 0..Len(h) : PartOf(f[n], h, n)
<1> DEFINE Bad == {n \in 0..Len(h) : ~PartOf(f[n], h, n)}
<1> SUFFICES ASSUME Bad # {} PROVE FALSE
  OBVIOUS
<1>0. Len(h) \in Nat
  OBVIOUS
<1>1. PICK n \in Bad : \A k \in Bad : n =< k
  <2>1. Bad \in SUBSET Nat
    BY <1>0
  <2> HIDE DEF Bad
  <2> QED  BY <2>1, LeastNatural
<1>2. n \in 0..Len(h) /\ ~PartOf(f[n], h, n) /\ f[n] = SweptAt(h, f, n)
  OBVIOUS
<1>3. n # 0
  <2> SUFFICES ASSUME n = 0 PROVE FALSE
    OBVIOUS
  <2>1. f[n] = << >>
    BY <1>2 DEF SweptAt
  <2> QED  BY <1>2, <2>1 DEF PartOf, Unique
<1>4. n - 1 \in 0..Len(h) /\ PartOf(f[n - 1], h, n - 1)
  <2>1. n - 1 \in 0..Len(h)
    BY <1>0, <1>2, <1>3
  <2>2. n - 1 \notin Bad
    <3>1. n \in Int
      BY <1>2
    <3> HIDE DEF Bad
    <3> QED  BY <1>1, <3>1
  <2> QED  BY <2>1, <2>2
<1> HIDE DEF Bad
<1> DEFINE g == f[n - 1]
<1>5. /\ g \in Seq(Hits) /\ Unique(g) /\ Len(g) \in Nat
      /\ \A j \in 1..Len(g) : \E i \in 1..(n - 1) : g[j] = h[i]
  BY <1>4 DEF PartOf
<1>6. n \in 1..Len(h) /\ h[n] \in Hits
  BY <1>0, <1>2, <1>3
<1>7. f[n] = g \/ f[n] = Append(g, h[n])
  BY <1>2, <1>3 DEF SweptAt
<1> HIDE DEF g
<1>8. CASE f[n] = g
  <2>1. \A j \in 1..Len(g) : \E i \in 1..n : g[j] = h[i]
    BY <1>5, <1>6
  <2> QED  BY <1>2, <1>5, <1>8, <2>1 DEF PartOf
<1>9. CASE f[n] = Append(g, h[n])
  <2> DEFINE s == Append(g, h[n])
  <2>1. /\ s \in Seq(Hits) /\ Len(s) = Len(g) + 1 /\ s[Len(g) + 1] = h[n]
        /\ \A j \in 1..Len(g) : s[j] = g[j]
    BY <1>5, <1>6
  <2> HIDE DEF s
  <2>2. \A j \in 1..Len(s) : \E i \in 1..n : s[j] = h[i]
    <3> TAKE j \in 1..Len(s)
    <3>1. CASE j = Len(g) + 1
      <4>1. n \in 1..n /\ s[j] = h[n]
        BY <1>6, <2>1, <3>1
      <4> QED  BY <4>1
    <3>2. CASE j # Len(g) + 1
      <4>1. j \in 1..Len(g)
        BY <1>5, <2>1, <3>2
      <4>2. PICK i \in 1..(n - 1) : g[j] = h[i]
        BY <1>5, <4>1
      <4>3. i \in 1..n
        BY <1>6
      <4> QED  BY <2>1, <4>1, <4>2, <4>3
    <3> QED  BY <3>1, <3>2
  <2>3. \A j \in 1..Len(g) : g[j].addr # h[n].addr
    BY <1>0, <1>5, <1>6 DEF Unique
  <2>4. Unique(s)
    <3> SUFFICES ASSUME NEW i \in 1..Len(s), NEW j \in 1..Len(s), s[i].addr = s[j].addr
                 PROVE  i = j
      BY DEF Unique
    <3>1. /\ i \in 1..Len(g) \/ i = Len(g) + 1
          /\ j \in 1..Len(g) \/ j = Len(g) + 1
      BY <1>5, <2>1
    <3>2. CASE i \in 1..Len(g) /\ j \in 1..Len(g)
      BY <3>2, <1>5, <2>1 DEF Unique
    <3>3. CASE i \in 1..Len(g) /\ j = Len(g) + 1
      BY <3>3, <2>1, <2>3
    <3>4. CASE i = Len(g) + 1 /\ j \in 1..Len(g)
      BY <3>4, <2>1, <2>3
    <3> QED  BY <3>1, <3>2, <3>3, <3>4
  <2>5. PartOf(s, h, n)
    BY <2>1, <2>2, <2>4 DEF PartOf
  <2> QED  BY <1>2, <1>9, <2>5 DEF s
<1> QED  BY <1>7, <1>8, <1>9

(* The newest entries of a table. *)
LEMMA NewestFacts ==
    ASSUME NEW q \in Seq(Hits), NEW x \in Nat, x =< Len(q)
    PROVE  /\ SubSeq(q, x + 1, Len(q)) \in Seq(Hits)
           /\ Len(SubSeq(q, x + 1, Len(q))) = Len(q) - x
           /\ \A j \in 1..(Len(q) - x) :
                SubSeq(q, x + 1, Len(q))[j] = q[j + x] /\ j + x \in 1..Len(q)
<1>1. Len(q) \in Nat /\ \A j \in 1..(Len(q) - x) : j + x \in 1..Len(q)
  OBVIOUS
<1>2. /\ SubSeq(q, x + 1, Len(q)) \in Seq(Hits)
      /\ Len(SubSeq(q, x + 1, Len(q))) = Len(q) - x
  BY <1>1
<1>3. \A j \in 1..(Len(q) - x) : SubSeq(q, x + 1, Len(q))[j] = q[j + x]
  BY <1>1
<1> QED  BY <1>1, <1>2, <1>3

(* The sweep leaves a bounded part of the table. *)
LEMMA SweptFacts ==
    ASSUME NEW h \in Seq(Hits), Unique(h)
    PROVE  PartOf(Swept(h), h, Len(h)) /\ Len(Swept(h)) =< MaxKeys
<1> USE GatewayNumbers
<1> DEFINE current[n \in 0..Len(h)] ==
              IF n = 0 THEN <<>>
              ELSE IF h[n].window = Window THEN Append(current[n - 1], h[n]) ELSE current[n - 1]
           kept == current[Len(h)]
           excess == Len(kept) - MaxKeys
<1>0. Len(h) \in Nat
  OBVIOUS
<1>m. MaxKeys \in Nat
  OBVIOUS
<1>1. Swept(h) = IF Len(h) <= MaxKeys THEN h
                 ELSE IF excess > 0 THEN SubSeq(kept, excess + 1, Len(kept)) ELSE kept
  BY Zenon DEF Swept
<1>2. current = [n \in 0..Len(h) |-> SweptAt(h, current, n)]
  <2>1. \E f : f = [n \in 0..Len(h) |-> SweptAt(h, f, n)]
    BY <1>0, SweptExist
  <2>2. current = CHOOSE f : f = [n \in 0..Len(h) |-> SweptAt(h, f, n)]
    BY Zenon DEF current, SweptAt
  <2> HIDE DEF current
  <2> QED  BY <2>1, <2>2
<1> HIDE DEF current
<1>3. \A n \in 0..Len(h) : PartOf(current[n], h, n)
  BY <1>2, SweptParts
<1>4. PartOf(kept, h, Len(h))
  BY <1>0, <1>3
<1> HIDE DEF kept
<1>5. kept \in Seq(Hits) /\ Len(kept) \in Nat
  BY <1>4 DEF PartOf
<1>6. CASE Len(h) <= MaxKeys
  BY <1>1, <1>6 DEF PartOf
<1>7. CASE ~(Len(h) <= MaxKeys) /\ excess > 0
  <2> DEFINE s == SubSeq(kept, excess + 1, Len(kept))
  <2>e. excess \in Nat /\ excess =< Len(kept) /\ Len(kept) - excess = MaxKeys
    BY <1>5, <1>7, <1>m
  <2>2. Swept(h) = s
    BY <1>1, <1>7
  <2> HIDE DEF excess
  <2>1. /\ s \in Seq(Hits) /\ Len(s) = MaxKeys
        /\ \A j \in 1..MaxKeys : s[j] = kept[j + excess] /\ j + excess \in 1..Len(kept)
    BY <1>5, <2>e, NewestFacts
  <2> HIDE DEF s
  <2>3. Unique(s)
    <3> SUFFICES ASSUME NEW i \in 1..MaxKeys, NEW j \in 1..MaxKeys, s[i].addr = s[j].addr
                 PROVE  i = j
      BY <2>1 DEF Unique
    <3>1. i + excess = j + excess
      <4>1. /\ i + excess \in 1..Len(kept) /\ j + excess \in 1..Len(kept)
            /\ kept[i + excess].addr = kept[j + excess].addr
        BY <2>1
      <4>2. Unique(kept)
        BY <1>4 DEF PartOf
      <4> QED  BY <4>1, <4>2 DEF Unique
    <3>2. i \in Int /\ j \in Int /\ excess \in Int
      BY <2>e, <1>m
    <3> QED  BY <3>1, <3>2
  <2>4. \A j \in 1..Len(s) : \E i \in 1..Len(h) : s[j] = h[i]
    BY <1>4, <2>1 DEF PartOf
  <2>5. PartOf(s, h, Len(h))
    BY <2>1, <2>3, <2>4 DEF PartOf
  <2>6. Len(s) =< MaxKeys
    BY <2>1, <1>m
  <2> QED  BY <2>2, <2>5, <2>6
<1>8. CASE ~(Len(h) <= MaxKeys) /\ ~(excess > 0)
  BY <1>1, <1>4, <1>5, <1>8
<1> QED  BY <1>6, <1>7, <1>8

(* What is swept is not counted, the rest is counted as before. *)
LEMMA SweptCounts ==
    ASSUME NEW h \in Seq(Hits), Unique(h), NEW s, PartOf(s, h, Len(h)), NEW a
    PROVE  /\ a \in Keys(s) => a \in Keys(h) /\ Counted(s, a) = Counted(h, a)
           /\ a \notin Keys(s) => Counted(s, a) = 0
<1>1. Unique(s)
  BY DEF PartOf
<1>2. ASSUME a \in Keys(s) PROVE a \in Keys(h) /\ Counted(s, a) = Counted(h, a)
  <2>1. PICK j \in 1..Len(s) : s[j].addr = a
    BY <1>2 DEF Keys
  <2>2. PICK i \in 1..Len(h) : s[j] = h[i]
    BY DEF PartOf
  <2>3. h[i].addr = a
    BY <2>1, <2>2
  <2>4. Counted(s, a) = IF s[j].window = Window THEN s[j].count ELSE 0
    BY <1>1, <2>1, CountedFacts
  <2>5. a \in Keys(h) /\ Counted(h, a) = IF h[i].window = Window THEN h[i].count ELSE 0
    BY <2>3, CountedFacts
  <2> QED  BY <2>2, <2>4, <2>5
<1> QED  BY <1>1, <1>2, CountedFacts

(* A request let through is counted for its address, and for no other. *)
LEMMA RecordedFacts ==
    ASSUME NEW s \in Seq(Hits), Unique(s), NEW a \in Addrs, Window \in Int,
           Counted(s, a) \in Nat, \A i \in 1..Len(s) : s[i].window =< Window
    PROVE  /\ Recorded(s, a) \in Seq(Hits) /\ Unique(Recorded(s, a))
           /\ Len(Recorded(s, a)) =< Len(s) + 1
           /\ \A i \in 1..Len(Recorded(s, a)) : Recorded(s, a)[i].window =< Window
           /\ Counted(Recorded(s, a), a) = Counted(s, a) + 1
           /\ \A o : o # a => Counted(Recorded(s, a), o) = Counted(s, o)
<1> DEFINE e == [addr |-> a, count |-> Counted(s, a) + 1, window |-> Window]
           q == Recorded(s, a)
<1>0. Len(s) \in Nat /\ \A i \in 1..Len(s) : s[i] \in Hits
  OBVIOUS
<1>1. e \in Hits /\ e.addr = a /\ e.count = Counted(s, a) + 1 /\ e.window = Window
  BY DEF Hits
<1>2. q = IF a \in Keys(s) THEN [i \in 1..Len(s) |-> IF s[i].addr = a THEN e ELSE s[i]]
                           ELSE Append(s, e)
  BY DEF Recorded
<1> HIDE DEF e, q
(* Where the entry goes, and that the others stay. *)
<1>3. \E k \in 1..Len(q) :
        /\ q \in Seq(Hits) /\ Len(q) \in {Len(s), Len(s) + 1} /\ q[k] = e
        /\ \A i \in 1..Len(q) : i # k => i \in 1..Len(s) /\ q[i] = s[i] /\ s[i].addr # a
        /\ \A i \in 1..Len(s) : i # k => i \in 1..Len(q) /\ q[i] = s[i]
        /\ k \in 1..Len(s) => s[k].addr = a
  <2>1. CASE a \in Keys(s)
    <3>1. PICK k \in 1..Len(s) : s[k].addr = a
      BY <2>1 DEF Keys
    <3>2. q = [i \in 1..Len(s) |-> IF s[i].addr = a THEN e ELSE s[i]]
      BY <2>1, <1>2
    <3>3. q \in Seq(Hits) /\ Len(q) = Len(s)
      BY <3>2, <1>0, <1>1
    <3>4. \A i \in 1..Len(s) : i # k => s[i].addr # a
      BY <3>1 DEF Unique
    <3>5. \A i \in 1..Len(s) : q[i] = IF i = k THEN e ELSE s[i]
      BY <3>1, <3>2, <3>4
    <3>6. k \in 1..Len(q) /\ q[k] = e /\ Len(q) \in {Len(s), Len(s) + 1}
      BY <3>1, <3>3, <3>5
    <3>7. \A i \in 1..Len(q) : i # k => i \in 1..Len(s) /\ q[i] = s[i] /\ s[i].addr # a
      BY <3>3, <3>4, <3>5
    <3>8. \A i \in 1..Len(s) : i # k => i \in 1..Len(q) /\ q[i] = s[i]
      BY <3>3, <3>5
    <3> QED  BY <3>1, <3>3, <3>6, <3>7, <3>8
  <2>2. CASE a \notin Keys(s)
    <3>1. q = Append(s, e)
      BY <2>2, <1>2
    <3>2. /\ q \in Seq(Hits) /\ Len(q) = Len(s) + 1 /\ q[Len(s) + 1] = e
          /\ \A i \in 1..Len(s) : q[i] = s[i]
      BY <3>1, <1>0, <1>1
    <3>3. \A i \in 1..Len(s) : s[i].addr # a
      BY <2>2 DEF Keys
    <3>4. Len(s) + 1 \in 1..Len(q) /\ Len(s) + 1 \notin 1..Len(s)
      BY <3>2, <1>0
    <3>5. \A i \in 1..Len(q) : i # Len(s) + 1 => i \in 1..Len(s)
      BY <3>2, <1>0
    <3>6. \A i \in 1..Len(s) : i \in 1..Len(q)
      BY <3>2, <1>0
    <3> QED  BY <3>2, <3>3, <3>4, <3>5, <3>6
  <2> QED  BY <2>1, <2>2
<1>4. PICK k \in 1..Len(q) :
        /\ q \in Seq(Hits) /\ Len(q) \in {Len(s), Len(s) + 1} /\ q[k] = e
        /\ \A i \in 1..Len(q) : i # k => i \in 1..Len(s) /\ q[i] = s[i] /\ s[i].addr # a
        /\ \A i \in 1..Len(s) : i # k => i \in 1..Len(q) /\ q[i] = s[i]
        /\ k \in 1..Len(s) => s[k].addr = a
  BY <1>3
<1>5. Unique(q)
  BY <1>1, <1>4 DEF Unique
<1>6. Len(q) =< Len(s) + 1 /\ \A i \in 1..Len(q) : q[i].window =< Window
  <2>1. Len(q) =< Len(s) + 1
    BY <1>0, <1>4
  <2>2. ASSUME NEW i \in 1..Len(q) PROVE q[i].window =< Window
    <3>1. CASE i = k
      BY <3>1, <1>1, <1>4
    <3>2. CASE i # k
      BY <3>2, <1>4
    <3> QED  BY <3>1, <3>2
  <2> QED  BY <2>1, <2>2
<1>7. Counted(q, a) = Counted(s, a) + 1
  BY <1>1, <1>4, <1>5, CountedFacts
<1>8. ASSUME NEW o, o # a PROVE Counted(q, o) = Counted(s, o)
  <2>1. CASE o \in Keys(s)
    <3>1. PICK i \in 1..Len(s) : s[i].addr = o
      BY <2>1 DEF Keys
    <3>2. i # k
      BY <3>1, <1>4, <1>8
    <3>3. i \in 1..Len(q) /\ q[i] = s[i] /\ q[i].addr = o
      BY <3>1, <3>2, <1>4
    <3>4. Counted(s, o) = IF s[i].window = Window THEN s[i].count ELSE 0
      BY <3>1, CountedFacts
    <3>5. Counted(q, o) = IF q[i].window = Window THEN q[i].count ELSE 0
      BY <3>3, <1>5, CountedFacts
    <3> QED  BY <3>3, <3>4, <3>5
  <2>2. CASE o \notin Keys(s)
    <3>1. o \notin Keys(q)
      <4> SUFFICES ASSUME NEW i \in 1..Len(q), q[i].addr = o PROVE FALSE
        BY DEF Keys
      <4>1. i # k
        BY <1>1, <1>4, <1>8
      <4>2. i \in 1..Len(s) /\ s[i].addr = o
        BY <4>1, <1>4
      <4> QED  BY <4>2, <2>2 DEF Keys
    <3> QED  BY <2>2, <3>1, <1>5, CountedFacts
  <2> QED  BY <2>1, <2>2
<1> QED  BY <1>4, <1>5, <1>6, <1>7, <1>8 DEF q

(* A later instant is in the same window or in a later one. *)
LEMMA WindowRises ==
    ASSUME NEW c \in Nat, NEW m \in Nat \ {0}
    PROVE  /\ c \div m \in Nat /\ (c + 1) \div m \in Nat
           /\ c \div m =< (c + 1) \div m
OBVIOUS

(* A count is a number. *)
LEMMA CountedNat ==
    ASSUME NEW h \in Seq(Hits), Unique(h), NEW a
    PROVE  Counted(h, a) \in Nat
<1>1. CASE a \in Keys(h)
  <2>1. PICK i \in 1..Len(h) : h[i].addr = a
    BY <1>1 DEF Keys
  <2>2. h[i] \in Hits
    OBVIOUS
  <2>3. h[i].count \in Nat
    BY <2>2 DEF Hits
  <2> QED  BY <2>1, <2>3, CountedFacts
<1>2. CASE a \notin Keys(h)
  BY <1>2, CountedFacts
<1> QED  BY <1>1, <1>2

(* Each step of the gateway keeps the limiter's count. *)
LEMMA LimiterStep ==
    ASSUME HttpTypes, LimiterInv, HttpNext \/ UNCHANGED httpVars
    PROVE  LimiterInv'
<1> USE GatewayNumbers
<1>c. clock \in Nat /\ Window \in Nat /\ Window \in Int
  <2>1. clock \in Nat
    BY DEF HttpTypes
  <2> QED  BY <2>1, WindowRises DEF Window
<1>i. /\ hits \in Seq(Hits) /\ Unique(hits) /\ Len(hits) =< MaxKeys + 1
      /\ \A i \in 1..Len(hits) : hits[i].window =< Window
      /\ admitted \in [Addrs -> Nat]
      /\ \A a \in Addrs \ forgotten : admitted[a] = Counted(hits, a) /\ admitted[a] =< Limit
  BY DEF LimiterInv
<1>1. CASE UNCHANGED <<clock, hits, admitted, forgotten>>
  <2>1. Window' = Window /\ \A a : Counted(hits, a)' = Counted(hits, a)
    BY <1>1 DEF Window, Counted, Keys
  <2>2. UNCHANGED <<hits, admitted, forgotten>>
    BY <1>1
  <2> QED  BY <2>1, <2>2, <1>i DEF LimiterInv, Unique, Hits
<1>2. ASSUME NEW r \in Reqs, NEW a \in Addrs, NEW b \in Batches, Arrive(r, a, b)
      PROVE  LimiterInv'
  <2> DEFINE s == Swept(hits)
  <2>1. PartOf(s, hits, Len(hits)) /\ Len(s) =< MaxKeys
    BY <1>i, SweptFacts
  <2>2. /\ forgotten' = forgotten \cup {k \in Keys(hits) \ Keys(s) : Counted(hits, k) > 0}
        /\ clock' = clock
        /\ \/ /\ Allowed(s, a)
              /\ hits' = Recorded(s, a)
              /\ admitted' = [admitted EXCEPT ![a] = @ + 1]
           \/ hits' = s /\ admitted' = admitted
    BY <1>2 DEF Arrive
  <2> HIDE DEF s
  <2>3. s \in Seq(Hits) /\ Unique(s) /\ Len(s) \in Nat
    BY <2>1 DEF PartOf
  <2>4. \A i \in 1..Len(s) : s[i].window =< Window
    BY <2>1, <1>i DEF PartOf
  <2>5. ASSUME NEW o \in Addrs, o \notin forgotten'
        PROVE  admitted[o] = Counted(s, o) /\ admitted[o] =< Limit /\ o \notin forgotten
    <3>1. o \notin forgotten /\ ~(o \in Keys(hits) \ Keys(s) /\ Counted(hits, o) > 0)
      BY <2>2, <2>5
    <3>2. admitted[o] = Counted(hits, o) /\ admitted[o] =< Limit
      BY <3>1, <1>i
    <3>3. Counted(hits, o) \in Nat
      BY <1>i, CountedNat
    <3>4. CASE o \in Keys(s)
      BY <3>1, <3>2, <3>4, <2>1, <1>i, SweptCounts
    <3>5. CASE o \notin Keys(s)
      <4>1. Counted(s, o) = 0
        BY <3>5, <2>1, <1>i, SweptCounts
      <4>2. Counted(hits, o) = 0
        BY <3>1, <3>3, <3>5, <1>i, CountedFacts
      <4> QED  BY <3>1, <3>2, <4>1, <4>2
    <3> QED  BY <3>4, <3>5
  <2>w. Window' = Window
    BY <2>2 DEF Window
  <2>6. CASE hits' = s /\ admitted' = admitted
    <3>1. \A o \in Addrs \ forgotten' : admitted'[o] = Counted(s, o) /\ admitted'[o] =< Limit
      BY <2>5, <2>6
    <3>2. \A o : Counted(hits, o)' = Counted(s, o)
      BY <2>2, <2>6 DEF Window, Counted, Keys
    <3>3. Len(s) =< MaxKeys + 1
      BY <2>1, <2>3
    <3> QED  BY <3>1, <3>2, <3>3, <2>3, <2>4, <2>6, <2>w, <1>i DEF LimiterInv, Unique, Hits
  <2>7. CASE /\ Allowed(s, a) /\ hits' = Recorded(s, a)
             /\ admitted' = [admitted EXCEPT ![a] = @ + 1]
    <3> DEFINE q == Recorded(s, a)
    <3>n. Counted(s, a) \in Nat
      BY <2>3, CountedNat
    <3>1. /\ q \in Seq(Hits) /\ Unique(q) /\ Len(q) =< Len(s) + 1
          /\ \A i \in 1..Len(q) : q[i].window =< Window
          /\ Counted(q, a) = Counted(s, a) + 1
          /\ \A o : o # a => Counted(q, o) = Counted(s, o)
      BY <2>3, <2>4, <3>n, <1>c, RecordedFacts
    <3>2. hits' = q
      BY <2>7
    <3> HIDE DEF q
    <3>3. \A o : Counted(hits, o)' = Counted(q, o)
      BY <2>2, <3>2 DEF Window, Counted, Keys
    <3>4. admitted' \in [Addrs -> Nat]
      <4>1. admitted \in [Addrs -> Nat]
        BY <1>i
      <4>2. \A o \in Addrs : admitted[o] + 1 \in Nat
        BY <4>1
      <4> QED  BY <2>7, <4>1, <4>2
    <3>5. ASSUME NEW o \in Addrs \ forgotten'
          PROVE  admitted'[o] = Counted(q, o) /\ admitted'[o] =< Limit
      <4>1. admitted[o] = Counted(s, o) /\ admitted[o] =< Limit
        BY <2>5, <3>5
      <4>2. CASE o = a
        <5>1. admitted'[o] = admitted[o] + 1
          BY <2>7, <4>2, <1>i
        <5>2. Counted(s, a) = 0 \/ Counted(s, a) < Limit
          BY <2>7 DEF Allowed
        <5> QED  BY <3>1, <3>n, <4>1, <4>2, <5>1, <5>2
      <4>3. CASE o # a
        <5>1. admitted'[o] = admitted[o]
          BY <2>7, <4>3, <1>i
        <5> QED  BY <3>1, <4>1, <4>3, <5>1
      <4> QED  BY <4>2, <4>3
    <3>6. Len(q) =< MaxKeys + 1
      <4>1. Len(q) \in Nat
        BY <3>1
      <4> QED  BY <3>1, <4>1, <2>1, <2>3
    <3> QED  BY <3>1, <3>2, <3>3, <3>4, <3>5, <3>6, <2>w DEF LimiterInv, Unique, Hits
  <2> QED  BY <2>2, <2>6, <2>7
(* In a new window no entry counts, and nothing was let through yet. *)
<1>3. CASE Tick
  <2>1. hits' = hits /\ clock' = clock + 1
    BY <1>3 DEF Tick
  <2>2. Window' = (clock + 1) \div Minute
    BY <2>1 DEF Window
  <2>3. Window' \in Nat /\ Window =< Window'
    BY <2>2, <1>c, WindowRises DEF Window
  <2>4. \A i \in 1..Len(hits) : hits[i].window \in Int /\ hits[i].window =< Window'
    <3>1. \A i \in 1..Len(hits) : hits[i] \in Hits
      BY <1>i
    <3>2. \A i \in 1..Len(hits) : hits[i].window \in Int
      BY <3>1 DEF Hits
    <3>3. \A i \in 1..Len(hits) : hits[i].window =< Window
      BY <1>i
    <3>4. Window \in Int /\ Window' \in Int
      BY <2>3, <1>c
    <3> QED  BY <3>2, <3>3, <3>4, <2>3
  <2>5. CASE Window' = Window
    <3>1. UNCHANGED <<admitted, forgotten>>
      BY <1>3, <2>2, <2>5 DEF Tick
    <3>2. \A a : Counted(hits, a)' = Counted(hits, a)
      BY <2>1, <2>5 DEF Counted, Keys
    <3> QED  BY <3>1, <3>2, <2>1, <2>5, <1>i DEF LimiterInv, Unique, Hits
  <2>6. CASE Window' # Window
    <3>1. admitted' = [a \in Addrs |-> 0] /\ forgotten' = {}
      BY <1>3, <2>2, <2>6 DEF Tick
    <3>2. ASSUME NEW i \in 1..Len(hits) PROVE hits[i].window # Window'
      <4>1. hits[i].window =< Window /\ hits[i].window \in Int
        BY <2>4, <1>i
      <4>2. Window \in Int /\ Window' \in Int /\ Window < Window'
        BY <2>3, <2>6, <1>c
      <4> QED  BY <4>1, <4>2
    <3>3. ASSUME NEW a PROVE Counted(hits, a)' = 0
      <4> DEFINE k == CHOOSE i \in 1..Len(hits) : hits[i].addr = a
      <4>1. Counted(hits, a)' = IF a \in Keys(hits) /\ hits[k].window = Window' THEN hits[k].count ELSE 0
        BY <2>1 DEF Counted, Keys
      <4>2. a \in Keys(hits) => k \in 1..Len(hits)
        BY DEF Keys
      <4> QED  BY <3>2, <4>1, <4>2
    <3>4. admitted' \in [Addrs -> Nat]
      BY <3>1
    <3>5. \A a \in Addrs : admitted'[a] = Counted(hits, a)' /\ admitted'[a] =< Limit
      BY <3>1, <3>3
    <3>6. \A i \in 1..Len(hits') : hits'[i].window =< Window'
      BY <2>1, <2>4
    <3>7. hits' \in Seq(Hits) /\ Unique(hits)' /\ Len(hits') =< MaxKeys + 1
      BY <2>1, <1>i DEF Unique
    <3> QED  BY <3>4, <3>5, <3>6, <3>7 DEF LimiterInv, Hits
  <2> QED  BY <2>5, <2>6
<1> QED
  BY <1>1, <1>2, <1>3
     DEF HttpNext, Prepare, Commit, InsertFails, TimesOut, Resume, Broadcast, ZmqReceive, ZmqCommit,
         limiterVars, httpVars

-----------------------------------------------------------------------------
ClientInv == AskTypes /\ FlightInv /\ OwnReply /\ CloseInv /\ SubInv
HttpInv == HttpTypes /\ ThreadInv /\ RowInv /\ StampInv /\ LimiterInv

(* The first states satisfy both invariants ... *)
LEMMA ClientInvInit == ClientInit => ClientInv
<1> SUFFICES ASSUME ClientInit PROVE ClientInv
  OBVIOUS
<1> USE DEF ClientInit, Nothing, Sub, Probe, Unknown, NoProbe
<1>1. AskTypes /\ FlightInv /\ OwnReply
  BY DEF AskTypes, FlightInv, OwnReply
<1>2. CloseInv
  <2>1. sockets = {1} /\ sub = "poll" /\ closer = "idle" /\ ask.pc = "idle"
    OBVIOUS
  <2>2. held \in BOOLEAN /\ raced \in BOOLEAN /\ closing \in BOOLEAN
    OBVIOUS
  <2> HIDE DEF ClientInit
  <2> QED  BY <2>1, <2>2 DEF CloseInv
<1>3. SubInv
  BY DEF SubInv, ResubscribedUnlessYoung
<1> QED  BY <1>1, <1>2, <1>3 DEF ClientInv

(* ... of the client and of the gateway ... *)
LEMMA HttpInvInit == HttpInit => HttpInv
<1> SUFFICES ASSUME HttpInit PROVE HttpInv
  OBVIOUS
<1> USE GatewayAssumption DEF HttpInit, NoReq, NoThread
<1>1. HttpTypes
  BY DEF HttpTypes, ReqSteps, ThreadSteps, Answers
<1>2. ThreadInv
  BY DEF ThreadInv, ThreadOf
<1>3. RowInv
  BY DEF RowInv, RowOf, RowsBy
<1>4. StampInv
  BY DEF StampInv, ServerRows, ServerStampsDistinct
<1>5. LimiterInv
  <2>1. hits = << >> /\ admitted = [a \in Addrs |-> 0] /\ Len(hits) = 0
    OBVIOUS
  <2>2. Unique(hits) /\ Keys(hits) = {}
    BY <2>1 DEF Unique, Keys
  <2>3. \A a : Counted(hits, a) = 0
    BY <2>2, CountedFacts
  <2> QED  BY <2>1, <2>2, <2>3 DEF LimiterInv
<1> QED  BY <1>1, <1>2, <1>3, <1>4, <1>5 DEF HttpInv

(* ... each step of the client keeps its own ... *)
LEMMA ClientInvStep == ClientInv /\ (ClientNext \/ UNCHANGED clientVars) => ClientInv'
  BY AskStep, OwnReplyStep, CloseStep, SubStep DEF ClientInv

(* ... as does each step of the gateway ... *)
LEMMA HttpInvStep == HttpInv /\ (HttpNext \/ UNCHANGED httpVars) => HttpInv'
<1> SUFFICES ASSUME HttpInv, HttpNext \/ UNCHANGED httpVars PROVE HttpInv'
  OBVIOUS
<1>1. HttpTypes /\ ThreadInv /\ RowInv /\ StampInv /\ LimiterInv
  BY DEF HttpInv
<1>2. HttpTypes' /\ \A r \in Reqs : StepOf(r)
  BY <1>1, HttpSteps, HttpTypesStep
<1>3. ThreadInv'
  BY <1>1, <1>2, ThreadStep DEF ThreadInv
<1>4. RowInv'
  BY <1>1, <1>2, RowStep
<1>5. StampInv'
  BY <1>1, StampStep
<1>6. LimiterInv'
  BY <1>1, LimiterStep
<1> QED  BY <1>2, <1>3, <1>4, <1>5, <1>6 DEF HttpInv

(* ... and both hold always. *)
LEMMA ClientAlways == ClientSpec => []ClientInv
<1>1. ClientInv /\ [ClientNext]_clientVars => ClientInv'
  BY ClientInvStep
<1> QED  BY <1>1, ClientInvInit, PTL DEF ClientSpec

LEMMA HttpAlways == HttpSpec => []HttpInv
<1>1. HttpInv /\ [HttpNext]_httpVars => HttpInv'
  BY HttpInvStep
<1> QED  BY <1>1, HttpInvInit, PTL DEF HttpSpec

(* query, aggregate and admin return the answer to their own request or none, *)
(* and after a timeout the next call finds a socket it can use.               *)
THEOREM RepliesAlwaysOwn == ClientSpec => []OwnReply
<1>1. ClientInv => OwnReply
  BY DEF ClientInv
<1> QED  BY <1>1, ClientAlways, PTL

(* The iterator's probe notices every restart of a server that had been up    *)
(* longer than the time between two probes, however many restarts there were. *)
THEOREM RestartsNoticedUnlessYoung == ClientSpec => []ResubscribedUnlessYoung
<1>1. ClientInv => ResubscribedUnlessYoung
  BY DEF ClientInv, SubInv
<1> QED  BY <1>1, ClientAlways, PTL

(* With the iterator at its end, no socket keeps close in term, unless the    *)
(* iterator's new socket became _sub_sock after close had cleared it.         *)
THEOREM CloseNeverHeldUp == ClientSpec => []CloseReturnsUnlessRaced
<1>1. ClientInv => CloseReturnsUnlessRaced
  <2> SUFFICES ASSUME CloseInv, closer = "term", sub = "ended", ~raced PROVE sockets = {}
    BY DEF ClientInv, CloseReturnsUnlessRaced
  <2>1. sockets \subseteq {Sub, Probe} /\ Probe \notin sockets /\ Sub \notin sockets
    BY DEF CloseInv
  <2> QED  BY <2>1
<1> QED  BY <1>1, ClientAlways, PTL

(* The write route's reply is true of the whole batch, now and later, for any *)
(* interleaving of requests, timeouts, threads and ingest batches.            *)
THEOREM RepliesAlwaysTruthful == HttpSpec => []ReplyTruthful
<1>1. HttpInv => ReplyTruthful
  <2> SUFFICES ASSUME HttpInv, NEW r \in Reqs
               PROVE  /\ RowsOf(r) \in {0, Len(req[r].batch)}
                      /\ req[r].reply = "200" => RowsOf(r) = Len(req[r].batch)
                      /\ req[r].reply \in {"429", "400", "500"} =>
                            RowsOf(r) = 0 /\ thread[r].pc \in {"none", "raised"}
                      /\ published[r] > 0 => RowsOf(r) = Len(req[r].batch)
    BY DEF ReplyTruthful
  <2>1. ThreadOf(r) /\ RowOf(r)
    BY DEF HttpInv, ThreadInv, RowInv
  <2>2. RowsOf(r) = Cardinality(RowsBy(r))
    BY DEF RowsOf, RowsBy
  <2>3. thread[r].pc = "returned" => RowsOf(r) = Len(req[r].batch)
    BY <2>1, <2>2 DEF RowOf
  <2>4. thread[r].pc # "returned" => RowsOf(r) = 0
    BY <2>1, <2>2, FS_EmptySet DEF RowOf
  <2> QED  BY <2>1, <2>3, <2>4 DEF ThreadOf
<1> QED  BY <1>1, HttpAlways, PTL

(* A time that HTTP and ZeroMQ both accept is stored as the same nanosecond,  *)
(* and none is accepted that would overflow a 64-bit integer.  A text of      *)
(* digits, seconds to HTTP and a date to ZeroMQ, is refused by one of them.   *)
THEOREM TimesAlwaysAgree == HttpSpec => []SameTimeOnBothPaths
<1>1. HttpInv => SameTimeOnBothPaths
  BY SameTime DEF HttpInv, HttpTypes
<1> QED  BY <1>1, HttpAlways, PTL

(* Rows that to_rows stamps never collide with each other, whatever the size  *)
(* of the batches and however little the clock moves.                         *)
THEOREM ServerStampsAlwaysDistinct == HttpSpec => []ServerStampsDistinct
<1>1. HttpInv => ServerStampsDistinct
  BY DEF HttpInv, StampInv
<1> QED  BY <1>1, HttpAlways, PTL

(* The rate limiter lets no address more through in a window than its limit, *)
(* unless its count was evicted, and its table of counts stays bounded, for  *)
(* every limit, window and size of the table.                                *)
THEOREM LimitAlwaysUnlessEvicted == HttpSpec => []LimitUnlessEvicted
<1>1. HttpInv => LimitUnlessEvicted
  BY DEF HttpInv, LimiterInv, LimitUnlessEvicted
<1> QED  BY <1>1, HttpAlways, PTL
=============================================================================
