------------------------------- MODULE Client -------------------------------
(***************************************************************************)
(* The Python client (client.py): the REQ socket of query, aggregate and   *)
(* admin with its reset after a timeout, the subscribe iterator with its   *)
(* detection of server restarts, and close called from another thread.     *)
(* The server answers, loses and delays requests and restarts; ZeroMQ is   *)
(* modelled from how the code uses it.  The query sockets are numbered by  *)
(* the request they were made for.  A thread of the application queries    *)
(* and closes; another one iterates over subscribe.                        *)
(***************************************************************************)
EXTENDS Integers, FiniteSets

CONSTANTS
    Interval,      \* resync_interval_s
    MaxTime,       \* bound on the clock
    MaxRestarts,   \* bound on restarts of the server
    MaxAsks        \* bound on requests

ASSUME ClientAssumption == Interval \in Nat \ {0}

VARIABLES
    time,
    server,      \* [up, since, epoch]
    sockets,     \* open sockets of the context
    ask,         \* the caller: its step, its request, the reply it got
    querySock,   \* _query_sock (or _admin_sock), 0 for None
    awaiting,    \* that REQ socket has sent and not received
    sent,        \* requests on their way: [sock, to]
    replies,     \* replies on their way
    sub,         \* the iterator's step
    held,        \* _sub_sock refers to the iterator's socket
    known,       \* the epoch whose server has the iterator's subscription
    lastResync, lastUptime,
    probe, before,   \* the last two probes that were answered
    closing,     \* _closing
    closer,      \* the step of close
    raced        \* the iterator's new socket became _sub_sock when close was past it

askVars == <<ask, querySock, awaiting, sent, replies>>
subVars == <<sub, held, known, lastResync, lastUptime, probe, before>>
closeVars == <<closing, closer, raced>>
clientVars == <<time, server, sockets, askVars, subVars, closeVars>>

Unknown == -1       \* last_uptime is None
Nothing == 0        \* no socket, no request, no epoch
Sub == 1            \* the iterator's socket
Probe == 2          \* the socket of _server_uptime
QuerySocket(n) == 2 + n
NoProbe == [at |-> 0, uptime |-> Unknown, epoch |-> Nothing]
Terminated == closer \in {"term", "done"}

ClientInit ==
    /\ time = 0
    /\ server = [up |-> TRUE, since |-> 0, epoch |-> 1]
    /\ sockets = {Sub}
    /\ ask = [pc |-> "idle", n |-> 0, got |-> Nothing]
    /\ querySock = Nothing /\ awaiting = FALSE /\ sent = {} /\ replies = {}
    /\ sub = "poll" /\ held = TRUE /\ known = Nothing
    /\ lastResync = 0 /\ lastUptime = Unknown
    /\ probe = NoProbe /\ before = NoProbe
    /\ closing = FALSE /\ closer = "idle" /\ raced = FALSE

-----------------------------------------------------------------------------
(* The server and the network. *)

Pass ==
    /\ time < MaxTime
    /\ time' = time + 1
    /\ UNCHANGED <<server, sockets, askVars, subVars, closeVars>>

(* A server that ends loses the subscriptions and the requests it has. *)
ServerEnds ==
    /\ server.up /\ server.epoch <= MaxRestarts
    /\ server' = [server EXCEPT !.up = FALSE]
    /\ UNCHANGED <<time, sockets, askVars, subVars, closeVars>>
ServerStarts ==
    /\ ~server.up
    /\ server' = [up |-> TRUE, since |-> time, epoch |-> server.epoch + 1]
    /\ UNCHANGED <<time, sockets, askVars, subVars, closeVars>>

(* The subscription of a new socket reaches the server; after a restart it   *)
(* may, or may not, be delivered again.                                      *)
Subscribed ==
    /\ server.up /\ Sub \in sockets
    /\ known' = server.epoch
    /\ UNCHANGED <<time, server, sockets, askVars,
                   sub, held, lastResync, lastUptime, probe, before, closeVars>>

(* The server answers a request, however late; a reply to a closed socket is *)
(* dropped.                                                                  *)
ServerReplies(m) ==
    /\ server.up /\ m \in sent
    /\ sent' = sent \ {m}
    /\ replies' = IF m.sock \in sockets THEN replies \cup {m} ELSE replies
    /\ UNCHANGED <<time, server, sockets, ask, querySock, awaiting, subVars, closeVars>>

-----------------------------------------------------------------------------
(* query, aggregate and admin: one REQ socket, which alternates. *)

(* _get_query_sock and send: a socket that awaits a reply refuses with EFSM. *)
Request ==
    LET s == IF querySock = Nothing THEN QuerySocket(ask.n + 1) ELSE querySock IN
    /\ ask.pc = "idle" /\ closer = "idle" /\ ask.n < MaxAsks
    /\ IF awaiting
       THEN ask' = [ask EXCEPT !.pc = "broken"]
            /\ UNCHANGED <<sockets, querySock, awaiting, sent>>
       ELSE /\ ask' = [pc |-> "recv", n |-> ask.n + 1, got |-> Nothing]
            /\ querySock' = s
            /\ sockets' = sockets \cup {s}
            /\ awaiting' = TRUE
            /\ sent' = sent \cup {[sock |-> s, to |-> ask.n + 1]}
    /\ UNCHANGED <<time, server, replies, subVars, closeVars>>

Receive(m) ==
    /\ ask.pc = "recv" /\ m \in replies /\ m.sock = querySock
    /\ ask' = [ask EXCEPT !.pc = "idle", !.got = m.to]
    /\ awaiting' = FALSE
    /\ replies' = replies \ {m}
    /\ UNCHANGED <<time, server, sockets, querySock, sent, subVars, closeVars>>

(* RCVTIMEO: _reset_sock drops the socket, the next call makes another one. *)
ResetSockNot == UNCHANGED <<querySock, awaiting, sockets, replies>>
ResetSock ==
    /\ querySock' = Nothing /\ awaiting' = FALSE
    /\ sockets' = sockets \ {querySock}
    /\ replies' = {m \in replies : m.sock # querySock}
ReceiveTimesOut ==
    /\ ask.pc = "recv"
    /\ ask' = [ask EXCEPT !.pc = "idle"]
    /\ ResetSock
    /\ UNCHANGED <<time, server, sent, subVars, closeVars>>

-----------------------------------------------------------------------------
(* subscribe. *)

(* The end of the generator: a socket nobody else refers to is closed with   *)
(* it, one that _sub_sock holds is not.                                      *)
ReturnOnly == sub' = "ended" /\ UNCHANGED sockets
Return ==
    /\ sub' = "ended"
    /\ sockets' = IF held THEN sockets ELSE sockets \ {Sub}

(* The loop's top, the poll and the recv: _closing, a closed socket or a     *)
(* terminated context end it; else it comes round, or a resync is due.       *)
Poll ==
    /\ sub = "poll"
    /\ IF closing \/ Terminated \/ Sub \notin sockets
       THEN Return /\ UNCHANGED lastResync
       ELSE /\ time - lastResync >= Interval
            /\ sub' = "probe"
            /\ lastResync' = time
            /\ UNCHANGED sockets
    /\ UNCHANGED <<time, server, askVars, held, known, lastUptime, probe, before, closeVars>>

(* _server_uptime, on a socket of its own that is closed in any case: the    *)
(* context torn down and no answer both leave None.                          *)
OpenProbe ==
    /\ sub = "probe"
    /\ IF Terminated
       THEN sub' = "poll" /\ UNCHANGED sockets
       ELSE /\ sub' = "probing"
            /\ sockets' = sockets \cup {Probe}
    /\ UNCHANGED <<time, server, askVars, held, known, lastResync, lastUptime, probe, before, closeVars>>

Restarted(uptime) == lastUptime # Unknown /\ uptime < lastUptime
RememberedFirst(uptime) == IF lastUptime = Unknown THEN uptime ELSE lastUptime
Remembered(uptime) == uptime

EndProbe ==
    LET uptime == time - server.since IN
    /\ sub = "probing"
    /\ sockets' = sockets \ {Probe}
    /\ \/ /\ server.up /\ ~Terminated
          /\ before' = probe
          /\ probe' = [at |-> time, uptime |-> uptime, epoch |-> server.epoch]
          /\ lastUptime' = Remembered(uptime)
          /\ sub' = IF Restarted(uptime) THEN "drop" ELSE "checked"
       \/ /\ sub' = "poll"
          /\ UNCHANGED <<before, probe, lastUptime>>
    /\ UNCHANGED <<time, server, askVars, held, known, lastResync, closeVars>>

Checked ==
    /\ sub = "checked"
    /\ sub' = "poll"
    /\ UNCHANGED <<time, server, sockets, askVars,
                   held, known, lastResync, lastUptime, probe, before, closeVars>>

(* A restart: the socket is closed and _sub_sock cleared ... *)
DropSocket ==
    /\ sub = "drop"
    /\ sub' = "create"
    /\ sockets' = sockets \ {Sub}
    /\ held' = FALSE
    /\ known' = Nothing
    /\ UNCHANGED <<time, server, askVars, lastResync, lastUptime, probe, before, closeVars>>

(* ... a new one is made, unless the context is gone ... *)
CreateSocket ==
    /\ sub = "create"
    /\ IF Terminated
       THEN sub' = "ended" /\ UNCHANGED sockets
       ELSE /\ sub' = "assign"
            /\ sockets' = sockets \cup {Sub}
    /\ UNCHANGED <<time, server, askVars,
                   held, known, lastResync, lastUptime, probe, before, closeVars>>

(* ... and becomes _sub_sock; SUBSCRIBE on a terminated context returns.  A  *)
(* setsockopt or the connect on a context terminated meanwhile raises before *)
(* that, and the new socket is closed as it is collected.                    *)
AssignSocket ==
    /\ sub = "assign"
    /\ \/ /\ held' = TRUE
          /\ sub' = IF Terminated THEN "ended" ELSE "checked"
          /\ raced' = Terminated
          /\ UNCHANGED sockets
       \/ /\ Terminated
          /\ sub' = "ended"
          /\ sockets' = sockets \ {Sub}
          /\ UNCHANGED <<held, raced>>
    /\ UNCHANGED <<time, server, askVars,
                   known, lastResync, lastUptime, probe, before, closing, closer>>

-----------------------------------------------------------------------------
(* close, in the caller's thread. *)

(* The flag, before anything is closed. *)
CloseFlag ==
    /\ closer = "idle" /\ ask.pc = "idle"
    /\ closing' = TRUE /\ closer' = "sockets"
    /\ UNCHANGED <<time, server, sockets, askVars, subVars, raced>>

(* The sockets the client knows of now are closed ... *)
CloseSockets ==
    /\ closer = "sockets"
    /\ sockets' = sockets \ ({querySock} \cup (IF held THEN {Sub} ELSE {}))
    /\ closer' = "clear"
    /\ UNCHANGED <<time, server, askVars, subVars, closing, raced>>

(* ... and forgotten, which closes one that nobody refers to any more. *)
CloseClear ==
    /\ closer = "clear"
    /\ querySock' = Nothing /\ held' = FALSE
    /\ sockets' = IF sub = "ended" THEN sockets \ {Sub} ELSE sockets
    /\ closer' = "term"
    /\ UNCHANGED <<time, server, ask, awaiting, sent, replies,
                   sub, known, lastResync, lastUptime, probe, before, closing, raced>>

(* term: returns when no socket of the context is open. *)
CloseReturns ==
    /\ closer = "term" /\ sockets = {}
    /\ closer' = "done"
    /\ UNCHANGED <<time, server, sockets, askVars, subVars, closing, raced>>

ClientNext ==
    \/ Pass \/ ServerEnds \/ ServerStarts \/ Subscribed
    \/ Request \/ ReceiveTimesOut
    \/ \E m \in sent : ServerReplies(m)
    \/ \E m \in replies : Receive(m)
    \/ Poll \/ OpenProbe \/ EndProbe \/ Checked
    \/ DropSocket \/ CreateSocket \/ AssignSocket
    \/ CloseFlag \/ CloseSockets \/ CloseClear \/ CloseReturns

ClientSpec == ClientInit /\ [][ClientNext]_clientVars
-----------------------------------------------------------------------------
(* A reply is returned for the request it answers, and a request that timed  *)
(* out leaves a socket behind that the next call can use, though its own     *)
(* answer is still to come.                                                  *)
OwnReply ==
    /\ ask.pc # "broken"
    /\ ask.got \in {Nothing, ask.n}
    /\ ask.pc = "idle" => ~awaiting

(* When a probe is answered, the server of that time or a later one has the  *)
(* subscription, or a new socket is about to give it, if the server had been *)
(* up at the last answered probe for longer than the time between the two; a *)
(* younger server's restart can be missed.                                   *)
ResubscribedUnlessYoung ==
    sub = "checked" /\ before.uptime > probe.at - before.at /\ before.epoch # probe.epoch =>
        known = Nothing \/ known >= probe.epoch

(* Once the iterator has ended nothing keeps close from returning, unless a  *)
(* new socket of it became _sub_sock when close had cleared that.            *)
CloseReturnsUnlessRaced ==
    closer = "term" /\ sub = "ended" => sockets = {} \/ raced
=============================================================================
