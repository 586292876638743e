------------------------------ MODULE Registry ------------------------------
(***************************************************************************)
(* messaging/connection_registry.py and those who follow it: the XPUB      *)
(* reader of messaging/pubsub.py that feeds its subscriber counts, the     *)
(* WebSocket handlers that feed its connections, and two listeners: one    *)
(* monitor (/ws/connections of gateway/app.py or /ws/dashboard of          *)
(* gateway/dashboard.py) and messaging/stats_publisher.py.                 *)
(*                                                                         *)
(* A step is what runs on the event loop between two awaits.  There is one *)
(* topic.  A monitor's client applies the events it is sent to the         *)
(* snapshot it was sent first.  An event is in a monitor's queue at once:  *)
(* call_soon_threadsafe puts it there in the loop's next turn.  A tick of   *)
(* the dashboard repeats the topics, and so is a "sub" event here.         *)
(***************************************************************************)
EXTENDS Naturals, Sequences, FiniteSets, SequencesExt

CONSTANTS
    Conns,        \* connections to /ws/subscribe
    MaxBacklog,   \* the 500 of the monitors' senders
    MaxJoins,     \* bound: joins of external SUB sockets
    MaxMonitors,  \* bound: monitors that connect, one after the other
    MaxTicks      \* bound: ticks read for them

ASSUME RegistryAssumption ==
    /\ IsFiniteSet(Conns)
    /\ MaxBacklog \in Nat /\ MaxJoins \in Nat /\ MaxMonitors \in Nat /\ MaxTicks \in Nat
    /\ "topic" \notin Conns

NoEvent == [kind |-> "none"]
Events  == {NoEvent}
           \cup [kind : {"conn"}, id : Conns, connected : {"no", "yes"}]
           \cup [kind : {"sub"}, count : 0..MaxJoins]

VARIABLES
    conn,       \* where each connection stands
    ws,         \* keys of _ws
    live,       \* SUB sockets subscribed to the topic
    joins,      \* joins so far
    xpub,       \* subscription events not read yet
    zmqSubs,    \* _zmq_subs of the topic
    reader,     \* _reader_task: "on", "off"
    mon,        \* where the monitor's handler stands
    monitors,   \* monitors so far
    backlog,    \* its queue of events
    sending,    \* the event it is sending
    view,       \* what its client has been told
    tick,       \* what its ticker has read and not queued: << >> or <<count>>
    ticks,      \* ticks so far
    trimmed,    \* history: events were dropped from its queue
    late,       \* history: a tick was queued behind an event it had not seen
    stats,      \* the stats publisher: "on", "draining", "off"
    tasks,      \* its _publish_tasks, by their events
    told        \* history: the state its events describe

zmqVars == <<live, joins, xpub, zmqSubs, reader>>
monVars == <<mon, monitors, backlog, sending, view, tick, ticks, trimmed, late>>
viewVars == <<view, tick, ticks, trimmed, late>>
statsVars == <<stats, tasks, told>>
vars == <<conn, ws, zmqVars, monVars, statsVars>>

Init ==
    /\ conn = [c \in Conns |-> "away"]
    /\ ws = {}
    /\ live = 0
    /\ joins = 0
    /\ xpub = << >>
    /\ zmqSubs = 0
    /\ reader = "on"
    /\ mon = "away"
    /\ monitors = 0
    /\ backlog = << >>
    /\ sending = NoEvent
    /\ view = [ws |-> {}, subs |-> 0]
    /\ tick = << >>
    /\ ticks = 0
    /\ trimmed = "no"
    /\ late = "no"
    /\ stats = "on"
    /\ tasks = << >>
    /\ told = [ws |-> {}, subs |-> 0]

-----------------------------------------------------------------------------
(* Mutant of Listening: the listener is hooked when the snapshot is out. *)
ListeningLate == mon \in {"on", "dash"}

(* on_event comes before the snapshot, remove_listener in the finally. *)
Listening == mon # "away"

(* _emit: the monitor's listener queues the event, the stats publisher's     *)
(* starts a task that publishes it.                                          *)
Emit(event) ==
    /\ backlog' = IF Listening THEN Append(backlog, event) ELSE backlog
    /\ tasks' = IF stats = "on" THEN Append(tasks, event) ELSE tasks

(* register_ws *)
RegisterWs(c) ==
    /\ conn[c] = "away"
    /\ conn' = [conn EXCEPT ![c] = "open"]
    /\ ws' = ws \cup {c}
    /\ Emit([kind |-> "conn", id |-> c, connected |-> "yes"])
    /\ UNCHANGED <<zmqVars, mon, monitors, sending, viewVars, stats, told>>

(* unregister_ws *)
UnregisterWs(c) ==
    /\ conn[c] = "open"
    /\ conn' = [conn EXCEPT ![c] = "ended"]
    /\ ws' = ws \ {c}
    /\ Emit([kind |-> "conn", id |-> c, connected |-> "no"])
    /\ UNCHANGED <<zmqVars, mon, monitors, sending, viewVars, stats, told>>

(* libzmq: with XPUB_VERBOSER every join and every leave is an event. *)
Join ==
    /\ joins < MaxJoins
    /\ joins' = joins + 1
    /\ live' = live + 1
    /\ xpub' = Append(xpub, 1)
    /\ UNCHANGED <<conn, ws, zmqSubs, reader, monVars, statsVars>>

Leave ==
    /\ live > 0
    /\ live' = live - 1
    /\ xpub' = Append(xpub, 0)
    /\ UNCHANGED <<conn, ws, joins, zmqSubs, reader, monVars, statsVars>>

(* register_zmq_sub and unregister_zmq_sub. *)
Counted(event) ==
    IF event = 1 THEN zmqSubs + 1 ELSE IF zmqSubs = 0 THEN 0 ELSE zmqSubs - 1

(* _read_subscriptions: one event. *)
ReadSubscription ==
    /\ reader = "on" /\ xpub # << >>
    /\ xpub' = Tail(xpub)
    /\ zmqSubs' = Counted(Head(xpub))
    /\ Emit([kind |-> "sub", count |-> zmqSubs'])
    /\ UNCHANGED <<conn, ws, live, joins, reader, mon, monitors, sending, viewVars,
                   stats, told>>

-----------------------------------------------------------------------------
Snapshot == [ws |-> ws, subs |-> zmqSubs]

(* A client's picture after an event. *)
Apply(v, event) ==
    IF event.kind = "sub" THEN [v EXCEPT !.subs = event.count]
    ELSE [v EXCEPT !.ws = IF event.connected = "yes" THEN @ \cup {event.id} ELSE @ \ {event.id}]

(* A monitor hooks its listener; ws_connections reads the registry in the    *)
(* same step, dashboard_stream in a thread, its connections and then its     *)
(* topics...                                                                 *)
MonitorConnect ==
    /\ mon = "away" /\ monitors < MaxMonitors
    /\ monitors' = monitors + 1
    /\ \/ mon' = "read" /\ view' = Snapshot
       \/ mon' = "snapshot" /\ UNCHANGED view
    /\ UNCHANGED <<conn, ws, zmqVars, backlog, sending, tick, ticks, trimmed, late,
                   statsVars>>

MonitorSnapshot ==
    /\ \/ mon = "snapshot" /\ mon' = "topics" /\ view' = [view EXCEPT !.ws = ws]
       \/ mon = "topics" /\ mon' = "shown" /\ view' = [view EXCEPT !.subs = zmqSubs]
    /\ UNCHANGED <<conn, ws, zmqVars, monitors, backlog, sending, tick, ticks, trimmed,
                   late, statsVars>>

(* ...and when the snapshot is out starts its sender, and the dashboard its  *)
(* ticker.                                                                   *)
MonitorReady ==
    /\ \/ mon = "read" /\ mon' = "on"
       \/ mon = "shown" /\ mon' = "dash"
    /\ UNCHANGED <<conn, ws, zmqVars, monitors, backlog, sending, viewVars, statsVars>>

Serving == mon \in {"on", "dash"}

(* The newest MaxBacklog events. *)
Kept(q) == IF Len(q) > MaxBacklog THEN SubSeq(q, Len(q) - MaxBacklog + 1, Len(q)) ELSE q

(* sender takes the oldest event and drops the next ones over the bound... *)
MonitorTake ==
    /\ Serving /\ sending = NoEvent /\ backlog # << >>
    /\ sending' = Head(backlog)
    /\ backlog' = Kept(Tail(backlog))
    /\ trimmed' = IF Len(Tail(backlog)) > MaxBacklog THEN "yes" ELSE trimmed
    /\ UNCHANGED <<conn, ws, zmqVars, mon, monitors, view, tick, ticks, late, statsVars>>

(* ...and sends the one it took. *)
MonitorSent ==
    /\ Serving /\ sending # NoEvent
    /\ sending' = NoEvent
    /\ view' = Apply(view, sending)
    /\ UNCHANGED <<conn, ws, zmqVars, mon, monitors, backlog, tick, ticks, trimmed, late,
                   statsVars>>

(* The dashboard's ticker reads the topics in a thread... *)
TickRead ==
    /\ mon = "dash" /\ tick = << >> /\ ticks < MaxTicks
    /\ ticks' = ticks + 1
    /\ tick' = <<zmqSubs>>
    /\ UNCHANGED <<conn, ws, zmqVars, mon, monitors, backlog, sending, view, trimmed, late,
                   statsVars>>

(* ...and queues what it read. *)
TickQueued ==
    /\ mon = "dash" /\ tick # << >>
    /\ tick' = << >>
    /\ backlog' = Append(backlog, [kind |-> "sub", count |-> tick[1]])
    /\ late' = IF tick[1] # zmqSubs THEN "yes" ELSE late
    /\ UNCHANGED <<conn, ws, zmqVars, mon, monitors, sending, view, ticks, trimmed,
                   statsVars>>

(* The client leaves, a send fails, or the server closes. *)
MonitorEnd ==
    /\ mon # "away"
    /\ mon' = "away"
    /\ backlog' = << >>
    /\ sending' = NoEvent
    /\ tick' = << >>
    /\ trimmed' = "no"
    /\ late' = "no"
    /\ UNCHANGED <<conn, ws, zmqVars, monitors, view, ticks, statsVars>>

-----------------------------------------------------------------------------
(* A task of the stats publisher sends its event; on a closed socket it does *)
(* nothing.                                                                  *)
StatsSent ==
    /\ tasks # << >>
    /\ tasks' = Tail(tasks)
    /\ told' = IF stats = "off" THEN told ELSE Apply(told, Head(tasks))
    /\ UNCHANGED <<conn, ws, zmqVars, monVars, stats>>

(* Service.shutdown: the handlers have ended; PubSub.stop cancels the        *)
(* reader...                                                                 *)
ReaderStop ==
    /\ reader = "on"
    /\ \A c \in Conns : conn[c] # "open"
    /\ conn' = [c \in Conns |-> "ended"]
    /\ reader' = "off"
    /\ UNCHANGED <<ws, live, joins, xpub, zmqSubs, monVars, statsVars>>

(* ...then StatsPublisher.stop removes its hook... *)
StatsStop ==
    /\ reader = "off" /\ stats = "on"
    /\ stats' = "draining"
    /\ UNCHANGED <<conn, ws, zmqVars, monVars, tasks, told>>

(* Mutant of Drained: the tasks are not gathered. *)
DrainedNot == TRUE

Drained == tasks = << >>

(* ...gathers its tasks and closes the socket. *)
StatsClose ==
    /\ stats = "draining" /\ Drained
    /\ stats' = "off"
    /\ UNCHANGED <<conn, ws, zmqVars, monVars, tasks, told>>

Monitor == MonitorConnect \/ MonitorSnapshot \/ MonitorReady \/ MonitorTake
           \/ MonitorSent \/ TickRead \/ TickQueued \/ MonitorEnd

Next ==
    \/ Join \/ Leave \/ ReadSubscription \/ Monitor
    \/ StatsSent \/ ReaderStop \/ StatsStop \/ StatsClose
    \/ \E c \in Conns : RegisterWs(c) \/ UnregisterWs(c)

Spec == Init /\ [][Next]_vars

-----------------------------------------------------------------------------
(* Every variable has its type. *)
TypeOK ==
    /\ conn \in [Conns -> {"away", "open", "ended"}]
    /\ ws \subseteq Conns
    /\ live \in 0..MaxJoins /\ joins \in 0..MaxJoins /\ zmqSubs \in 0..MaxJoins
    /\ \A i \in DOMAIN xpub : xpub[i] \in {0, 1}
    /\ reader \in {"on", "off"}
    /\ mon \in {"away", "read", "on", "snapshot", "topics", "shown", "dash"}
    /\ monitors \in 0..MaxMonitors
    /\ \A i \in DOMAIN backlog : backlog[i] \in Events
    /\ sending \in Events
    /\ view.ws \subseteq Conns /\ view.subs \in 0..MaxJoins
    /\ \A i \in DOMAIN tick : tick[i] \in 0..MaxJoins
    /\ ticks \in 0..MaxTicks
    /\ trimmed \in {"no", "yes"} /\ late \in {"no", "yes"}
    /\ stats \in {"on", "draining", "off"}
    /\ \A i \in DOMAIN tasks : tasks[i] \in Events
    /\ told.ws \subseteq Conns /\ told.subs \in 0..MaxJoins

(* A monitor that has been sent everything queued for it has the registry's  *)
(* state, although its events may be older than its snapshot, unless events  *)
(* were dropped from its backlog.  Only the counts of a dashboard may be     *)
(* behind: a tick that was read before an event and queued after it stays on *)
(* the page until the next one.                                              *)
ViewConverges ==
    Serving /\ backlog = << >> /\ sending = NoEvent /\ trimmed = "no" =>
        /\ view.ws = ws
        /\ late = "no" => view.subs = zmqSubs

(* Who follows the stats socket has the registry's state once its tasks have *)
(* run, also after the socket is closed.                                     *)
StatsComplete ==
    /\ TypeOK
    /\ tasks = << >> => told = Snapshot
=============================================================================
