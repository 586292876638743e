----------------------------- MODULE Lifecycle ------------------------------
(***************************************************************************)
(* The life of sqtseries processes: the CLI's run and stop (cli.py), the   *)
(* runtime file (runtime.py), the choice of the ingest port (ports.py), and *)
(* Service.start, run and shutdown (service.py) with the parts they bring  *)
(* up and down, one part a step.                                           *)
(*                                                                         *)
(* A process may fail at every step of its start, be killed at any time,   *)
(* or be sent SIGTERM at any time; its pid may be used again.  Processes   *)
(* share the host's ports and the directories' runtime files.  A foreign   *)
(* process may hold a port.                                                *)
(***************************************************************************)
EXTENDS Config, Sequences, FiniteSetsExt

CONSTANTS
    Pids,       \* process ids the host gives out
    Default,    \* the database of the default settings
    FileDb,     \* the one a config file names, in the same directory
    EnvDb,      \* the one the environment or --db names, in another directory
    MaxRuns,    \* bound: how often run is called
    MaxKills    \* bound: how many crashes, and signals beside stop's

ASSUME LifecycleAssumption ==
    /\ Default # FileDb /\ Default # EnvDb /\ FileDb # EnvDb
    /\ {Default, FileDb, EnvDb} \cap {Unset, Empty} = {}
    /\ {"none", "foreign"} \cap Pids = {}
    /\ MaxRuns \in Nat /\ MaxKills \in Nat

VARIABLES
    layers,   \* where run and stop find database.path
    settings, \* the other settings run finds
    stage,    \* per pid: what the process does next
    db,       \* per pid: the database it serves
    ingest,   \* per pid: the ingest port alloc chose, 0 before
    engine,   \* per pid: whether the engine is open
    owned,    \* per pid: _runtime_owned
    caught,   \* per pid: uvicorn's handler holds a SIGTERM
    job,      \* per pid: a manager's pass is under way in a thread
    owner,    \* per port: who has it bound
    runtime,  \* per directory: the runtime file
    stop,     \* the stop command: its program counter, its target, and
              \* whether the target's pid was given out again
    runs, kills,
    raced     \* a process wrote the file before its last owner had removed it

vars == <<layers, settings, stage, db, ingest, engine, owned, caught, job, owner,
          runtime, stop, runs, kills, raced>>

Gone == "gone"
NoPid == "none"
Foreign == "foreign"
None == [pid |-> NoPid, db |-> Default]

Dbs == {Default, FileDb, EnvDb}
DirOf(d) == IF d = EnvDb THEN "far" ELSE "near"

(* The range alloc searches, which also holds a port of another service. *)
PortRange == 1..3
Ports == 1..7

(* Settings at the edge of what validate_settings accepts: every leaf at its *)
(* bound, and a ttl that does not parse in a manager that is not enabled.    *)
(* Beside them the settings with one leaf past its bound.                    *)
Given ==
    [auto_detect |-> TRUE,
     port |-> [ingest |-> 1, stream |-> 2, query |-> 4, admin |-> 5, stats |-> 6, http |-> 7],
     bound |-> [leaf \in Bounded |-> IF leaf = "batch_size" THEN MaxBatch ELSE Least(leaf)],
     enabled |-> Managers \ {"retention"},
     parses |-> Managers \ {"retention"}]
OneOff ==
    {[Given EXCEPT !.port["http"] = q] : q \in {0, MaxPort + 1, Given.port["query"]}}
    \cup {[Given EXCEPT !.bound[leaf] = Least(leaf) - 1] : leaf \in Bounded}
    \cup {[Given EXCEPT !.bound["batch_size"] = MaxBatch + 1],
          [Given EXCEPT !.enabled = Managers]}

(* Service._start and Service.shutdown, part by part. *)
StartOrder == <<"engine", "migrate", "stream", "alloc", "ingest", "query", "admin",
                "pool", "stats", "http", "analyze", "runtime">>
DownOrderFileFirst == <<"managers", "down_runtime", "down_ingest", "down_query", "down_admin",
                        "down_http", "down_stream", "down_stats", "down_engine">>
DownOrderNoStats == <<"managers", "down_ingest", "down_query", "down_admin",
                      "down_http", "down_stream", "down_engine", "down_runtime">>
DownOrder == <<"managers", "down_ingest", "down_query", "down_admin",
               "down_http", "down_stream", "down_stats", "down_engine",
               "down_runtime">>

At(seq, s) == CHOOSE k \in DOMAIN seq : seq[k] = s
Starting == {StartOrder[k] : k \in DOMAIN StartOrder}
Closing == {DownOrder[k] : k \in DOMAIN DownOrder}
Stages == {Gone, "running", "join"} \cup Starting \cup Closing

Held(p) == {q \in Ports : owner[q] = p}
Live == {p \in Pids : stage[p] # Gone}
Serving == {p \in Pids : stage[p] = "running"}

Init ==
    /\ \E file \in {Unset, FileDb}, var \in {Unset, Empty, EnvDb},
          section \in {Unset, EnvDb}, option \in {Unset, EnvDb} :
        layers = [run |-> [option |-> Unset, var |-> var, section |-> section, file |-> file],
                  stop |-> [option |-> option, var |-> Unset, section |-> Unset,
                            file |-> file]]
    /\ settings \in {Given, [Given EXCEPT !.auto_detect = FALSE]} \cup OneOff
    /\ stage = [p \in Pids |-> Gone]
    /\ db = [p \in Pids |-> Default]
    /\ ingest = [p \in Pids |-> 0]
    /\ engine = [p \in Pids |-> "closed"]
    /\ owned = [p \in Pids |-> FALSE]
    /\ caught = [p \in Pids |-> FALSE]
    /\ job = [p \in Pids |-> FALSE]
    /\ owner = [q \in Ports |-> NoPid]
    /\ runtime = [d \in {"near", "far"} |-> None]
    /\ stop = [pc |-> "idle", pid |-> NoPid, dir |-> "near", reused |-> FALSE]
    /\ runs = 0 /\ kills = 0 /\ raced = FALSE

-----------------------------------------------------------------------------
(* cli.run. *)

(* _pid_is_sqtseries: a live process of ours has the pid.  The process that  *)
(* asks is one itself.                                                       *)
PidIsSqtseries(pid, self) == pid \in Live \cup {self}

(* run loads the settings, refuses invalid ones, and refuses when the        *)
(* runtime file beside the database names a live process, whichever          *)
(* database that one serves.                                                 *)
Run(p) ==
    LET d == Load(layers.run, Default)
        file == runtime[DirOf(d)]
        refused == \/ ~ValidSettings(settings)
                   \/ file # None /\ PidIsSqtseries(file.pid, p)
    IN
    /\ stage[p] = Gone /\ runs < MaxRuns
    /\ runs' = runs + 1
    /\ IF refused
       THEN UNCHANGED <<stage, db>>
       ELSE /\ stage' = [stage EXCEPT ![p] = "engine"]
            /\ db' = [db EXCEPT ![p] = d]
    /\ stop' = [stop EXCEPT !.reused = @ \/ p = stop.pid]
    /\ UNCHANGED <<layers, settings, ingest, engine, owned, caught, job, owner,
                   runtime, kills, raced>>

-----------------------------------------------------------------------------
(* Service._start. *)

Proceed(p) ==
    stage' = [stage EXCEPT ![p] =
        IF @ = "runtime" THEN "running" ELSE StartOrder[At(StartOrder, @) + 1]]

(* A part that raises: start calls shutdown and raises again. *)
Abort(p) == stage' = [stage EXCEPT ![p] = DownOrder[1]]

(* create_sqlite_engine: a new file gets its page size; the engine is kept   *)
(* once it is made.                                                          *)
OpenEngine(p) ==
    /\ stage[p] = "engine"
    /\ \/ Proceed(p) /\ engine' = [engine EXCEPT ![p] = "open"]
       \/ Abort(p) /\ UNCHANGED engine
    /\ UNCHANGED <<layers, settings, db, ingest, owned, caught, job, owner, runtime, stop,
                   runs, kills, raced>>

(* run_migrations raises, for one, in the loser of two that migrate a new    *)
(* file at once; check_integrity_on_startup and recover_wal raise when the   *)
(* file is no database.  Then the store and the managers are made.           *)
Migrate(p) ==
    /\ stage[p] = "migrate"
    /\ Proceed(p) \/ Abort(p)
    /\ UNCHANGED <<layers, settings, db, ingest, engine, owned, caught, job, owner, runtime,
                   stop, runs, kills, raced>>

(* The settings' port, or with auto_detect that of PortAllocator.alloc: the  *)
(* first one of the range that is not reserved for another service and can   *)
(* be bound now; the probe's socket is closed again.                         *)
Reserved == {settings.port[s] : s \in {"stream", "query", "admin", "stats", "http"}}
Alloc(p) ==
    LET free == {q \in PortRange : q \notin Reserved /\ owner[q] = NoPid} IN
    /\ stage[p] = "alloc"
    /\ IF settings.auto_detect /\ free = {}
       THEN Abort(p) /\ UNCHANGED ingest
       ELSE /\ Proceed(p)
            /\ ingest' = [ingest EXCEPT ![p] =
                   IF settings.auto_detect THEN Min(free) ELSE settings.port["ingest"]]
    /\ UNCHANGED <<layers, settings, db, engine, owned, caught, job, owner, runtime, stop,
                   runs, kills, raced>>

PortOf(p, s) == IF s = "ingest" THEN ingest[p] ELSE settings.port[s]

(* bind raises when the port is taken. *)
BindPort(p) ==
    /\ LET q == PortOf(p, stage[p]) IN
        IF owner[q] = NoPid
        THEN Proceed(p) /\ owner' = [owner EXCEPT ![q] = p]
        ELSE Abort(p) /\ UNCHANGED owner
    /\ UNCHANGED <<layers, settings, db, ingest, engine, owned, caught, job, runtime, stop,
                   runs, kills, raced>>

(* The start of a part with a ZeroMQ socket. *)
Bind(p) ==
    /\ stage[p] \in {"stream", "ingest", "query", "admin", "stats"}
    /\ BindPort(p)

(* _start_http_gateway waits for uvicorn to bind in its task, and raises     *)
(* when it could not.                                                        *)
StartHttpGateway(p) == stage[p] = "http" /\ BindPort(p)

(* The worker pool, and ANALYZE once every socket is bound, which may raise. *)
StartPart(p) ==
    /\ stage[p] \in {"pool", "analyze"}
    /\ \/ Proceed(p)
       \/ stage[p] = "analyze" /\ Abort(p)
    /\ UNCHANGED <<layers, settings, db, ingest, engine, owned, caught, job, owner, runtime,
                   stop, runs, kills, raced>>

(* A process that has written the runtime file and not yet removed it. *)
Owns(p) == owned[p] /\ stage[p] # "join"

(* RuntimeState.write replaces the file, whoever wrote it, as a whole. *)
WriteRuntime(p) ==
    /\ stage[p] = "runtime"
    /\ \/ /\ Proceed(p)
          /\ runtime' = [runtime EXCEPT ![DirOf(db[p])] = [pid |-> p, db |-> db[p]]]
          /\ owned' = [owned EXCEPT ![p] = TRUE]
          /\ raced' = (raced \/ \E o \in Pids \ {p} : Owns(o) /\ DirOf(db[o]) = DirOf(db[p]))
       \/ Abort(p) /\ UNCHANGED <<runtime, owned, raced>>
    /\ UNCHANGED <<layers, settings, db, ingest, engine, caught, job, owner, stop, runs,
                   kills>>

-----------------------------------------------------------------------------
(* Service.shutdown. *)

Release(p, s) ==
    owner' = [q \in Ports |->
        IF owner[q] = p /\ q = PortOf(p, s) THEN NoPid ELSE owner[q]]

Descend(p) ==
    stage' = [stage EXCEPT ![p] =
        IF @ = DownOrder[Len(DownOrder)] THEN "join" ELSE DownOrder[At(DownOrder, @) + 1]]

(* The managers' tasks are cancelled; a pass in a thread goes on. *)
StopManagers(p) ==
    /\ stage[p] = "managers"
    /\ Descend(p)
    /\ UNCHANGED <<layers, settings, db, ingest, engine, owned, caught, job, owner, runtime,
                   stop, runs, kills, raced>>

(* Each part with a socket closes it; a part that never started has none.    *)
(* The gateway's task is awaited: a signal that uvicorn holds ends the       *)
(* process there, see Reraise.                                               *)
SocketOf == [down_ingest |-> "ingest", down_query |-> "query", down_admin |-> "admin",
             down_http |-> "http", down_stream |-> "stream", down_stats |-> "stats"]
CloseSocket(p) ==
    /\ stage[p] \in DOMAIN SocketOf
    /\ stage[p] = "down_http" => ~caught[p]
    /\ Descend(p)
    /\ Release(p, SocketOf[stage[p]])
    /\ UNCHANGED <<layers, settings, db, ingest, engine, owned, caught, job, runtime, stop,
                   runs, kills, raced>>

(* optimize, the last checkpoint, and dispose whatever they did. *)
CloseEngine(p) ==
    /\ stage[p] = "down_engine"
    /\ Descend(p)
    /\ engine' = [engine EXCEPT ![p] = "closed"]
    /\ UNCHANGED <<layers, settings, db, ingest, owned, caught, job, owner, runtime, stop,
                   runs, kills, raced>>

(* RuntimeState.remove unlinks the file, whoever wrote it last, but only in  *)
(* a process that has written it.                                            *)
RemovesFileAlways(p) == TRUE
RemovesFile(p) == owned[p]
RemoveRuntime(p) ==
    /\ stage[p] = "down_runtime"
    /\ Descend(p)
    /\ runtime' = IF RemovesFile(p) THEN [runtime EXCEPT ![DirOf(db[p])] = None] ELSE runtime
    /\ UNCHANGED <<layers, settings, db, ingest, engine, owned, caught, job, owner, stop,
                   runs, kills, raced>>

-----------------------------------------------------------------------------
(* The end of a process, and its signals. *)

(* The kernel takes back what a process had. *)
End(p) ==
    /\ stage' = [stage EXCEPT ![p] = Gone]
    /\ owner' = [q \in Ports |-> IF owner[q] = p THEN NoPid ELSE owner[q]]
    /\ engine' = [engine EXCEPT ![p] = "closed"]
    /\ owned' = [owned EXCEPT ![p] = FALSE]
    /\ caught' = [caught EXCEPT ![p] = FALSE]
    /\ job' = [job EXCEPT ![p] = FALSE]
    /\ ingest' = [ingest EXCEPT ![p] = 0]
    /\ UNCHANGED <<layers, settings, db, runtime>>

(* asyncio.run joins the executor's threads before the process exits. *)
Exit(p) ==
    /\ stage[p] = "join" /\ ~job[p]
    /\ End(p)
    /\ UNCHANGED <<stop, runs, kills, raced>>

(* A manager's pass, a job of the executor.  The managers start before the   *)
(* first socket does, and their tasks run whenever the start waits, which it *)
(* no longer does after the gateway is up.                                   *)
JobBegins(p) ==
    /\ stage[p] \in (Starting \ {"engine", "migrate", "analyze", "runtime"}) \cup {"running"}
    /\ ~job[p]
    /\ job' = [job EXCEPT ![p] = TRUE]
    /\ UNCHANGED <<layers, settings, stage, db, ingest, engine, owned, caught, owner,
                   runtime, stop, runs, kills, raced>>

JobEnds(p) ==
    /\ job[p]
    /\ job' = [job EXCEPT ![p] = FALSE]
    /\ UNCHANGED <<layers, settings, stage, db, ingest, engine, owned, caught, owner,
                   runtime, stop, runs, kills, raced>>

Crash(p) ==
    /\ p \in Live /\ kills < MaxKills
    /\ End(p)
    /\ kills' = kills + 1
    /\ UNCHANGED <<stop, runs, raced>>

(* SIGTERM.  Before the gateway starts, and after its server has ended and   *)
(* put the default handlers back, the process dies.  From uvicorn's start to *)
(* run() uvicorn's handler takes it, and for good when the start is aborted  *)
(* before run().  run() begins the shutdown; a signal during that shutdown   *)
(* sets an event that is set.                                                *)
Terminate(p) ==
    IF stage[p] = "running" THEN
        /\ Abort(p)
        /\ UNCHANGED <<layers, settings, db, ingest, engine, owned, caught, job, owner, runtime>>
    ELSE IF \/ stage[p] \in {"analyze", "runtime"}
            \/ stage[p] \in Closing /\ owner[settings.port["http"]] = p
    THEN
        /\ caught' = [caught EXCEPT ![p] = @ \/ ~owned[p]]
        /\ UNCHANGED <<layers, settings, stage, db, ingest, engine, owned, job, owner, runtime>>
    ELSE End(p)

(* A supervisor or a terminal signals the process. *)
Signal(p) ==
    /\ p \in Live /\ kills < MaxKills
    /\ Terminate(p)
    /\ kills' = kills + 1
    /\ UNCHANGED <<stop, runs, raced>>

(* A signal uvicorn took ends its server, which restores the default handler *)
(* and raises the signal again, at the next wait: of the running service, or *)
(* of the shutdown after an aborted start, at the latest where that awaits   *)
(* the gateway's task.                                                       *)
Reraise(p) ==
    /\ caught[p] /\ stage[p] \in {"running"} \cup Closing
    /\ End(p)
    /\ UNCHANGED <<stop, runs, kills, raced>>

-----------------------------------------------------------------------------
(* cli.stop. *)

(* It reads the runtime file beside its own database, and goes on when a     *)
(* live process is named that serves that database.                          *)
StopRead ==
    LET d == Load(layers.stop, Default)
        file == runtime[DirOf(d)]
    IN
    /\ stop.pc = "idle"
    /\ stop' = IF file # None /\ PidIsSqtseries(file.pid, NoPid) /\ file.db = d
               THEN [stop EXCEPT !.pc = "kill", !.pid = file.pid, !.dir = DirOf(d)]
               ELSE [stop EXCEPT !.pc = "error"]
    /\ UNCHANGED <<layers, settings, stage, db, ingest, engine, owned, caught, job, owner,
                   runtime, runs, kills, raced>>

(* os.kill: the process may have ended since. *)
StopKill ==
    /\ stop.pc = "kill"
    /\ IF stop.pid \in Live
       THEN Terminate(stop.pid) /\ stop' = [stop EXCEPT !.pc = "wait"]
       ELSE /\ stop' = [stop EXCEPT !.pc = "error"]
            /\ UNCHANGED <<layers, settings, stage, db, ingest, engine, owned, caught, job,
                           owner, runtime>>
    /\ UNCHANGED <<runs, kills, raced>>

(* It returns when the file or the process is gone, or gives up after 10 s.  *)
StopWait ==
    /\ stop.pc = "wait"
    /\ \/ /\ runtime[stop.dir] = None \/ stop.pid \notin Live
          /\ stop' = [stop EXCEPT !.pc = "returned"]
       \/ stop' = [stop EXCEPT !.pc = "warned"]
    /\ UNCHANGED <<layers, settings, stage, db, ingest, engine, owned, caught, job, owner,
                   runtime, runs, kills, raced>>

(* Another process of the host takes a port, or gives it back. *)
ForeignPort ==
    /\ \E q \in {1, Given.port["http"]} :
        \/ owner[q] = NoPid /\ Foreign \notin {owner[r] : r \in Ports}
           /\ owner' = [owner EXCEPT ![q] = Foreign]
        \/ owner[q] = Foreign /\ owner' = [owner EXCEPT ![q] = NoPid]
    /\ UNCHANGED <<layers, settings, stage, db, ingest, engine, owned, caught, job, runtime,
                   stop, runs, kills, raced>>

StartStep(p) ==
    \/ OpenEngine(p) \/ Migrate(p) \/ Alloc(p) \/ Bind(p) \/ StartPart(p)
    \/ StartHttpGateway(p) \/ WriteRuntime(p)
DownStep(p) == StopManagers(p) \/ CloseSocket(p) \/ CloseEngine(p) \/ RemoveRuntime(p) \/ Exit(p)

Next ==
    \/ \E p \in Pids :
        \/ Run(p) \/ StartStep(p) \/ DownStep(p) \/ JobBegins(p) \/ JobEnds(p)
        \/ Crash(p) \/ Signal(p) \/ Reraise(p)
    \/ StopRead \/ StopKill \/ StopWait
    \/ ForeignPort

Spec == Init /\ [][Next]_vars

-----------------------------------------------------------------------------
TypeOK ==
    /\ layers \in [run : Layers(Dbs), stop : Layers(Dbs)]
    /\ stage \in [Pids -> Stages] /\ db \in [Pids -> Dbs]
    /\ ingest \in [Pids -> Nat]
    /\ engine \in [Pids -> {"open", "closed"}]
    /\ owned \in [Pids -> BOOLEAN] /\ caught \in [Pids -> BOOLEAN] /\ job \in [Pids -> BOOLEAN]
    /\ owner \in [Ports -> Pids \cup {NoPid, Foreign}]
    /\ runtime \in [{"near", "far"} -> [pid : Pids, db : Dbs] \cup {None}]
    /\ stop.pid \in Pids \cup {NoPid}
    /\ runs \in 0..MaxRuns /\ kills \in 0..MaxKills /\ raced \in BOOLEAN

(* A serving process is found: the runtime file beside its database names    *)
(* it and its database, whatever other processes crashed, failed to start    *)
(* beside it or ended before, unless a process wrote the file before its     *)
(* last owner's shutdown had come to removing it.                            *)
FoundUnlessRaced ==
    ~raced => \A p \in Serving : runtime[DirOf(db[p])] = [pid |-> p, db |-> db[p]]

(* When stop returns without its warning, the ports are free for a restart   *)
(* at once, unless the pid has been given to a new process, or with the same *)
(* exception: then the file that stop sees go is another's.                  *)
StopFreesPorts ==
    stop.pc = "returned" /\ ~stop.reused /\ ~raced => Held(stop.pid) = {}

(* Whichever part of the start failed, or if none did, shutdown leaves no    *)
(* socket bound and no engine open.                                          *)
NothingLeft ==
    /\ TypeOK
    /\ \A p \in Pids : stage[p] = "join" => Held(p) = {} /\ engine[p] = "closed"

(* A process serves the database its configuration names by the documented   *)
(* load order, unless its variable is set and empty beside a file's value,   *)
(* or the file's value meets a variable of the whole section.                *)
ServesPromised ==
    LET l == layers.run IN
    ~(l.file # Unset /\ (l.var = Empty \/ (l.var = Unset /\ l.section # Unset))) =>
        \A p \in Live : db[p] = Promised(l, Default)
=============================================================================
