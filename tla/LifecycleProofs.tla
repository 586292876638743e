-------------------------- MODULE LifecycleProofs ---------------------------
(***************************************************************************)
(* Proofs about Lifecycle, for every set of pids, every three databases    *)
(* and every bound on runs and kills: what Service.shutdown leaves, what   *)
(* the runtime file names, what it means that cli.stop returned, and which *)
(* database a process serves.                                              *)
(*                                                                         *)
(* The invariant has six parts.  LInv: the types.  HoldInv: which ports    *)
(* and engines a process can have at each stage.  RunInv: every live       *)
(* process serves what its configuration names.  FileInv: what the file    *)
(* says of the process that wrote it.  NameInv: the converse, the file     *)
(* names no live process but the one that wrote it, a pid used again       *)
(* included.  StopInv: what the stop command may rely on between its       *)
(* steps.                                                                  *)
(***************************************************************************)
EXTENDS Lifecycle, TLAPS

Directories == {"near", "far"}

(* TypeOK, with the stop command's record in full. *)
LInv ==
    /\ TypeOK
    /\ settings.port["ingest"] \in Nat
    /\ stop \in [pc : {"idle", "kill", "wait", "returned", "warned", "error"},
                 pid : Pids \cup {NoPid}, dir : Directories, reused : BOOLEAN]
    /\ stop.pc \in {"kill", "wait", "returned"} => stop.pid \in Pids

Sockets == {"ingest", "stream", "query", "admin", "stats", "http"}

(* The stages from which on the socket of a part is closed for good. *)
Closed(s) ==
    LET down == {"down_engine", "down_runtime", "join", Gone} IN
    CASE s = "stats" -> down
      [] s = "stream" -> down \cup {"down_stats"}
      [] s = "http" -> down \cup {"down_stats", "down_stream"}
      [] s = "admin" -> down \cup {"down_stats", "down_stream", "down_http"}
      [] s = "query" -> down \cup {"down_stats", "down_stream", "down_http", "down_admin"}
      [] s = "ingest" -> down \cup {"down_stats", "down_stream", "down_http", "down_admin",
                                    "down_query"}

(* A process has bound its own ports only, none of a part that is closed for *)
(* good, and no engine after the shutdown's last step but one.               *)
HoldOf(p) ==
    /\ stage[p] \in {Gone, "engine", "migrate", "stream", "alloc"} => ingest[p] = 0
    /\ \A q \in Ports : owner[q] = p => \E s \in Sockets : q = PortOf(p, s)
    /\ \A s \in Sockets, q \in Ports :
          stage[p] \in Closed(s) /\ q = PortOf(p, s) => owner[q] # p
    /\ stage[p] \in {"down_runtime", "join", Gone} => engine[p] = "closed"

HoldInv == \A p \in Pids : HoldOf(p)

(* A process serves what Settings.load made of its layers. *)
RunInv == \A p \in Pids : stage[p] # Gone => db[p] = Load(layers.run, Default)

(* A process owns the file from its last step up to its end; unless two      *)
(* wrote the file of a directory, the file of an owner that has not come to  *)
(* removing it names the owner.                                              *)
FileInv ==
    /\ \A p \in Pids : owned[p] => stage[p] \in {"running", "join"} \cup Closing
    /\ \A p \in Pids : stage[p] = "running" => owned[p]
    /\ ~raced => \A p, o \in Pids : Owns(p) /\ Owns(o) /\ DirOf(db[p]) = DirOf(db[o]) => p = o
    /\ ~raced => \A p \in Pids : Owns(p) =>
          runtime[DirOf(db[p])] = [pid |-> p, db |-> db[p]]

(* A file is in the directory the settings name, and a live process it names *)
(* has written it and not yet removed it.                                    *)
NameInv ==
    /\ \A d \in Directories : runtime[d] # None => d = DirOf(Load(layers.run, Default))
    /\ \A d \in Directories, p \in Live : runtime[d].pid = p =>
          owned[p] /\ stage[p] # "join"

(* The process stop signals owns the file stop watches; once stop returned,  *)
(* that process is past its shutdown.                                        *)
StopInv ==
    /\ stop.pc \in {"kill", "wait"} /\ ~stop.reused /\ ~raced /\ stop.pid \in Live =>
          owned[stop.pid] /\ DirOf(db[stop.pid]) = stop.dir
    /\ stop.pc = "returned" /\ ~stop.reused /\ ~raced => stage[stop.pid] \in {"join", Gone}

(* One step of the start, and of the shutdown. *)
Rise(a, b) ==
    \/ a = "engine" /\ b = "migrate"
    \/ a = "migrate" /\ b = "stream"
    \/ a = "stream" /\ b = "alloc"
    \/ a = "alloc" /\ b = "ingest"
    \/ a = "ingest" /\ b = "query"
    \/ a = "query" /\ b = "admin"
    \/ a = "admin" /\ b = "pool"
    \/ a = "pool" /\ b = "stats"
    \/ a = "stats" /\ b = "http"
    \/ a = "http" /\ b = "analyze"
    \/ a = "analyze" /\ b = "runtime"
    \/ a = "runtime" /\ b = "running"

Sink(a, b) ==
    \/ a = "managers" /\ b = "down_ingest"
    \/ a = "down_ingest" /\ b = "down_query"
    \/ a = "down_query" /\ b = "down_admin"
    \/ a = "down_admin" /\ b = "down_http"
    \/ a = "down_http" /\ b = "down_stream"
    \/ a = "down_stream" /\ b = "down_stats"
    \/ a = "down_stats" /\ b = "down_engine"
    \/ a = "down_engine" /\ b = "down_runtime"
    \/ a = "down_runtime" /\ b = "join"

(* The stages of the start and of the shutdown, listed. *)
LEMMA StageSets ==
    /\ Starting = {"engine", "migrate", "stream", "alloc", "ingest", "query", "admin", "pool", "stats", "http", "analyze", "runtime"}
    /\ Closing = {"managers", "down_ingest", "down_query", "down_admin", "down_http", "down_stream", "down_stats", "down_engine", "down_runtime"}
  BY DEF Starting, Closing, StartOrder, DownOrder

(* The stage after each stage of the start. *)
LEMMA StartTable ==
    \A a \in Starting \ {"runtime"} : Rise(a, StartOrder[At(StartOrder, a) + 1])
<1>1. At(StartOrder, "engine") = 1
  BY DEF At, StartOrder
<1>2. At(StartOrder, "migrate") = 2
  BY DEF At, StartOrder
<1>3. At(StartOrder, "stream") = 3
  BY DEF At, StartOrder
<1>4. At(StartOrder, "alloc") = 4
  BY DEF At, StartOrder
<1>5. At(StartOrder, "ingest") = 5
  BY DEF At, StartOrder
<1>6. At(StartOrder, "query") = 6
  BY DEF At, StartOrder
<1>7. At(StartOrder, "admin") = 7
  BY DEF At, StartOrder
<1>8. At(StartOrder, "pool") = 8
  BY DEF At, StartOrder
<1>9. At(StartOrder, "stats") = 9
  BY DEF At, StartOrder
<1>10. At(StartOrder, "http") = 10
  BY DEF At, StartOrder
<1>11. At(StartOrder, "analyze") = 11
  BY DEF At, StartOrder
<1> QED  BY <1>1, <1>2, <1>3, <1>4, <1>5, <1>6, <1>7, <1>8, <1>9, <1>10, <1>11, StageSets DEF Rise, StartOrder

(* The stage after each stage of the shutdown. *)
LEMMA DownTable ==
    \A a \in Closing \ {"down_runtime"} : Sink(a, DownOrder[At(DownOrder, a) + 1])
<1>1. At(DownOrder, "managers") = 1
  BY DEF At, DownOrder
<1>2. At(DownOrder, "down_ingest") = 2
  BY DEF At, DownOrder
<1>3. At(DownOrder, "down_query") = 3
  BY DEF At, DownOrder
<1>4. At(DownOrder, "down_admin") = 4
  BY DEF At, DownOrder
<1>5. At(DownOrder, "down_http") = 5
  BY DEF At, DownOrder
<1>6. At(DownOrder, "down_stream") = 6
  BY DEF At, DownOrder
<1>7. At(DownOrder, "down_stats") = 7
  BY DEF At, DownOrder
<1>8. At(DownOrder, "down_engine") = 8
  BY DEF At, DownOrder
<1> QED  BY <1>1, <1>2, <1>3, <1>4, <1>5, <1>6, <1>7, <1>8, StageSets DEF Sink, DownOrder

(* A part that started moves its process one stage up. *)
LEMMA ProceedRises ==
    ASSUME NEW p \in Pids, stage \in [Pids -> Stages], stage[p] \in Starting, Proceed(p)
    PROVE  stage' = [stage EXCEPT ![p] = stage'[p]] /\ Rise(stage[p], stage'[p])
  BY StartTable DEF Proceed, Rise

(* A part that closed moves its process one stage down. *)
LEMMA DescendSinks ==
    ASSUME NEW p \in Pids, stage \in [Pids -> Stages], stage[p] \in Closing, Descend(p)
    PROVE  stage' = [stage EXCEPT ![p] = stage'[p]] /\ Sink(stage[p], stage'[p])
<1>1. DownOrder[Len(DownOrder)] = "down_runtime"
  BY DEF DownOrder
<1> QED  BY <1>1, DownTable DEF Descend, Sink

(* A part that raised, or the signal, begins the shutdown. *)
LEMMA AbortMoves ==
    ASSUME NEW p \in Pids, stage \in [Pids -> Stages], Abort(p)
    PROVE  stage' = [stage EXCEPT ![p] = "managers"]
  BY DEF Abort, DownOrder

(* alloc takes a port of the range. *)
LEMMA MinPort ==
    ASSUME NEW S \in SUBSET PortRange, S # {}
    PROVE  Min(S) \in S
<1>1. \E x \in S : \A y \in S : x =< y
  <2>1. CASE 1 \in S  BY <2>1 DEF PortRange
  <2>2. CASE 1 \notin S /\ 2 \in S  BY <2>2 DEF PortRange
  <2>3. CASE 1 \notin S /\ 2 \notin S
    <3>1. \A x \in S : x = 3  BY <2>3 DEF PortRange
    <3> QED  BY <3>1
  <2> QED  BY <2>1, <2>2, <2>3
<1> QED  BY <1>1 DEF Min

(* The configured ingest port is a number. *)
LEMMA GivenPort == Init => settings.port["ingest"] \in Nat
<1>1. Given.port["ingest"] = 1
  BY DEF Given
<1>2. [Given EXCEPT !.auto_detect = FALSE].port = Given.port
  BY DEF Given
<1>3. \A q : [Given EXCEPT !.port["http"] = q].port["ingest"] = 1
  BY DEF Given
<1>4. \A leaf, n : [Given EXCEPT !.bound[leaf] = n].port = Given.port
  BY DEF Given
<1>5. [Given EXCEPT !.enabled = Managers].port = Given.port
  BY DEF Given
<1>6. ASSUME NEW s \in OneOff PROVE s.port["ingest"] = 1
  <2>1. CASE \E q : s = [Given EXCEPT !.port["http"] = q]
    BY <1>3, <2>1
  <2>2. CASE \E leaf, n : s = [Given EXCEPT !.bound[leaf] = n]
    <3>1. PICK leaf, n : s = [Given EXCEPT !.bound[leaf] = n]
      BY <2>2
    <3> QED  BY <1>1, <1>4, <3>1
  <2>3. CASE s = [Given EXCEPT !.enabled = Managers]
    BY <1>1, <1>5, <2>3
  <2> QED  BY <1>6, <2>1, <2>2, <2>3, Zenon DEF OneOff
<1>7. Init => settings \in {Given, [Given EXCEPT !.auto_detect = FALSE]} \cup OneOff
  BY DEF Init
<1>8. ASSUME settings \in {Given, [Given EXCEPT !.auto_detect = FALSE]} \cup OneOff
      PROVE  settings.port["ingest"] = 1
  <2>1. CASE settings \in OneOff
    BY <1>6, <2>1
  <2>2. CASE settings = Given
    BY <1>1, <2>2
  <2>3. CASE settings = [Given EXCEPT !.auto_detect = FALSE]
    BY <1>1, <1>2, <2>3
  <2> QED  BY <1>8, <2>1, <2>2, <2>3, Zenon
<1> QED  BY <1>7, <1>8

(* No step changes the settings. *)
LEMMA SettingsKept == [Next]_vars => UNCHANGED settings
<1>1. \A p \in Pids : End(p) \/ Terminate(p) => UNCHANGED settings
  BY DEF End, Terminate
<1>2. StopKill => UNCHANGED settings
  BY DEF StopKill, Terminate, End
<1> QED
  BY <1>1, <1>2 DEF Next, StartStep, DownStep, vars, Run, OpenEngine, Migrate, Alloc, Bind, BindPort,
         StartPart, StartHttpGateway, WriteRuntime, StopManagers, CloseSocket, CloseEngine,
         RemoveRuntime, Exit, JobBegins, JobEnds, Crash, Signal, Reraise, StopRead, StopWait,
         ForeignPort

(* Settings.load returns one of the databases the layers name. *)
LEMMA LoadType ==
    ASSUME NEW l \in Layers(Dbs)
    PROVE  Load(l, Default) \in Dbs
  BY DEF Layers, Dbs, Load, LoadSettings, EnvSettings, FileOverride, InEnviron, Unset, Empty

-----------------------------------------------------------------------------
(* Types. *)

(* The part of TypeOK that the end of a process and a signal can change. *)
ProcessTypes ==
    /\ layers \in [run : Layers(Dbs), stop : Layers(Dbs)]
    /\ stage \in [Pids -> Stages] /\ db \in [Pids -> Dbs]
    /\ ingest \in [Pids -> Nat]
    /\ engine \in [Pids -> {"open", "closed"}]
    /\ owned \in [Pids -> BOOLEAN] /\ caught \in [Pids -> BOOLEAN] /\ job \in [Pids -> BOOLEAN]
    /\ owner \in [Ports -> Pids \cup {NoPid, Foreign}]
    /\ runtime \in [{"near", "far"} -> [pid : Pids, db : Dbs] \cup {None}]

(* Before any run, every variable has its type. *)
LEMMA LInvInit == Init => LInv
<1> SUFFICES ASSUME Init PROVE LInv
  OBVIOUS
<1>1. layers \in [run : Layers(Dbs), stop : Layers(Dbs)]
  BY DEF Init, Layers, Dbs
<1>2. stage \in [Pids -> Stages] /\ db \in [Pids -> Dbs]
  BY DEF Init, Stages, Dbs
<1>3. /\ stop \in [pc : {"idle", "kill", "wait", "returned", "warned", "error"},
                   pid : Pids \cup {NoPid}, dir : Directories, reused : BOOLEAN]
      /\ stop.pc = "idle"
  BY DEF Init, Directories
<1>4. runtime \in [{"near", "far"} -> [pid : Pids, db : Dbs] \cup {None}]
  BY DEF Init
<1>5. owner \in [Ports -> Pids \cup {NoPid, Foreign}]
  BY DEF Init
<1>6. /\ ingest \in [Pids -> Nat] /\ engine \in [Pids -> {"open", "closed"}]
      /\ owned \in [Pids -> BOOLEAN] /\ caught \in [Pids -> BOOLEAN]
      /\ job \in [Pids -> BOOLEAN]
  BY DEF Init
<1>7. runs \in 0..MaxRuns /\ kills \in 0..MaxKills /\ raced \in BOOLEAN
  <2>1. runs = 0 /\ kills = 0 /\ raced = FALSE
    BY DEF Init
  <2>2. raced \in BOOLEAN
    BY <2>1
  <2>3. runs \in 0..MaxRuns /\ kills \in 0..MaxKills
    BY <2>1, LifecycleAssumption
  <2> QED  BY <2>2, <2>3
<1>8. TypeOK
  BY <1>1, <1>2, <1>3, <1>4, <1>5, <1>6, <1>7 DEF TypeOK
<1> QED
  BY <1>3, <1>8, GivenPort DEF LInv

(* The end of a process keeps the types. *)
LEMMA EndTypes ==
    ASSUME NEW p \in Pids, ProcessTypes, End(p)
    PROVE  ProcessTypes'
<1>1. stage' \in [Pids -> Stages]
  BY DEF ProcessTypes, End, Stages
<1>2. owner' \in [Ports -> Pids \cup {NoPid, Foreign}]
  BY DEF ProcessTypes, End
<1>3. None' = None
  BY DEF None
<1> QED  BY <1>1, <1>2, <1>3 DEF ProcessTypes, End

(* SIGTERM keeps the types. *)
LEMMA TerminateTypes ==
    ASSUME NEW p \in Pids, ProcessTypes, Terminate(p)
    PROVE  ProcessTypes'
<1>1. CASE stage[p] = "running"
  <2>1. stage' \in [Pids -> Stages]
    BY <1>1, AbortMoves, StageSets DEF ProcessTypes, Terminate, Stages
  <2> QED  BY <1>1, <2>1 DEF ProcessTypes, Terminate, None
<1>2. CASE caught' = [caught EXCEPT ![p] = @ \/ ~owned[p]]
           /\ UNCHANGED <<layers, stage, db, ingest, engine, owned, job, owner, runtime>>
  <2>1. caught' \in [Pids -> BOOLEAN]
    BY <1>2 DEF ProcessTypes
  <2> QED  BY <1>2, <2>1 DEF ProcessTypes, None
<1>3. CASE End(p)
  BY <1>3, EndTypes
<1> QED  BY <1>1, <1>2, <1>3 DEF Terminate

(* Every step keeps the types. *)
LEMMA LInvStep == LInv /\ [Next]_vars => LInv'
<1> SUFFICES ASSUME LInv, [Next]_vars PROVE LInv'
  OBVIOUS
<1>z. settings' = settings
  BY SettingsKept
<1> USE LifecycleAssumption, <1>z
<1>t. ProcessTypes /\ TypeOK
  BY DEF LInv, TypeOK, ProcessTypes
<1>n. None \in [pid : {NoPid}, db : Dbs] /\ \A p \in Pids : p # NoPid
  BY DEF None, NoPid, Dbs
<1>r. ASSUME NEW p \in Pids, stage[p] \in Starting, Proceed(p)
      PROVE  stage' \in [Pids -> Stages]
  BY <1>r, <1>t, ProceedRises, StageSets DEF TypeOK, Stages, Rise
<1>d. ASSUME NEW p \in Pids, stage[p] \in Closing, Descend(p)
      PROVE  stage' \in [Pids -> Stages]
  BY <1>d, <1>t, DescendSinks, StageSets DEF TypeOK, Stages, Sink
<1>a. ASSUME NEW p \in Pids, Abort(p)
      PROVE  stage' \in [Pids -> Stages]
  BY <1>a, <1>t, AbortMoves, StageSets DEF TypeOK, Stages
<1>s. ASSUME UNCHANGED <<layers, stop>>, UNCHANGED <<db, ingest, engine, owned, caught, job,
                 owner, runtime, runs, kills, raced>>, stage' \in [Pids -> Stages]
      PROVE  LInv'
  BY <1>s DEF LInv, TypeOK, None
<1>e. ASSUME ProcessTypes', UNCHANGED <<stop, runs>>, kills' \in 0..MaxKills,
             UNCHANGED raced
      PROVE  LInv'
  BY <1>e DEF LInv, TypeOK, ProcessTypes
<1>1. ASSUME NEW p \in Pids, Run(p) PROVE LInv'
  <2>1. Load(layers.run, Default) \in Dbs
    BY <1>t, LoadType DEF TypeOK
  <2>2. stage' \in [Pids -> Stages] /\ db' \in [Pids -> Dbs]
    BY <1>1, <1>t, <2>1, StageSets DEF Run, TypeOK, Stages
  <2>3. runs' \in 0..MaxRuns
    BY <1>1, <1>t DEF Run, TypeOK
  <2>4. /\ stop' \in [pc : {"idle", "kill", "wait", "returned", "warned", "error"},
                       pid : Pids \cup {NoPid}, dir : Directories, reused : BOOLEAN]
        /\ stop'.pc = stop.pc /\ stop'.pid = stop.pid
    BY <1>1 DEF Run, LInv
  <2> QED  BY <1>1, <1>t, <2>2, <2>3, <2>4 DEF Run, LInv, TypeOK, None
<1>2. ASSUME NEW p \in Pids, OpenEngine(p) PROVE LInv'
  <2>1. stage' \in [Pids -> Stages]
    BY <1>2, <1>r, <1>a, StageSets DEF OpenEngine
  <2>2. engine' \in [Pids -> {"open", "closed"}]
    BY <1>2, <1>t DEF OpenEngine, TypeOK
  <2> QED  BY <1>2, <2>1, <2>2 DEF OpenEngine, LInv, TypeOK, None
<1>3. ASSUME NEW p \in Pids, Migrate(p) PROVE LInv'
  BY <1>3, <1>r, <1>a, <1>s, StageSets DEF Migrate
<1>4. ASSUME NEW p \in Pids, Alloc(p) PROVE LInv'
  <2> DEFINE free == {q \in PortRange : q \notin Reserved /\ owner[q] = NoPid}
  <2>1. stage' \in [Pids -> Stages]
    BY <1>4, <1>r, <1>a, StageSets DEF Alloc
  <2>2. free # {} => Min(free) \in Nat
    BY MinPort DEF PortRange
  <2>3. \/ ingest' = ingest
        \/ free # {} /\ ingest' = [ingest EXCEPT ![p] = Min(free)]
        \/ ingest' = [ingest EXCEPT ![p] = settings.port["ingest"]]
    BY <1>4 DEF Alloc
  <2> HIDE DEF free
  <2>4. ingest' \in [Pids -> Nat]
    BY <1>t, <2>2, <2>3 DEF TypeOK, LInv
  <2> QED  BY <1>4, <2>1, <2>4 DEF Alloc, LInv, TypeOK, None
<1>b. ASSUME NEW p \in Pids, stage[p] \in Starting, BindPort(p) PROVE LInv'
  <2>1. stage' \in [Pids -> Stages]
    BY <1>b, <1>r, <1>a DEF BindPort
  <2>2. owner' \in [Ports -> Pids \cup {NoPid, Foreign}]
    BY <1>b, <1>t DEF BindPort, TypeOK
  <2> QED  BY <1>b, <2>1, <2>2 DEF BindPort, LInv, TypeOK, None
<1>5. ASSUME NEW p \in Pids, Bind(p) PROVE LInv'
  BY <1>5, <1>b, StageSets DEF Bind
<1>6. ASSUME NEW p \in Pids, StartHttpGateway(p) PROVE LInv'
  BY <1>6, <1>b, StageSets DEF StartHttpGateway
<1>7. ASSUME NEW p \in Pids, StartPart(p) PROVE LInv'
  BY <1>7, <1>r, <1>a, <1>s, StageSets DEF StartPart
<1>8. ASSUME NEW p \in Pids, WriteRuntime(p) PROVE LInv'
  <2>1. stage' \in [Pids -> Stages]
    BY <1>8, <1>r, <1>a, StageSets DEF WriteRuntime
  <2>2. owned' \in [Pids -> BOOLEAN] /\ raced' \in BOOLEAN
    BY <1>8, <1>t DEF WriteRuntime, TypeOK
  <2>3. runtime' \in [{"near", "far"} -> [pid : Pids, db : Dbs] \cup {None}]
    BY <1>8, <1>t DEF WriteRuntime, TypeOK, DirOf
  <2> QED  BY <1>8, <2>1, <2>2, <2>3 DEF WriteRuntime, LInv, TypeOK, None
<1>9. ASSUME NEW p \in Pids, StopManagers(p) PROVE LInv'
  BY <1>9, <1>d, <1>s, StageSets DEF StopManagers
<1>10. ASSUME NEW p \in Pids, CloseSocket(p) PROVE LInv'
  <2>1. stage' \in [Pids -> Stages]
    BY <1>10, <1>d, StageSets DEF CloseSocket, SocketOf
  <2>2. owner' \in [Ports -> Pids \cup {NoPid, Foreign}]
    BY <1>10, <1>t DEF CloseSocket, Release, TypeOK
  <2> QED  BY <1>10, <2>1, <2>2 DEF CloseSocket, LInv, TypeOK, None
<1>11. ASSUME NEW p \in Pids, CloseEngine(p) PROVE LInv'
  <2>1. stage' \in [Pids -> Stages]
    BY <1>11, <1>d, StageSets DEF CloseEngine
  <2>2. engine' \in [Pids -> {"open", "closed"}]
    BY <1>11, <1>t DEF CloseEngine, TypeOK
  <2> QED  BY <1>11, <2>1, <2>2 DEF CloseEngine, LInv, TypeOK, None
<1>12. ASSUME NEW p \in Pids, RemoveRuntime(p) PROVE LInv'
  <2>1. stage' \in [Pids -> Stages]
    BY <1>12, <1>d, StageSets DEF RemoveRuntime
  <2>2. runtime' \in [{"near", "far"} -> [pid : Pids, db : Dbs] \cup {None}]
    BY <1>12, <1>t DEF RemoveRuntime, TypeOK, DirOf
  <2> QED  BY <1>12, <2>1, <2>2 DEF RemoveRuntime, LInv, TypeOK, None
<1>13. ASSUME NEW p \in Pids, Exit(p) PROVE LInv'
  BY <1>13, <1>t, <1>e, EndTypes DEF Exit, TypeOK
<1>14. ASSUME NEW p \in Pids, JobBegins(p) \/ JobEnds(p) PROVE LInv'
  <2>1. job' \in [Pids -> BOOLEAN]
    BY <1>14, <1>t DEF JobBegins, JobEnds, TypeOK
  <2> QED  BY <1>14, <2>1 DEF JobBegins, JobEnds, LInv, TypeOK, None
<1>15. ASSUME NEW p \in Pids, Crash(p) PROVE LInv'
  <2>1. kills' \in 0..MaxKills
    BY <1>15, <1>t DEF Crash, TypeOK
  <2> QED  BY <1>15, <1>t, <1>e, <2>1, EndTypes DEF Crash
<1>16. ASSUME NEW p \in Pids, Signal(p) PROVE LInv'
  <2>1. kills' \in 0..MaxKills
    BY <1>16, <1>t DEF Signal, TypeOK
  <2> QED  BY <1>16, <1>t, <1>e, <2>1, TerminateTypes DEF Signal
<1>17. ASSUME NEW p \in Pids, Reraise(p) PROVE LInv'
  BY <1>17, <1>t, <1>e, EndTypes DEF Reraise, TypeOK
<1>18. ASSUME StopRead PROVE LInv'
  <2>1. Load(layers.stop, Default) \in Dbs
    BY <1>t, LoadType DEF TypeOK
  <2>2. DirOf(Load(layers.stop, Default)) \in Directories
    BY DEF DirOf, Directories
  <2>3. runtime[DirOf(Load(layers.stop, Default))] \in [pid : Pids, db : Dbs] \cup {None}
    BY <1>t, <2>2 DEF TypeOK, Directories
  <2>4. /\ stop' \in [pc : {"idle", "kill", "wait", "returned", "warned", "error"},
                       pid : Pids \cup {NoPid}, dir : Directories, reused : BOOLEAN]
        /\ stop'.pc \in {"kill", "wait", "returned"} => stop'.pid \in Pids
    BY <1>18, <2>2, <2>3 DEF StopRead, LInv
  <2> QED  BY <1>18, <1>t, <2>4 DEF StopRead, LInv, TypeOK, None
<1>19. ASSUME StopKill PROVE LInv'
  <2>1. /\ stop' \in [pc : {"idle", "kill", "wait", "returned", "warned", "error"},
                       pid : Pids \cup {NoPid}, dir : Directories, reused : BOOLEAN]
        /\ stop'.pc \in {"kill", "wait", "returned"} => stop'.pid \in Pids
    BY <1>19 DEF StopKill, LInv
  <2>2. stop.pid \in Pids
    BY <1>19 DEF StopKill, LInv
  <2>3. ProcessTypes'
    <3>1. CASE Terminate(stop.pid)
      BY <1>t, <2>2, <3>1, TerminateTypes
    <3>2. CASE UNCHANGED <<layers, settings, stage, db, ingest, engine, owned, caught, job,
                           owner, runtime>>
      BY <1>t, <3>2 DEF ProcessTypes, None
    <3> QED  BY <1>19, <3>1, <3>2 DEF StopKill
  <2> QED  BY <1>19, <1>t, <2>1, <2>3 DEF StopKill, LInv, TypeOK, ProcessTypes
<1>20. ASSUME StopWait PROVE LInv'
  <2>1. /\ stop' \in [pc : {"idle", "kill", "wait", "returned", "warned", "error"},
                       pid : Pids \cup {NoPid}, dir : Directories, reused : BOOLEAN]
        /\ stop'.pc \in {"kill", "wait", "returned"} => stop'.pid \in Pids
    BY <1>20 DEF StopWait, LInv
  <2> QED  BY <1>20, <1>t, <2>1 DEF StopWait, LInv, TypeOK, None
<1>21. ASSUME ForeignPort PROVE LInv'
  <2>1. owner' \in [Ports -> Pids \cup {NoPid, Foreign}]
    BY <1>21, <1>t DEF ForeignPort, TypeOK
  <2> QED  BY <1>21, <2>1 DEF ForeignPort, LInv, TypeOK, None
<1>22. CASE UNCHANGED vars
  BY <1>22 DEF vars, LInv, TypeOK, None
<1> QED
  BY <1>1, <1>2, <1>3, <1>4, <1>5, <1>6, <1>7, <1>8, <1>9, <1>10, <1>11, <1>12, <1>13, <1>14,
     <1>15, <1>16, <1>17, <1>18, <1>19, <1>20, <1>21, <1>22
     DEF Next, StartStep, DownStep

-----------------------------------------------------------------------------
(* Sockets and the engine. *)

(* A step up closes nothing for good, and a step down closes at most the     *)
(* part whose stage it leaves: first of a step up.                           *)
LEMMA RiseOpen ==
    ASSUME NEW a, NEW b, Rise(a, b), NEW s \in Sockets
    PROVE  b \notin Closed(s) /\ b \notin {"down_runtime", "join", Gone}
  BY DEF Rise, Closed, Gone, Sockets

(* The same of a step down. *)
LEMMA SinkCloses ==
    ASSUME NEW a, NEW b, Sink(a, b), NEW s \in Sockets, b \in Closed(s)
    PROVE  a \in Closed(s) \/ (a \in DOMAIN SocketOf /\ SocketOf[a] = s)
  BY DEF Sink, Closed, Gone, SocketOf, Sockets

(* The first stage of the shutdown has closed nothing yet. *)
LEMMA ManagersOpen == \A s \in Sockets : "managers" \notin Closed(s)
  BY DEF Closed, Gone, Sockets

(* At the join, and when the process is gone, every socket is closed. *)
LEMMA GoneClosed == \A s \in Sockets : Gone \in Closed(s) /\ "join" \in Closed(s)
  BY DEF Closed, Sockets

(* Before any run, no process has a port. *)
LEMMA HoldInit == Init => HoldInv
  BY LifecycleAssumption DEF Init, HoldInv, HoldOf, NoPid

(* The end of one process gives back its ports and leaves the others theirs. *)
LEMMA EndHold ==
    ASSUME LInv, NEW p \in Pids, NEW o \in Pids, HoldOf(o), End(p)
    PROVE  HoldOf(o)'
<1>1. \A q \in Ports : owner'[q] = o => owner[q] = o /\ o # p
  BY LifecycleAssumption DEF End, NoPid, LInv, TypeOK
<1>2. CASE o = p
  BY <1>1, <1>2 DEF End, HoldOf, LInv, TypeOK
<1>3. CASE o # p
  <2>1. /\ stage'[o] = stage[o] /\ ingest'[o] = ingest[o] /\ engine'[o] = engine[o]
        /\ settings' = settings
    BY <1>3 DEF End, LInv, TypeOK
  <2> QED  BY <1>1, <2>1 DEF HoldOf, PortOf
<1> QED  BY <1>2, <1>3

(* Every step keeps the bookkeeping of ports and engines. *)
LEMMA HoldStep == LInv /\ HoldInv /\ [Next]_vars => HoldInv'
<1> SUFFICES ASSUME LInv, HoldInv, [Next]_vars, NEW o \in Pids
             PROVE  HoldOf(o)'
  BY DEF HoldInv
<1>z. settings' = settings
  BY SettingsKept
<1> USE LifecycleAssumption, <1>z
<1>t. TypeOK /\ HoldOf(o)
  BY DEF LInv, HoldInv
<1>n. \A p \in Pids : p # NoPid /\ p # Foreign
  BY DEF NoPid, Foreign
<1>o. ASSUME stage'[o] = stage[o], ingest'[o] = ingest[o], engine'[o] = engine[o],
             \A q \in Ports : owner'[q] = o => owner[q] = o
      PROVE  HoldOf(o)'
  BY <1>o, <1>t DEF HoldOf, PortOf
(* A step of the start or into the shutdown that opens nothing. *)
<1>r. ASSUME stage'[o] = "managers" \/ (stage[o] # "alloc" /\ Rise(stage[o], stage'[o])),
             ingest'[o] = ingest[o],
             \A q \in Ports : owner'[q] = o =>
                owner[q] = o \/ \E s \in Sockets : q = PortOf(o, s)
      PROVE  HoldOf(o)'
  <2>1. \A s \in Sockets : stage'[o] \notin Closed(s)
    BY <1>r, RiseOpen, ManagersOpen
  <2>2. stage'[o] \notin {"down_runtime", "join", Gone}
    BY <1>r, RiseOpen DEF Gone, Sockets
  <2>3. stage'[o] \in {Gone, "engine", "migrate", "stream", "alloc"} =>
           stage[o] \in {Gone, "engine", "migrate", "stream", "alloc"}
    BY <1>r, <2>2 DEF Rise
  <2>4. \A q \in Ports : owner'[q] = o => \E s \in Sockets : q = PortOf(o, s)
    BY <1>r, <1>t DEF HoldOf
  <2> QED  BY <1>r, <1>t, <2>1, <2>2, <2>3, <2>4 DEF HoldOf, PortOf
<1>a. ASSUME NEW p \in Pids, stage[p] \in Starting \ {"alloc"}, Proceed(p) \/ Abort(p),
             UNCHANGED <<ingest, owner>>, o # p => engine'[o] = engine[o]
      PROVE  HoldOf(o)'
  <2>1. CASE o = p
    BY <1>a, <1>t, <1>r, <2>1, ProceedRises, AbortMoves DEF TypeOK
  <2>2. CASE o # p
    <3>1. stage'[o] = stage[o]
      BY <1>a, <1>t, <2>2, ProceedRises, AbortMoves DEF TypeOK
    <3> QED  BY <1>a, <1>o, <2>2, <3>1
  <2> QED  BY <2>1, <2>2
(* A step of the shutdown. *)
<1>d. ASSUME NEW p \in Pids, stage[p] \in Closing, Descend(p), UNCHANGED ingest,
             \A q \in Ports : owner'[q] = o => owner[q] = o,
             o = p /\ stage[o] \in DOMAIN SocketOf =>
                \A q \in Ports : q = PortOf(o, SocketOf[stage[o]]) => owner'[q] # o,
             engine'[o] = engine[o] \/ (o = p /\ engine'[o] = "closed"),
             o = p /\ stage[o] = "down_engine" => engine'[o] = "closed"
      PROVE  HoldOf(o)'
  <2>1. CASE o = p
    <3>1. Sink(stage[o], stage'[o])
      BY <1>d, <1>t, <2>1, DescendSinks DEF TypeOK
    <3>2. stage'[o] \notin {Gone, "engine", "migrate", "stream", "alloc"}
      BY <3>1 DEF Sink, Gone
    <3>3. stage'[o] \in {"down_runtime", "join", Gone} => engine'[o] = "closed"
      BY <1>d, <1>t, <2>1, <3>1 DEF Sink, HoldOf, Gone
    <3>4. ASSUME NEW s \in Sockets, NEW q \in Ports, stage'[o] \in Closed(s),
                 q = PortOf(o, s)
          PROVE  owner'[q] # o
      BY <1>d, <1>t, <2>1, <3>1, <3>4, SinkCloses DEF HoldOf
    <3>5. \A s : PortOf(o, s)' = PortOf(o, s)
      BY <1>d DEF PortOf
    <3>6. \A q \in Ports : owner'[q] = o => \E s \in Sockets : q = PortOf(o, s)
      BY <1>d, <1>t DEF HoldOf
    <3> QED  BY <3>2, <3>3, <3>4, <3>5, <3>6 DEF HoldOf
  <2>2. CASE o # p
    <3>1. stage'[o] = stage[o]
      BY <1>d, <1>t, <2>2, DescendSinks DEF TypeOK
    <3> QED  BY <1>d, <1>o, <2>2, <3>1
  <2> QED  BY <2>1, <2>2
<1>1. ASSUME NEW p \in Pids, Run(p) PROVE HoldOf(o)'
  <2>1. stage'[o] = stage[o] \/ (stage[o] = Gone /\ stage'[o] = "engine")
    BY <1>1, <1>t DEF Run, TypeOK
  <2>2. ingest' = ingest /\ engine' = engine /\ owner' = owner
    BY <1>1 DEF Run
  <2>3. \A s \in Sockets : "engine" \notin Closed(s)
    BY DEF Sockets, Closed, Gone
  <2>4. CASE stage'[o] = stage[o]
    BY <1>o, <2>2, <2>4
  <2>5. CASE stage[o] = Gone /\ stage'[o] = "engine"
    BY <1>t, <2>2, <2>3, <2>5 DEF HoldOf, PortOf, Gone
  <2> QED  BY <2>1, <2>4, <2>5
<1>2. ASSUME NEW p \in Pids, OpenEngine(p) PROVE HoldOf(o)'
  <2>1. o # p => engine'[o] = engine[o]
    BY <1>2, <1>t DEF OpenEngine, TypeOK
  <2> QED  BY <1>2, <1>a, <2>1, StageSets DEF OpenEngine
<1>3. ASSUME NEW p \in Pids, Migrate(p) PROVE HoldOf(o)'
  BY <1>3, <1>a, StageSets DEF Migrate
<1>4. ASSUME NEW p \in Pids, Alloc(p) PROVE HoldOf(o)'
  <2>1. CASE o # p
    <3>1. stage'[o] = stage[o]
      BY <1>4, <1>t, <2>1, ProceedRises, AbortMoves, StageSets DEF TypeOK, Alloc
    <3>2. ingest'[o] = ingest[o] /\ engine' = engine /\ owner' = owner
      BY <1>4, <1>t, <2>1 DEF Alloc, TypeOK
    <3> QED  BY <1>o, <3>1, <3>2
  <2>2. CASE o = p
    <3>1. stage[o] = "alloc" /\ ingest[o] = 0
      BY <1>4, <1>t, <2>2 DEF Alloc, HoldOf
    <3>2. engine' = engine /\ owner' = owner
      BY <1>4 DEF Alloc
    <3>3. stage'[o] \in {"managers", "ingest"}
      BY <1>4, <1>t, <2>2, <3>1, ProceedRises, AbortMoves, StageSets DEF TypeOK, Alloc, Rise
    <3>4. \A s \in Sockets : stage'[o] \notin Closed(s)
      BY <3>3 DEF Sockets, Closed, Gone
    <3>5. \A q \in Ports : owner[q] = o => \E s \in Sockets \ {"ingest"} : q = PortOf(o, s)
      BY <1>t, <3>1 DEF HoldOf, PortOf, Ports
    <3>6. \A s \in Sockets \ {"ingest"} : PortOf(o, s)' = PortOf(o, s)
      BY DEF PortOf
    <3>7. \A q \in Ports : owner'[q] = o => \E s \in Sockets : q = PortOf(o, s)'
      BY <3>2, <3>5, <3>6
    <3> QED  BY <3>3, <3>4, <3>7 DEF HoldOf, Gone
  <2> QED  BY <2>1, <2>2
<1>b. ASSUME NEW p \in Pids, stage[p] \in Sockets, BindPort(p) PROVE HoldOf(o)'
  <2>0. stage[p] \in Starting \ {"alloc"}
    BY <1>b, StageSets DEF Sockets
  <2>1. CASE o = p
    <3>1. stage'[o] = "managers" \/ Rise(stage[o], stage'[o])
      BY <1>b, <1>t, <2>0, <2>1, ProceedRises, AbortMoves DEF TypeOK, BindPort
    <3>2. \A q \in Ports : owner'[q] = o =>
             owner[q] = o \/ \E s \in Sockets : q = PortOf(o, s)
      BY <1>b, <1>t, <2>1 DEF BindPort, TypeOK
    <3>3. ingest' = ingest
      BY <1>b DEF BindPort
    <3> QED  BY <1>r, <2>0, <2>1, <3>1, <3>2, <3>3
  <2>2. CASE o # p
    <3>1. stage'[o] = stage[o]
      BY <1>b, <1>t, <2>0, <2>2, ProceedRises, AbortMoves DEF TypeOK, BindPort
    <3>2. \A q \in Ports : owner'[q] = o => owner[q] = o
      BY <1>b, <1>t, <2>2 DEF BindPort, TypeOK
    <3> QED  BY <1>b, <1>o, <3>1, <3>2 DEF BindPort
  <2> QED  BY <2>1, <2>2
<1>5. ASSUME NEW p \in Pids, Bind(p) PROVE HoldOf(o)'
  BY <1>5, <1>b DEF Bind, Sockets
<1>6. ASSUME NEW p \in Pids, StartHttpGateway(p) PROVE HoldOf(o)'
  BY <1>6, <1>b DEF StartHttpGateway, Sockets
<1>7. ASSUME NEW p \in Pids, StartPart(p) PROVE HoldOf(o)'
  BY <1>7, <1>a, StageSets DEF StartPart
<1>8. ASSUME NEW p \in Pids, WriteRuntime(p) PROVE HoldOf(o)'
  BY <1>8, <1>a, StageSets DEF WriteRuntime
<1>9. ASSUME NEW p \in Pids, StopManagers(p) PROVE HoldOf(o)'
  BY <1>9, <1>d, StageSets DEF StopManagers, SocketOf
<1>10. ASSUME NEW p \in Pids, CloseSocket(p) PROVE HoldOf(o)'
  <2>1. stage[p] \in Closing /\ stage[p] # "down_engine"
    BY <1>10, StageSets DEF CloseSocket, SocketOf
  <2>2. \A q \in Ports : owner'[q] = o => owner[q] = o
    BY <1>10, <1>n DEF CloseSocket, Release
  <2>3. o = p => \A q \in Ports : q = PortOf(o, SocketOf[stage[o]]) => owner'[q] # o
    BY <1>10, <1>n DEF CloseSocket, Release
  <2> QED  BY <1>10, <1>d, <2>1, <2>2, <2>3 DEF CloseSocket
<1>11. ASSUME NEW p \in Pids, CloseEngine(p) PROVE HoldOf(o)'
  <2>1. engine'[o] = engine[o] \/ (o = p /\ engine'[o] = "closed")
    BY <1>11, <1>t DEF CloseEngine, TypeOK
  <2>2. o = p => engine'[o] = "closed"
    BY <1>11, <1>t DEF CloseEngine, TypeOK
  <2>3. stage[p] \in Closing /\ stage[p] \notin DOMAIN SocketOf
    BY <1>11, StageSets DEF CloseEngine, SocketOf
  <2> QED  BY <1>11, <1>d, <2>1, <2>2, <2>3 DEF CloseEngine
<1>12. ASSUME NEW p \in Pids, RemoveRuntime(p) PROVE HoldOf(o)'
  BY <1>12, <1>d, StageSets DEF RemoveRuntime, SocketOf
<1>e. ASSUME NEW p \in Pids, End(p) PROVE HoldOf(o)'
  BY <1>e, <1>t, EndHold
<1>T. ASSUME NEW p \in Pids, Terminate(p) PROVE HoldOf(o)'
  <2>1. CASE stage[p] = "running"
    <3>1. stage' = [stage EXCEPT ![p] = "managers"] /\ UNCHANGED <<ingest, engine, owner>>
      BY <1>T, <1>t, <2>1, AbortMoves DEF Terminate, TypeOK
    <3>2. CASE o = p
      BY <1>t, <1>r, <3>1, <3>2 DEF TypeOK
    <3>3. CASE o # p
      BY <1>t, <1>o, <3>1, <3>3 DEF TypeOK
    <3> QED  BY <3>2, <3>3
  <2>2. CASE UNCHANGED <<stage, ingest, engine, owner>>
    BY <1>o, <2>2
  <2> QED  BY <1>T, <1>e, <2>1, <2>2 DEF Terminate
<1>13. ASSUME NEW p \in Pids, Exit(p) \/ Crash(p) \/ Reraise(p) PROVE HoldOf(o)'
  BY <1>13, <1>e DEF Exit, Crash, Reraise
<1>14. ASSUME NEW p \in Pids, JobBegins(p) \/ JobEnds(p) PROVE HoldOf(o)'
  BY <1>14, <1>o DEF JobBegins, JobEnds
<1>15. ASSUME NEW p \in Pids, Signal(p) PROVE HoldOf(o)'
  BY <1>15, <1>T DEF Signal
<1>16. ASSUME StopRead \/ StopWait PROVE HoldOf(o)'
  BY <1>16, <1>o DEF StopRead, StopWait
<1>17. ASSUME StopKill PROVE HoldOf(o)'
  <2>1. CASE stop.pid \in Live
    BY <1>17, <1>T, <2>1 DEF StopKill, Live
  <2>2. CASE stop.pid \notin Live
    BY <1>17, <1>o, <2>2 DEF StopKill
  <2> QED  BY <2>1, <2>2
<1>18. ASSUME ForeignPort PROVE HoldOf(o)'
  <2>1. \A q \in Ports : owner'[q] = o => owner[q] = o
    BY <1>18, <1>t, <1>n DEF ForeignPort, TypeOK
  <2> QED  BY <1>18, <1>o, <2>1 DEF ForeignPort
<1>19. CASE UNCHANGED vars
  BY <1>19, <1>o DEF vars
<1> QED
  BY <1>1, <1>2, <1>3, <1>4, <1>5, <1>6, <1>7, <1>8, <1>9, <1>10, <1>11, <1>12, <1>13, <1>14,
     <1>15, <1>16, <1>17, <1>18, <1>19
     DEF Next, StartStep, DownStep

-----------------------------------------------------------------------------
(* The runtime file, and the stop command. *)

(* What a signal or the end of a process does, for the variables the         *)
(* runtime file's invariant is about.                                        *)
Ended(p) ==
    /\ stage' = [stage EXCEPT ![p] = Gone]
    /\ owned' = [owned EXCEPT ![p] = FALSE]
    /\ UNCHANGED <<layers, db, runtime>>

Moved(p, b) ==
    /\ stage' = [stage EXCEPT ![p] = b]
    /\ UNCHANGED <<layers, db, owned, runtime>>

FileUnchanged == UNCHANGED <<layers, stage, db, owned, runtime>>

(* Every step, in terms of these variables: *)
FileStep ==
    \/ FileUnchanged /\ UNCHANGED raced
    \/ \E p \in Pids :
          /\ stage[p] = Gone
          /\ runtime[DirOf(Load(layers.run, Default))].pid # p
          /\ stage' = [stage EXCEPT ![p] = "engine"]
          /\ db' = [db EXCEPT ![p] = Load(layers.run, Default)]
          /\ stop' = [stop EXCEPT !.reused = @ \/ p = stop.pid]
          /\ UNCHANGED <<layers, owned, runtime, raced>>
    \/ \E p \in Pids : \E b \in Starting \cup {"managers"} :
          stage[p] \in Starting /\ Moved(p, b) /\ UNCHANGED raced
    \/ \E p \in Pids : stage[p] = "running" /\ Moved(p, "managers") /\ UNCHANGED raced
    \/ \E p \in Pids : \E b \in Closing :
          stage[p] \in Closing /\ Moved(p, b) /\ UNCHANGED raced
    \/ \E p \in Pids :
          /\ stage[p] = "runtime"
          /\ stage' = [stage EXCEPT ![p] = "running"]
          /\ runtime' = [runtime EXCEPT ![DirOf(db[p])] = [pid |-> p, db |-> db[p]]]
          /\ owned' = [owned EXCEPT ![p] = TRUE]
          /\ raced' = (raced \/ \E o \in Pids \ {p} : Owns(o) /\ DirOf(db[o]) = DirOf(db[p]))
          /\ UNCHANGED <<layers, db>>
    \/ \E p \in Pids :
          /\ stage[p] = "down_runtime"
          /\ stage' = [stage EXCEPT ![p] = "join"]
          /\ runtime' = IF owned[p] THEN [runtime EXCEPT ![DirOf(db[p])] = None] ELSE runtime
          /\ UNCHANGED <<layers, db, owned, raced>>
    \/ \E p \in Pids : stage[p] # Gone /\ Ended(p) /\ UNCHANGED raced

(* Every step is one of these. *)
LEMMA FileSteps == LInv /\ [Next]_vars => FileStep
<1> SUFFICES ASSUME LInv, [Next]_vars PROVE FileStep
  OBVIOUS
<1> USE LifecycleAssumption
<1>t. TypeOK
  BY DEF LInv
<1>u. ASSUME FileUnchanged, UNCHANGED raced PROVE FileStep
  BY <1>u DEF FileStep
<1>r. ASSUME NEW p \in Pids, stage[p] \in Starting \ {"runtime"}, Proceed(p) \/ Abort(p),
             UNCHANGED <<layers, db, owned, runtime, raced>>
      PROVE  FileStep
  <2>1. stage' = [stage EXCEPT ![p] = stage'[p]] /\ stage'[p] \in Starting \cup {"managers"}
    BY <1>r, <1>t, ProceedRises, AbortMoves, StageSets DEF TypeOK, Rise
  <2> QED  BY <1>r, <2>1 DEF FileStep, Moved
<1>d. ASSUME NEW p \in Pids, stage[p] \in Closing \ {"down_runtime"}, Descend(p),
             UNCHANGED <<layers, db, owned, runtime, raced>>
      PROVE  FileStep
  <2>1. stage' = [stage EXCEPT ![p] = stage'[p]] /\ stage'[p] \in Closing
    BY <1>d, <1>t, DescendSinks, StageSets DEF TypeOK, Sink
  <2> QED  BY <1>d, <2>1 DEF FileStep, Moved
<1>e. ASSUME NEW p \in Pids, stage[p] # Gone, End(p), UNCHANGED raced PROVE FileStep
  BY <1>e DEF FileStep, End, Ended
<1>T. ASSUME NEW p \in Pids, stage[p] # Gone, Terminate(p), UNCHANGED raced PROVE FileStep
  <2>1. CASE stage[p] = "running"
    BY <1>T, <1>t, <2>1, AbortMoves DEF Terminate, FileStep, Moved, TypeOK
  <2>2. CASE FileUnchanged
    BY <1>T, <1>u, <2>2
  <2> QED  BY <1>T, <1>e, <2>1, <2>2 DEF Terminate, FileUnchanged
<1>1. ASSUME NEW p \in Pids, Run(p) PROVE FileStep
  <2> DEFINE d == Load(layers.run, Default)
  <2>1. CASE UNCHANGED <<stage, db>>
    BY <1>1, <1>u, <2>1 DEF Run, FileUnchanged
  <2>2. CASE ~UNCHANGED <<stage, db>>
    <3>1. /\ stage' = [stage EXCEPT ![p] = "engine"] /\ db' = [db EXCEPT ![p] = d]
          /\ ~(runtime[DirOf(d)] # None /\ PidIsSqtseries(runtime[DirOf(d)].pid, p))
      BY <1>1, <2>2 DEF Run
    <3>2. runtime[DirOf(d)].pid # p
      BY <3>1 DEF PidIsSqtseries, None, NoPid
    <3> QED  BY <1>1, <3>1, <3>2 DEF Run, FileStep
  <2> QED  BY <2>1, <2>2
<1>2. ASSUME NEW p \in Pids, OpenEngine(p) \/ Migrate(p) PROVE FileStep
  BY <1>2, <1>r, StageSets DEF OpenEngine, Migrate
<1>3. ASSUME NEW p \in Pids, Alloc(p) PROVE FileStep
  BY <1>3, <1>r, StageSets DEF Alloc
<1>4. ASSUME NEW p \in Pids, Bind(p) \/ StartHttpGateway(p) PROVE FileStep
  BY <1>4, <1>r, StageSets DEF Bind, StartHttpGateway, BindPort
<1>5. ASSUME NEW p \in Pids, StartPart(p) PROVE FileStep
  BY <1>5, <1>r, StageSets DEF StartPart
<1>6. ASSUME NEW p \in Pids, WriteRuntime(p) PROVE FileStep
  <2>1. CASE Abort(p) /\ UNCHANGED <<runtime, owned, raced>>
    <3>1. stage' = [stage EXCEPT ![p] = "managers"]
      BY <1>t, <2>1, AbortMoves DEF TypeOK
    <3> QED  BY <1>6, <2>1, <3>1, StageSets DEF WriteRuntime, FileStep, Moved
  <2>2. CASE ~(Abort(p) /\ UNCHANGED <<runtime, owned, raced>>)
    <3>1. stage' = [stage EXCEPT ![p] = "running"]
      BY <1>6, <2>2 DEF WriteRuntime, Proceed
    <3> QED  BY <1>6, <2>2, <3>1 DEF WriteRuntime, FileStep, Owns
  <2> QED  BY <2>1, <2>2
<1>7. ASSUME NEW p \in Pids, StopManagers(p) \/ CloseSocket(p) \/ CloseEngine(p) PROVE FileStep
  BY <1>7, <1>d, StageSets DEF StopManagers, CloseSocket, CloseEngine, SocketOf
<1>8. ASSUME NEW p \in Pids, RemoveRuntime(p) PROVE FileStep
  <2>1. stage' = [stage EXCEPT ![p] = "join"]
    BY <1>8, <1>t, DescendSinks, StageSets DEF RemoveRuntime, TypeOK, Sink
  <2> QED  BY <1>8, <2>1 DEF RemoveRuntime, RemovesFile, FileStep
<1>9. ASSUME NEW p \in Pids, Exit(p) \/ Crash(p) \/ Reraise(p) PROVE FileStep
  BY <1>9, <1>e, StageSets DEF Exit, Crash, Reraise, Live, Gone
<1>10. ASSUME NEW p \in Pids, JobBegins(p) \/ JobEnds(p) PROVE FileStep
  BY <1>10, <1>u DEF JobBegins, JobEnds, FileUnchanged
<1>11. ASSUME NEW p \in Pids, Signal(p) PROVE FileStep
  BY <1>11, <1>T DEF Signal, Live
<1>12. ASSUME StopRead \/ StopWait \/ ForeignPort PROVE FileStep
  BY <1>12, <1>u DEF StopRead, StopWait, ForeignPort, FileUnchanged
<1>13. ASSUME StopKill PROVE FileStep
  <2>1. CASE stop.pid \in Live
    BY <1>13, <1>T, <2>1 DEF StopKill, Live
  <2>2. CASE stop.pid \notin Live
    BY <1>13, <1>u, <2>2 DEF StopKill, FileUnchanged
  <2> QED  BY <2>1, <2>2
<1>14. CASE UNCHANGED vars
  BY <1>14, <1>u DEF vars, FileUnchanged
<1> QED
  BY <1>1, <1>2, <1>3, <1>4, <1>5, <1>6, <1>7, <1>8, <1>9, <1>10, <1>11, <1>12, <1>13, <1>14
     DEF Next, StartStep, DownStep

(* A process serves what its configuration names, from its start to its end. *)
LEMMA RunStep == LInv /\ RunInv /\ FileStep => RunInv'
<1> SUFFICES ASSUME LInv, RunInv, FileStep, NEW o \in Pids, stage'[o] # Gone
             PROVE  db'[o] = Load(layers.run, Default)'
  BY DEF RunInv
<1>t. stage \in [Pids -> Stages] /\ db \in [Pids -> Dbs]
  BY DEF LInv, TypeOK
<1>1. layers' = layers
  BY DEF FileStep, FileUnchanged, Moved, Ended
<1>2. Load(layers.run, Default)' = Load(layers.run, Default)
  BY <1>1
<1>3. CASE stage[o] = Gone
  BY <1>t, <1>3, StageSets DEF FileStep, FileUnchanged, Moved, Ended, Gone
<1>4. CASE stage[o] # Gone
  <2>1. db'[o] = db[o]
    BY <1>t, <1>4 DEF FileStep, FileUnchanged, Moved, Ended
  <2> QED  BY <1>2, <1>4, <2>1 DEF RunInv
<1> QED  BY <1>2, <1>3, <1>4

(* Every step keeps what the runtime file says of its owner. *)
LEMMA FileInvStep == LInv /\ FileInv /\ FileStep => FileInv'
<1> SUFFICES ASSUME LInv, FileInv, FileStep PROVE FileInv'
  OBVIOUS
<1> USE StageSets DEF Owns
<1>t. /\ stage \in [Pids -> Stages] /\ db \in [Pids -> Dbs] /\ owned \in [Pids -> BOOLEAN]
      /\ runtime \in [Directories -> [pid : Pids, db : Dbs] \cup {None}]
  BY DEF LInv, TypeOK, Directories
<1>c. Closing' = Closing /\ None' = None /\ \A d : DirOf(d)' = DirOf(d) /\ DirOf(d) \in Directories
  BY DEF Closing, None, DirOf, Directories
<1>1. CASE FileUnchanged /\ UNCHANGED raced
  BY <1>1 DEF FileInv, FileUnchanged
<1>2. ASSUME NEW p \in Pids, stage[p] = Gone,
             stage' = [stage EXCEPT ![p] = "engine"],
             db' = [db EXCEPT ![p] = Load(layers.run, Default)],
             UNCHANGED <<layers, owned, runtime, raced>>
      PROVE  FileInv'
  <2>1. ~owned[p]
    BY <1>2 DEF FileInv, Gone
  <2> QED  BY <1>2, <1>t, <2>1 DEF FileInv
<1>3. ASSUME NEW p \in Pids, NEW b \in Starting \cup {"managers"}, stage[p] \in Starting,
             Moved(p, b), UNCHANGED raced
      PROVE  FileInv'
  <2>1. ~owned[p]
    BY <1>3 DEF FileInv
  <2> QED  BY <1>3, <1>t, <2>1 DEF FileInv, Moved
<1>4. ASSUME NEW p \in Pids, NEW b \in Closing, stage[p] \in Closing \cup {"running"},
             Moved(p, b), UNCHANGED raced
      PROVE  FileInv'
  BY <1>4, <1>t DEF FileInv, Moved
<1>5. ASSUME NEW p \in Pids, stage[p] = "runtime", stage' = [stage EXCEPT ![p] = "running"],
             runtime' = [runtime EXCEPT ![DirOf(db[p])] = [pid |-> p, db |-> db[p]]],
             owned' = [owned EXCEPT ![p] = TRUE],
             raced' = (raced \/ \E o \in Pids \ {p} : Owns(o) /\ DirOf(db[o]) = DirOf(db[p])),
             UNCHANGED <<layers, db>>
      PROVE  FileInv'
  <2>1. \A o \in Pids : o # p => owned'[o] = owned[o] /\ stage'[o] = stage[o]
    BY <1>5, <1>t
  <2>2. stage'[p] = "running" /\ owned'[p]
    BY <1>5, <1>t
  <2>3. \A o \in Pids : owned'[o] => stage'[o] \in {"running", "join"} \cup Closing
    BY <2>1, <2>2 DEF FileInv
  <2>4. \A o \in Pids : stage'[o] = "running" => owned'[o]
    BY <2>1, <2>2 DEF FileInv
  <2>5. ~raced' => ~raced /\ \A o \in Pids \ {p} : Owns(o) => DirOf(db[o]) # DirOf(db[p])
    BY <1>5
  <2>6. ~raced' => \A o, u \in Pids : Owns(o)' /\ Owns(u)' /\ DirOf(db[o]) = DirOf(db[u]) =>
           o = u
    BY <2>1, <2>2, <2>5 DEF FileInv
  <2>7. ~raced' => \A o \in Pids : owned'[o] /\ stage'[o] # "join" =>
           runtime'[DirOf(db[o])] = [pid |-> o, db |-> db[o]]
    BY <1>5, <1>t, <1>c, <2>1, <2>2, <2>5 DEF FileInv
  <2> QED  BY <1>5, <2>3, <2>4, <2>6, <2>7 DEF FileInv
<1>6. ASSUME NEW p \in Pids, stage[p] = "down_runtime", stage' = [stage EXCEPT ![p] = "join"],
             runtime' = IF owned[p] THEN [runtime EXCEPT ![DirOf(db[p])] = None] ELSE runtime,
             UNCHANGED <<layers, db, owned, raced>>
      PROVE  FileInv'
  <2>1. \A o \in Pids : o # p => stage'[o] = stage[o]
    BY <1>6, <1>t
  <2>2. stage'[p] = "join"
    BY <1>6, <1>t
  <2>3. ~raced => \A o \in Pids : owned[o] /\ stage'[o] # "join" =>
           runtime'[DirOf(db[o])] = [pid |-> o, db |-> db[o]]
    BY <1>6, <1>t, <1>c, <2>1, <2>2 DEF FileInv
  <2> QED  BY <1>6, <2>1, <2>2, <2>3 DEF FileInv
<1>7. ASSUME NEW p \in Pids, Ended(p), UNCHANGED raced PROVE FileInv'
  BY <1>7, <1>t DEF FileInv, Ended, Gone
<1> QED  BY <1>1, <1>2, <1>3, <1>4, <1>5, <1>6, <1>7 DEF FileStep

(* The file is written in the one directory the settings name, so a process  *)
(* that has the pid of a file left by a crash finds that file and refuses to *)
(* start: the file names no live process but the one that wrote it.          *)
LEMMA NameStep == LInv /\ RunInv /\ NameInv /\ FileStep => NameInv'
<1> SUFFICES ASSUME LInv, RunInv, NameInv, FileStep PROVE NameInv'
  OBVIOUS
<1> USE StageSets
<1>t. /\ stage \in [Pids -> Stages] /\ db \in [Pids -> Dbs] /\ owned \in [Pids -> BOOLEAN]
      /\ runtime \in [Directories -> [pid : Pids, db : Dbs] \cup {None}]
  BY DEF LInv, TypeOK, Directories
<1>n. \A p \in Pids : p # None.pid
  BY LifecycleAssumption DEF None, NoPid
<1>c. \A d : DirOf(d) \in Directories
  BY DEF DirOf, Directories
<1>l. layers' = layers
  BY DEF FileStep, FileUnchanged, Moved, Ended
<1> DEFINE here == DirOf(Load(layers.run, Default))
<1>h. here \in Directories /\ DirOf(Load(layers.run, Default))' = here
  BY <1>c, <1>l DEF DirOf
<1>i. /\ \A d \in Directories : runtime[d] # None => d = here
      /\ \A d \in Directories, p \in Pids : stage[p] # Gone /\ runtime[d].pid = p =>
            owned[p] /\ stage[p] # "join"
  BY DEF NameInv, Live
<1> HIDE DEF here
<1> SUFFICES /\ \A d \in Directories : runtime'[d] # None => d = here
             /\ \A d \in Directories, p \in Pids : stage'[p] # Gone /\ runtime'[d].pid = p =>
                   owned'[p] /\ stage'[p] # "join"
  BY <1>h DEF NameInv, Live, None
<1>1. CASE FileUnchanged
  BY <1>1, <1>i DEF FileUnchanged
<1>2. ASSUME NEW p \in Pids, runtime[here].pid # p,
             stage' = [stage EXCEPT ![p] = "engine"], UNCHANGED <<owned, runtime>>
      PROVE  /\ \A d \in Directories : runtime'[d] # None => d = here
             /\ \A d \in Directories, o \in Pids : stage'[o] # Gone /\ runtime'[d].pid = o =>
                   owned'[o] /\ stage'[o] # "join"
  <2>1. \A d \in Directories : runtime[d].pid # p
    BY <1>2, <1>i, <1>n
  <2> QED  BY <1>2, <1>i, <1>t, <2>1
<1>3. ASSUME NEW p \in Pids, NEW b \in Starting \cup Closing, stage[p] # Gone, Moved(p, b)
      PROVE  /\ \A d \in Directories : runtime'[d] # None => d = here
             /\ \A d \in Directories, o \in Pids : stage'[o] # Gone /\ runtime'[d].pid = o =>
                   owned'[o] /\ stage'[o] # "join"
  BY <1>3, <1>i, <1>t DEF Moved
<1>4. ASSUME NEW p \in Pids, stage[p] = "runtime", stage' = [stage EXCEPT ![p] = "running"],
             runtime' = [runtime EXCEPT ![DirOf(db[p])] = [pid |-> p, db |-> db[p]]],
             owned' = [owned EXCEPT ![p] = TRUE]
      PROVE  /\ \A d \in Directories : runtime'[d] # None => d = here
             /\ \A d \in Directories, o \in Pids : stage'[o] # Gone /\ runtime'[d].pid = o =>
                   owned'[o] /\ stage'[o] # "join"
  <2>1. DirOf(db[p]) = here
    BY <1>4 DEF RunInv, here, Gone
  <2>2. runtime' = [runtime EXCEPT ![here] = [pid |-> p, db |-> db[p]]]
    BY <1>4, <2>1
  <2> QED  BY <1>4, <1>i, <1>t, <1>h, <2>2
<1>5. ASSUME NEW p \in Pids, stage[p] = "down_runtime", stage' = [stage EXCEPT ![p] = "join"],
             runtime' = IF owned[p] THEN [runtime EXCEPT ![DirOf(db[p])] = None] ELSE runtime,
             UNCHANGED owned
      PROVE  /\ \A d \in Directories : runtime'[d] # None => d = here
             /\ \A d \in Directories, o \in Pids : stage'[o] # Gone /\ runtime'[d].pid = o =>
                   owned'[o] /\ stage'[o] # "join"
  <2>1. DirOf(db[p]) = here
    BY <1>5 DEF RunInv, here, Gone
  <2>2. runtime' = IF owned[p] THEN [runtime EXCEPT ![here] = None] ELSE runtime
    BY <1>5, <2>1
  <2>3. \A d \in Directories : runtime'[d] \in {None, runtime[d]}
    BY <1>t, <1>h, <2>2
  <2>4. \A d \in Directories : runtime'[d].pid # p
    <3>1. CASE owned[p]
      BY <1>i, <1>t, <1>n, <1>h, <2>2, <3>1
    <3>2. CASE ~owned[p]
      BY <1>5, <1>i, <2>2, <3>2 DEF Gone
    <3> QED  BY <3>1, <3>2
  <2> QED  BY <1>5, <1>i, <1>t, <1>n, <2>3, <2>4
<1>6. ASSUME NEW p \in Pids, Ended(p)
      PROVE  /\ \A d \in Directories : runtime'[d] # None => d = here
             /\ \A d \in Directories, o \in Pids : stage'[o] # Gone /\ runtime'[d].pid = o =>
                   owned'[o] /\ stage'[o] # "join"
  BY <1>6, <1>i, <1>t DEF Ended
<1> QED  BY <1>1, <1>2, <1>3, <1>4, <1>5, <1>6 DEF FileStep, here, Gone

(* What becomes of one process in a step, unless it is started. *)
LEMMA KeptStep ==
    ASSUME LInv, FileStep, NEW o \in Pids
    PROVE  \/ stage[o] = Gone /\ stop' = [stop EXCEPT !.reused = @ \/ o = stop.pid]
           \/ /\ db'[o] = db[o]
              /\ owned[o] /\ stage'[o] # Gone => owned'[o]
              /\ stage[o] = Gone => stage'[o] = Gone
              /\ stage[o] = "join" => stage'[o] \in {"join", Gone}
<1>t. stage \in [Pids -> Stages] /\ db \in [Pids -> Dbs] /\ owned \in [Pids -> BOOLEAN]
  BY DEF LInv, TypeOK
<1> QED
  BY <1>t, StageSets DEF FileStep, FileUnchanged, Moved, Ended, Gone

(* A race is not forgotten. *)
LEMMA RacedStep == FileStep => (raced => raced')
  BY DEF FileStep

(* Only run and the stop command change the record of the stop command. *)
LEMMA StopChanges ==
    ASSUME [Next]_vars
    PROVE  \/ UNCHANGED stop
           \/ \E p \in Pids : stop' = [stop EXCEPT !.reused = @ \/ p = stop.pid]
           \/ StopRead \/ StopKill \/ StopWait
  BY DEF Next, StartStep, DownStep, vars, Run, OpenEngine, Migrate, Alloc, Bind, BindPort,
         StartPart, StartHttpGateway, WriteRuntime, StopManagers, CloseSocket, CloseEngine,
         RemoveRuntime, Exit, JobBegins, JobEnds, Crash, Signal, Reraise, ForeignPort

(* What stop waits for: the process it signalled has written the file it     *)
(* read.                                                                     *)
LEMMA StopStep ==
    LInv /\ FileInv /\ NameInv /\ RunInv /\ StopInv /\ FileStep /\ LInv' /\ [Next]_vars => StopInv'
<1> SUFFICES ASSUME LInv, FileInv, NameInv, RunInv, StopInv, FileStep, LInv', [Next]_vars
             PROVE  StopInv'
  OBVIOUS
<1>t. /\ stop \in [pc : {"idle", "kill", "wait", "returned", "warned", "error"},
                    pid : Pids \cup {NoPid}, dir : Directories, reused : BOOLEAN]
      /\ stop.pc \in {"kill", "wait", "returned"} => stop.pid \in Pids
  BY DEF LInv
<1>d. \A d : DirOf(d)' = DirOf(d)
  BY DEF DirOf
(* The stop command only waits, and what it waits for happens beside it. *)
<1>k. ASSUME stop'.pc \in {stop.pc, "wait"}, stop'.pc = "wait" => stop.pc \in {"kill", "wait"},
             stop'.pid = stop.pid, stop'.dir = stop.dir, stop.reused => stop'.reused
      PROVE  StopInv'
  <2>1. CASE stop.pc \in {"kill", "wait", "returned"} /\ ~stop'.reused /\ ~raced'
    <3>1. ~raced /\ ~stop.reused /\ stop.pid \in Pids
      BY <1>k, <1>t, <2>1, RacedStep
    <3>2. /\ db'[stop.pid] = db[stop.pid]
          /\ owned[stop.pid] /\ stage'[stop.pid] # Gone => owned'[stop.pid]
          /\ stage[stop.pid] = Gone => stage'[stop.pid] = Gone
          /\ stage[stop.pid] = "join" => stage'[stop.pid] \in {"join", Gone}
      <4>1. stop' # [stop EXCEPT !.reused = @ \/ stop.pid = stop.pid]
        BY <1>t, <2>1
      <4> QED  BY <3>1, <4>1, KeptStep
    <3> QED  BY <1>k, <1>d, <2>1, <3>1, <3>2 DEF StopInv, Live
  <2>2. CASE stop.pc \notin {"kill", "wait", "returned"} \/ stop'.reused \/ raced'
    BY <1>k, <2>2 DEF StopInv
  <2> QED  BY <2>1, <2>2
<1>1. CASE UNCHANGED stop
  BY <1>1, <1>k
<1>2. ASSUME NEW p \in Pids, stop' = [stop EXCEPT !.reused = @ \/ p = stop.pid]
      PROVE  StopInv'
  BY <1>2, <1>k, <1>t
<1>3. CASE StopRead
  <2> DEFINE d == Load(layers.stop, Default)
  <2>1. DirOf(d) \in Directories
    BY DEF DirOf, Directories
  <2>2. CASE /\ stop' = [stop EXCEPT !.pc = "kill", !.pid = runtime[DirOf(d)].pid,
                                     !.dir = DirOf(d)]
             /\ runtime[DirOf(d)] # None
             /\ PidIsSqtseries(runtime[DirOf(d)].pid, NoPid)
    <3>1. runtime[DirOf(d)].pid \in Live
      <4>1. runtime[DirOf(d)].pid \in Pids
        BY <2>1, <2>2 DEF LInv, TypeOK, Directories
      <4>2. runtime[DirOf(d)].pid # NoPid
        BY <4>1, LifecycleAssumption DEF NoPid
      <4> QED  BY <2>2, <4>2 DEF PidIsSqtseries
    <3>2. owned[runtime[DirOf(d)].pid]
      BY <2>1, <3>1 DEF NameInv
    <3>3. DirOf(db[runtime[DirOf(d)].pid]) = DirOf(d)
      <4>1. DirOf(d) = DirOf(Load(layers.run, Default))
        BY <2>1, <2>2 DEF NameInv
      <4> QED  BY <3>1, <4>1 DEF RunInv, Live
    <3>4. /\ stop'.pc = "kill" /\ stop'.pid = runtime[DirOf(d)].pid /\ stop'.dir = DirOf(d)
      BY <1>t, <2>2
    <3>5. UNCHANGED <<stage, db, owned, raced>>
      BY <1>3 DEF StopRead
    <3> QED  BY <1>d, <3>2, <3>3, <3>4, <3>5 DEF StopInv, Live
  <2>3. CASE stop' = [stop EXCEPT !.pc = "error"]
    BY <1>t, <2>3 DEF StopInv
  <2> QED  BY <1>3, <2>2, <2>3 DEF StopRead
<1>4. CASE StopKill
  <2>1. CASE stop' = [stop EXCEPT !.pc = "wait"]
    BY <1>4, <1>k, <1>t, <2>1 DEF StopKill
  <2>2. CASE stop' = [stop EXCEPT !.pc = "error"]
    BY <1>t, <2>2 DEF StopInv
  <2> QED  BY <1>4, <2>1, <2>2 DEF StopKill
<1>5. CASE StopWait
  <2>1. UNCHANGED <<stage, db, owned, raced>> /\ stop.pc = "wait"
    BY <1>5 DEF StopWait
  <2>2. CASE /\ stop' = [stop EXCEPT !.pc = "returned"]
             /\ runtime[stop.dir] = None \/ stop.pid \notin Live
    <3>1. stop'.pc = "returned" /\ stop'.pid = stop.pid /\ stop'.reused = stop.reused
      BY <1>t, <2>2
    <3>2. CASE stop.pid \notin Live
      BY <1>t, <2>1, <3>1, <3>2 DEF StopInv, Live
    <3>3. CASE stop.pid \in Live /\ runtime[stop.dir] = None /\ ~stop.reused /\ ~raced
      <4>1. owned[stop.pid] /\ DirOf(db[stop.pid]) = stop.dir /\ stop.pid \in Pids
        BY <1>t, <2>1, <3>3 DEF StopInv
      <4>2. None # [pid |-> stop.pid, db |-> db[stop.pid]]
        BY <4>1, LifecycleAssumption DEF None, NoPid
      <4>3. stage[stop.pid] = "join"
        BY <3>3, <4>1, <4>2 DEF FileInv, Owns
      <4> QED  BY <2>1, <3>1, <4>3 DEF StopInv
    <3> QED  BY <2>1, <2>2, <3>1, <3>2, <3>3 DEF StopInv
  <2>3. CASE stop' = [stop EXCEPT !.pc = "warned"]
    BY <1>t, <2>3 DEF StopInv
  <2> QED  BY <1>5, <2>2, <2>3 DEF StopWait
<1> QED  BY <1>1, <1>2, <1>3, <1>4, <1>5, StopChanges

-----------------------------------------------------------------------------
(* The inductive invariant of the module, and what follows from it. *)
IInv == LInv /\ HoldInv /\ RunInv /\ FileInv /\ NameInv /\ StopInv

(* The initial states satisfy the invariant. *)
LEMMA IInvInit == Init => IInv
<1> SUFFICES ASSUME Init PROVE IInv
  OBVIOUS
<1>1. LInv /\ HoldInv
  BY LInvInit, HoldInit
<1>2. /\ \A p \in Pids : stage[p] = Gone /\ ~owned[p]
      /\ \A d \in Directories : runtime[d] = None
      /\ stop.pc = "idle"
  BY DEF Init, Directories
<1>3. RunInv /\ FileInv
  BY <1>2 DEF RunInv, FileInv, Owns, Gone
<1>4. NameInv /\ StopInv
  BY <1>2 DEF NameInv, StopInv, Live
<1> QED  BY <1>1, <1>3, <1>4 DEF IInv

(* Every step preserves the invariant. *)
LEMMA IInvStep == IInv /\ [Next]_vars => IInv'
  BY LInvStep, HoldStep, FileSteps, RunStep, FileInvStep, NameStep, StopStep DEF IInv

(* So the invariant holds throughout. *)
LEMMA IInvAlways == Spec => []IInv
  BY IInvInit, IInvStep, PTL DEF Spec

(* A process that has come to the end of its shutdown, or is gone, has no    *)
(* port.                                                                     *)
LEMMA NoneHeld ==
    ASSUME IInv, NEW p \in Pids, stage[p] \in {"join", Gone}
    PROVE  Held(p) = {} /\ engine[p] = "closed"
  BY GoneClosed DEF IInv, HoldInv, HoldOf, Held

(* NothingLeft: whichever part of the start failed, Service.shutdown has     *)
(* closed every socket and the engine when it is through.                    *)
THEOREM ShutdownLeavesNothing == Spec => []NothingLeft
<1>1. IInv => NothingLeft
  BY NoneHeld DEF IInv, LInv, NothingLeft
<1> QED  BY <1>1, IInvAlways, PTL

(* FoundUnlessRaced: the runtime file names every serving process, unless    *)
(* two of them wrote it in one directory.                                    *)
THEOREM ServingAlwaysFound == Spec => []FoundUnlessRaced
<1>1. IInv => FoundUnlessRaced
  BY DEF IInv, FileInv, Owns, FoundUnlessRaced, Serving
<1> QED  BY <1>1, IInvAlways, PTL

(* StopFreesPorts: when cli.stop returns without its warning, the process it *)
(* stopped has no port left.                                                 *)
THEOREM StopAlwaysFreesPorts == Spec => []StopFreesPorts
<1>1. IInv => StopFreesPorts
  BY NoneHeld DEF IInv, LInv, StopInv, StopFreesPorts
<1> QED  BY <1>1, IInvAlways, PTL

(* Settings.load keeps the documented order but in the two exceptions. *)
LEMMA LoadAsPromised ==
    ASSUME NEW l,
           ~(l.file # Unset /\ (l.var = Empty \/ (l.var = Unset /\ l.section # Unset)))
    PROVE  Load(l, Default) = Promised(l, Default)
  BY DEF Load, LoadSettings, FileOverride, InEnviron, EnvSettings, Promised, Unset, Empty

(* ServesPromised: every live process serves the database the documented     *)
(* load order names, but in those two exceptions.                            *)
THEOREM AlwaysServesPromised == Spec => []ServesPromised
<1>1. IInv => ServesPromised
  BY LoadAsPromised DEF IInv, RunInv, ServesPromised, Live
<1> QED  BY <1>1, IInvAlways, PTL
=============================================================================
