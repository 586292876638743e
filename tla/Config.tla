------------------------------- MODULE Config -------------------------------
(***************************************************************************)
(* The configuration of sqtseries (config.py): how Settings.load combines  *)
(* the layers of one leaf value, and what validate_settings refuses.       *)
(*                                                                         *)
(* A leaf, such as database.path, has up to four sources:                  *)
(*   option  : the command line's --db (cli.py, _load)                     *)
(*   var     : its variable, such as SQT_SERIES_DATABASE__PATH             *)
(*   section : the variable of its whole section, JSON in                  *)
(*             SQT_SERIES_DATABASE, when it has the leaf                   *)
(*   file    : the config file                                             *)
(* A variable may also be set and empty.  load treats every leaf on its    *)
(* own; of the other leaves only what validate_settings tests is kept.     *)
(***************************************************************************)
EXTENDS Integers, FiniteSets

Unset == "unset"
Empty == "empty"

(* The layers of one leaf with values in V. *)
Layers(V) == [option : V \cup {Unset}, var : V \cup {Unset, Empty},
              section : V \cup {Unset}, file : V \cup {Unset}]

(* cls(config_file=...): pydantic-settings reads the environment; with       *)
(* env_ignore_empty an empty variable is as good as none.                    *)
EnvSettings(l, default) ==
    IF l.var \notin {Unset, Empty} THEN l.var
    ELSE IF l.section # Unset THEN l.section ELSE default

(* _enviro_leaf_paths has the leaf's path when its variable is set, empty or *)
(* not; the variable of a section adds the section's path, which is no leaf  *)
(* of the file.                                                              *)
InEnvironNever(l) == FALSE
InEnviron(l) == l.var # Unset

(* Only the file's values for paths the environment did not set survive, and *)
(* are given to the second instance as arguments, which win over the         *)
(* environment.                                                              *)
FileOverride(l) == l.file # Unset /\ ~InEnviron(l)

LoadSettings(l, default) == IF FileOverride(l) THEN l.file ELSE EnvSettings(l, default)

(* cli._load: the command line's option replaces what Settings.load gave. *)
Load(l, default) == IF l.option # Unset THEN l.option ELSE LoadSettings(l, default)

(* What the load order promises: defaults, file, environment, command line,  *)
(* from the lowest to the highest precedence; "VAR=" means unset.            *)
Promised(l, default) ==
    IF l.option # Unset THEN l.option
    ELSE IF l.var \notin {Unset, Empty} THEN l.var
    ELSE IF l.section # Unset THEN l.section
    ELSE IF l.file # Unset THEN l.file ELSE default

(* The leaves with a least value, and the managers with an interval or ttl   *)
(* that is parsed when they are made.                                        *)
Bounded == {"hwm", "pending_max", "topic_totals_max", "max_rows", "batch_size",
            "max_websocket_connections", "rate_limit_per_minute", "max_inflight"}
Managers == {"rollup", "maintenance", "retention", "backup"}

Least(leaf) == IF leaf = "max_rows" THEN 0 ELSE 1
MaxBatch == 8191
MaxPort == 65535

(* validate_settings: every port in range and no two services on one port,   *)
(* every leaf within its bounds, and the durations of the managers that are  *)
(* enabled ones that parse.                                                  *)
ValidSettings(s) ==
    /\ \A n \in DOMAIN s.port : s.port[n] \in 1..MaxPort
    /\ \A m, n \in DOMAIN s.port : m # n => s.port[m] # s.port[n]
    /\ \A leaf \in Bounded : s.bound[leaf] >= Least(leaf)
    /\ s.bound["batch_size"] =< MaxBatch
    /\ s.enabled \subseteq s.parses
=============================================================================
