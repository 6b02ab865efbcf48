------------------------------- MODULE Startup -------------------------------
(***************************************************************************)
(* From the command line to a running server: main (main.rs), Config       *)
(* (config.rs) and DnsServer::run (server.rs), with the API task and the   *)
(* signal task that main spawns, while an operator changes files and sends *)
(* signals.                                                                *)
(*                                                                         *)
(* A zone's file is present and parses, present and does not, or missing.  *)
(* The log level, the rate limit and the listen address are passed on      *)
(* unchanged; `workers' and `dnssec' are read and never used.  A reload is  *)
(* here because it keeps the signal task from everything else: it loads    *)
(* all zones in one step (ZoneReload has them one by one) and then waits   *)
(* for the store, whose read guard a zone transfer holds.                  *)
(***************************************************************************)
EXTENDS Integers, SequencesExt

CONSTANTS
  Texts,       \* the configurations a YAML file may hold
  Names,       \* zone names; each zone has a file of its own
  Unnamed,     \* the empty zone name
  Ports,       \* the addresses that may be taken: of "udp", "tcp" and "api"
  MaxChanges,  \* bound on the operator's changes to zone files
  MaxTasks     \* bound on the handlers spawned per protocol

None == [given |-> FALSE, value |-> 0]
Some(n) == [given |-> TRUE, value |-> n]
Options == [given : BOOLEAN, value : Nat]

\* What a YAML file says: the zones, whether api_listen is set, and the tcp
\* section with its two fields.
TextType ==
  [zones : Seq(Names \cup {Unnamed}), api : BOOLEAN, tcp : BOOLEAN,
   idle : Options, max : Options]

ASSUME StartupAssumption ==
  /\ Texts \subseteq TextType
  /\ Unnamed \notin Names
  /\ Ports \subseteq {"udp", "tcp", "api"}
  /\ MaxChanges \in Nat /\ MaxTasks \in Nat

VARIABLES
  text,        \* the YAML file: a set of at most one, empty if it cannot be read
  disk,        \* [Names -> "good", "bad" or "missing"]
  changes,     \* changes made to the zone files
  busy,        \* the addresses another process has taken
  main,        \* control point of main
  next,        \* index of the zone being validated or loaded
  config,      \* the Config: a set of at most one
  store,       \* names of the zones in the store
  lock,        \* "read" while transfers hold the store's read guard, else "free"
  udp, tcp,    \* run_udp and run_tcp
  api,         \* the API task
  sig,         \* the signal task
  registered,  \* the signals with a handler
  pending,     \* signals delivered to a handler and not yet received
  token,       \* the shutdown token is cancelled
  tasks,       \* [{"udp", "tcp"} -> handlers spawned]
  exit         \* "running", or how the process ended

files == <<text, disk, changes, busy>>
servers == <<udp, tcp, tasks>>
signals == <<sig, registered, pending, token>>
vars == <<files, main, next, config, store, lock, servers, api, signals, exit>>

\* The order in which handle_signals registers its handlers.
SignalOrder == <<"HUP", "USR1", "INT", "QUIT", "TERM">>
Signals == ToSet(SignalOrder)

\* The signals that ask the process to end.
Ending == {"INT", "QUIT", "TERM"}

Up == exit = "running"
-----------------------------------------------------------------------------
(* Config *)

DefaultTcpIdleTimeout == 30
DefaultTcpMaxQueries == 100
OrElse(option, default) == IF option.given THEN option.value ELSE default

\* serde_yaml with the defaults of the fields; without a tcp section, None.
FromText(t) ==
  [zones |-> t.zones, api |-> t.api, tcp |-> t.tcp,
   idle |-> OrElse(t.idle, DefaultTcpIdleTimeout),
   max |-> OrElse(t.max, DefaultTcpMaxQueries)]

\* The limits of a TCP connection, with the defaults of handle_tcp_connection.
IdleTimeout(c) == IF c.tcp THEN c.idle ELSE 30
MaxQueries(c) == IF c.tcp THEN c.max ELSE 100

ZonesOf == UNION {ToSet(c.zones) : c \in config}
zoneNames == CHOOSE z \in {c.zones : c \in config} : TRUE
-----------------------------------------------------------------------------
Init ==
  /\ text \in {{t} : t \in Texts} \cup {{}}
  /\ disk \in [Names -> {"good", "bad", "missing"}]
  /\ changes = 0
  /\ busy \in SUBSET Ports
  /\ main = "config" /\ next = 1 /\ config = {} /\ store = {} /\ lock = "free"
  /\ udp = "off" /\ tcp = "off" /\ tasks = [p \in {"udp", "tcp"} |-> 0]
  /\ api = "none"
  /\ sig = "none" /\ registered = {} /\ pending = {} /\ token = FALSE
  /\ exit = "running"

(* The operator *)

Change(z, how) ==
  /\ Up /\ changes < MaxChanges
  /\ disk[z] # how
  /\ disk' = [disk EXCEPT ![z] = how]
  /\ changes' = changes + 1
  /\ UNCHANGED <<text, busy, main, next, config, store, lock, servers, api, signals, exit>>

\* A signal without a handler ends the process: that is the default action of
\* all the signals main will handle.
Send(s) ==
  /\ Up
  /\ IF s \in registered
     THEN pending' = pending \cup {s} /\ UNCHANGED exit
     ELSE exit' = "killed" /\ UNCHANGED pending
  /\ UNCHANGED <<files, main, next, config, store, lock, servers, api, sig, registered, token>>
-----------------------------------------------------------------------------
(* main *)

\* Config::from_file, or main returns its error.
ReadConfig ==
  /\ Up /\ main = "config"
  /\ IF text = {} THEN exit' = "error" /\ UNCHANGED <<main, config>>
     ELSE /\ config' = {FromText(t) : t \in text}
          /\ main' = "validate"
          /\ UNCHANGED exit
  /\ UNCHANGED <<files, next, store, lock, servers, api, signals>>

\* validate: one turn of its loop, after the check for an empty list.
Validate ==
  /\ Up /\ main = "validate"
  /\ IF zoneNames = <<>> THEN exit' = "error" /\ UNCHANGED <<main, next>>
     ELSE IF next > Len(zoneNames) THEN main' = "load" /\ next' = 1 /\ UNCHANGED exit
     ELSE IF zoneNames[next] = Unnamed \/ disk[zoneNames[next]] = "missing"
     THEN exit' = "error" /\ UNCHANGED <<main, next>>
     ELSE next' = next + 1 /\ UNCHANGED <<main, exit>>
  /\ UNCHANGED <<files, config, store, lock, servers, api, signals>>

\* Slip: a zone that cannot be loaded is left out.
LoadZoneSkips ==
  /\ Up /\ main = "load"
  /\ IF next > Len(zoneNames) THEN main' = "api" /\ UNCHANGED <<next, store>>
     ELSE /\ store' = IF disk[zoneNames[next]] = "good" THEN store \cup {zoneNames[next]} ELSE store
          /\ next' = next + 1
          /\ UNCHANGED main
  /\ UNCHANGED <<files, config, lock, servers, api, signals, exit>>

\* load_zones: one zone.  The file may have changed since it was validated.
LoadZone ==
  /\ Up /\ main = "load"
  /\ IF next > Len(zoneNames) THEN main' = "api" /\ UNCHANGED <<next, store, exit>>
     ELSE IF disk[zoneNames[next]] = "good"
     THEN /\ store' = store \cup {zoneNames[next]}
          /\ next' = next + 1
          /\ UNCHANGED <<main, exit>>
     ELSE exit' = "error" /\ UNCHANGED <<main, next, store>>
  /\ UNCHANGED <<files, config, lock, servers, api, signals>>

SpawnApi ==
  /\ Up /\ main = "api"
  /\ api' = IF \E c \in config : c.api THEN "binding" ELSE "none"
  /\ main' = "signals"
  /\ UNCHANGED <<files, next, config, store, lock, servers, signals, exit>>

SpawnSignals ==
  /\ Up /\ main = "signals"
  /\ sig' = "registering"
  /\ main' = "run"
  /\ UNCHANGED <<files, next, config, store, lock, servers, api, registered, pending, token, exit>>
-----------------------------------------------------------------------------
(* The API task: a panic ends the task and nothing else *)

ApiBind ==
  /\ Up /\ api = "binding"
  /\ api' = IF "api" \in busy THEN "panicked" ELSE "up"
  /\ UNCHANGED <<files, main, next, config, store, lock, servers, signals, exit>>

\* What GET /health answers: a constant, from the moment the task serves.
Healthy == api = "up"
-----------------------------------------------------------------------------
(* handle_signals *)

\* Slip: the loop starts before the last handler is registered.
RegisterShort ==
  /\ Up /\ sig = "registering"
  /\ LET s == SignalOrder[Cardinality(registered) + 1]
     IN  registered' = registered \cup {s}
  /\ sig' = IF Cardinality(registered) + 2 = Len(SignalOrder) THEN "loop" ELSE sig
  /\ UNCHANGED <<files, main, next, config, store, lock, servers, api, pending, token, exit>>

\* The handlers are registered one after the other; the last one is followed
\* by the loop.
Register ==
  /\ Up /\ sig = "registering"
  /\ LET s == SignalOrder[Cardinality(registered) + 1]
     IN  registered' = registered \cup {s}
  /\ sig' = IF Cardinality(registered) + 1 = Len(SignalOrder) THEN "loop" ELSE sig
  /\ UNCHANGED <<files, main, next, config, store, lock, servers, api, pending, token, exit>>

\* expect panics: the task ends, and what it registered is received by nobody.
RegisterFails ==
  /\ Up /\ sig = "registering"
  /\ sig' = "panicked"
  /\ UNCHANGED <<files, main, next, config, store, lock, servers, api, registered, pending, token, exit>>

\* HUP: load_zones builds a whole new store, or its error is logged and the
\* old one stays.
ReceiveHup ==
  /\ Up /\ sig = "loop" /\ "HUP" \in pending
  /\ pending' = pending \ {"HUP"}
  /\ sig' = IF \A z \in ZonesOf : disk[z] = "good" THEN "install" ELSE "loop"
  /\ UNCHANGED <<files, main, next, config, store, lock, servers, api, registered, token, exit>>

\* write().await inside the branch of select!: until it is granted the signal
\* task receives nothing.
Install ==
  /\ Up /\ sig = "install" /\ lock = "free"
  /\ store' = ZonesOf
  /\ sig' = "loop"
  /\ UNCHANGED <<files, main, next, config, lock, servers, api, registered, pending, token, exit>>

\* USR1: the metrics are logged.
ReceiveUsr1 ==
  /\ Up /\ sig = "loop" /\ "USR1" \in pending
  /\ pending' = pending \ {"USR1"}
  /\ UNCHANGED <<files, main, next, config, store, lock, servers, api, sig, registered, token, exit>>

\* Slip: the loop is left without cancelling the token.
ReceiveEndingQuiet(s) ==
  /\ Up /\ sig = "loop" /\ s \in pending
  /\ pending' = pending \ {s}
  /\ sig' = "done"
  /\ UNCHANGED <<files, main, next, config, store, lock, servers, api, registered, token, exit>>

ReceiveEnding(s) ==
  /\ Up /\ sig = "loop" /\ s \in pending
  /\ pending' = pending \ {s}
  /\ token' = TRUE
  /\ sig' = "done"
  /\ UNCHANGED <<files, main, next, config, store, lock, servers, api, registered, exit>>
-----------------------------------------------------------------------------
(* DnsServer::run: select! over run_udp, run_tcp and the token *)

Running == Up /\ main = "run"

\* Slip: the TCP server failing is logged and the UDP server goes on.
BindTcpSurvives ==
  /\ Running /\ tcp = "off"
  /\ tcp' = IF "tcp" \in busy THEN "failed" ELSE "bound"
  /\ UNCHANGED <<files, main, next, config, store, lock, udp, tasks, api, signals, exit>>

BindUdp ==
  /\ Running /\ udp = "off"
  /\ udp' = IF "udp" \in busy THEN "failed" ELSE "bound"
  /\ exit' = IF "udp" \in busy THEN "error" ELSE exit
  /\ UNCHANGED <<files, main, next, config, store, lock, tcp, tasks, api, signals>>

\* `?' on the result of a branch: run and main return the error.
BindTcp ==
  /\ Running /\ tcp = "off"
  /\ tcp' = IF "tcp" \in busy THEN "failed" ELSE "bound"
  /\ exit' = IF "tcp" \in busy THEN "error" ELSE exit
  /\ UNCHANGED <<files, main, next, config, store, lock, udp, tasks, api, signals>>

\* A datagram or a connection: a handler is spawned.  An error of recv_from or
\* accept is logged and changes nothing.
Spawn(protocol) ==
  /\ Running /\ (IF protocol = "udp" THEN udp ELSE tcp) = "bound"
  /\ tasks[protocol] < MaxTasks
  /\ tasks' = [tasks EXCEPT ![protocol] = @ + 1]
  /\ UNCHANGED <<files, main, next, config, store, lock, udp, tcp, api, signals, exit>>

\* A connection begins a transfer and takes the read guard, which no reader
\* gets behind a waiting writer ...
TransferBegins ==
  /\ Running /\ tasks["tcp"] > 0 /\ sig # "install"
  /\ lock = "free"
  /\ lock' = "read"
  /\ UNCHANGED <<files, main, next, config, store, servers, api, signals, exit>>

\* ... and the last one that holds the guard ends: its client has read all, or
\* is gone.
TransferEnds ==
  /\ Running /\ lock = "read"
  /\ lock' = "free"
  /\ UNCHANGED <<files, main, next, config, store, servers, api, signals, exit>>

\* Whichever branch sees the token first returns Ok; the process ends.
Shutdown ==
  /\ Running /\ token
  /\ exit' = "ok"
  /\ UNCHANGED <<files, main, next, config, store, lock, servers, api, signals>>

-----------------------------------------------------------------------------
Main == ReadConfig \/ Validate \/ LoadZone \/ SpawnApi \/ SpawnSignals
Receive == ReceiveHup \/ ReceiveUsr1 \/ \E s \in Ending : ReceiveEnding(s)

Next ==
  \/ Main \/ ApiBind
  \/ Register \/ RegisterFails \/ Receive \/ Install
  \/ BindUdp \/ BindTcp \/ Shutdown
  \/ TransferBegins \/ TransferEnds
  \/ \E p \in {"udp", "tcp"} : Spawn(p)
  \/ \E z \in Names, how \in {"good", "bad", "missing"} : Change(z, how)
  \/ \E s \in Signals : Send(s)

\* The runtime polls every task and every branch of select! that is ready, and
\* grants the store to a writer nobody is before.  The signal task's loop takes
\* the branches in random order, so one that is ready again and again is taken.
\* A transfer ends when its client likes: nothing is assumed of it.
Fairness ==
  /\ WF_vars(Main) /\ WF_vars(ApiBind)
  /\ WF_vars(Register \/ RegisterFails) /\ WF_vars(Install)
  /\ SF_vars(\E s \in Ending : ReceiveEnding(s))
  /\ WF_vars(BindUdp) /\ WF_vars(BindTcp) /\ WF_vars(Shutdown)

Spec == Init /\ [][Next]_vars /\ Fairness
-----------------------------------------------------------------------------
(* Properties *)

ConfigType ==
  [zones : Seq(Names \cup {Unnamed}), api : BOOLEAN, tcp : BOOLEAN, idle : Nat, max : Nat]

\* Only a signal with a handler is pending, and the bounds are kept.
TypeOK ==
  /\ text \subseteq Texts
  /\ disk \in [Names -> {"good", "bad", "missing"}]
  /\ changes \in 0 .. MaxChanges
  /\ busy \subseteq Ports
  /\ main \in {"config", "validate", "load", "api", "signals", "run"}
  /\ next \in Nat \ {0}
  /\ config \subseteq ConfigType
  /\ store \subseteq Names
  /\ lock \in {"free", "read"}
  /\ udp \in {"off", "bound", "failed"} /\ tcp \in {"off", "bound", "failed"}
  /\ tasks \in [{"udp", "tcp"} -> 0 .. MaxTasks]
  /\ api \in {"none", "binding", "up", "panicked"}
  /\ sig \in {"none", "registering", "loop", "install", "panicked", "done"}
  /\ registered \subseteq Signals /\ pending \subseteq registered
  /\ token \in BOOLEAN
  /\ exit \in {"running", "ok", "error", "killed"}

\* The server answers for all of its configuration or for nothing: a handler
\* runs, a socket is bound and /health says healthy only when every configured
\* zone, and at least one, is in the store.  This holds although files change
\* between validation, loading and any later reload.
ServesWhole ==
  udp = "bound" \/ tcp = "bound" \/ Healthy \/ tasks["udp"] + tasks["tcp"] > 0 =>
    store = ZonesOf /\ store # {} /\ Unnamed \notin store

\* A port that is taken is fatal: the process never goes on with one of its two
\* DNS servers, while the API is optional and its failure ends nothing.
HalfServerEnds ==
  /\ "failed" \in {udp, tcp} => exit = "error"
  /\ exit = "error" /\ api = "panicked" => "failed" \in {udp, tcp}

\* A TCP connection has the limits of the file, and those of the documentation
\* (30 seconds, 100 queries) when a field or the whole section is left out:
\* two places of the code hold these defaults.
LimitsHonoured ==
  main = "run" => \A t \in text, c \in config :
    /\ IdleTimeout(c) = IF t.tcp /\ t.idle.given THEN t.idle.value ELSE 30
    /\ MaxQueries(c) = IF t.tcp /\ t.max.given THEN t.max.value ELSE 100

\* The servers may answer before the signal task has run, and a signal without
\* its handler kills the process.  This window closes by itself.
WindowCloses == udp = "bound" ~> (registered = Signals \/ exit # "running" \/ sig = "panicked")

\* An INT, QUIT or TERM that its handler took ends the process, even if SIGHUP
\* keeps the signal task busy.  Two things alone can keep it from that: a later
\* handler could not be registered, so the task is gone (main.rs:164-166), or
\* the task waits for ever to install a reload behind a transfer whose client
\* does not read (main.rs:174).
TermEnds ==
  Ending \cap pending # {}
    ~> (exit # "running" \/ sig = "panicked" \/ [](sig = "install" /\ lock = "read"))
=============================================================================
