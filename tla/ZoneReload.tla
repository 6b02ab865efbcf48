----------------------------- MODULE ZoneReload -----------------------------
(***************************************************************************)
(* The zone store shared by all tasks (Arc<RwLock<ZoneStore>>), the query  *)
(* and AXFR tasks that read it, and the signal task that reloads it and    *)
(* shuts the server down (main.rs, server.rs, protocol.rs).                *)
(*                                                                         *)
(* A zone's contents are its version: the number of the edit that wrote    *)
(* its file.  An edit may leave a file that parse_zone_file rejects.       *)
(*                                                                         *)
(* tokio's RwLock is fair: requests are served in arrival order, and a     *)
(* waiting writer keeps later readers out.  `queue' holds the requests not *)
(* granted yet; who holds the lock follows from the control points.        *)
(***************************************************************************)
EXTENDS Integers, Sequences, FiniteSets

CONSTANTS
  ConfigZones,  \* config.zones, in file order
  Unknown,      \* a queried name outside every zone
  Tasks,        \* query tasks and TCP connections
  Sig,          \* the task that runs handle_signals
  None, Refused,
  XferLen,      \* messages of a zone transfer
  MaxEdits      \* bound on the operator's edits

Zones == {ConfigZones[i] : i \in DOMAIN ConfigZones}

ASSUME ReloadAssumption ==
  /\ ConfigZones \in Seq(Zones)
  /\ Unknown \notin Zones
  /\ Sig \notin Tasks
  /\ None \notin [zone : Zones \cup {Unknown}, answer : Nat \cup {Refused},
                  authority : Nat \cup {Refused}]
  /\ XferLen \in Nat \ {0}
  /\ MaxEdits \in Nat

VARIABLES
  disk,     \* [Zones -> version in the zone file]
  bad,      \* the versions that do not parse
  edits,    \* number of edits so far, the latest version
  store,    \* ZoneStore: zone -> version served
  queue,    \* waiting lock requests
  pc,       \* [Tasks -> control point]
  zone,     \* [Tasks -> zone the request is about]
  resp,     \* [Tasks -> response under construction, or None]
  left,     \* [Tasks -> transfer messages still to be written]
  sig,      \* control point of the signal task
  next,     \* load_zones: index of the next zone
  loaded,   \* load_zones: the store under construction
  pending,  \* signals delivered and not yet received
  server    \* DnsServer::run: running, its token cancelled, or returned

files == <<disk, bad, edits>>
tasks == <<pc, zone, resp, left>>
loader == <<next, loaded>>
vars == <<files, store, queue, tasks, sig, loader, pending, server>>

\* TERM stands for SIGINT, SIGQUIT and SIGTERM, which have equal branches.
Signals == {"HUP", "USR1", "TERM"}

Points == {"idle", "query", "lookup", "authority", "reply",
           "axfr", "records", "stream", "dropped"}

\* Slip: the transfer drops its guard once the records are cloned.
ReadingNoStream == {"lookup", "authority", "records"}

\* Slip: the guard is dropped before the authority section is built.
ReadingNoAuthority == {"lookup", "records", "stream"}

\* The control points at which a task holds the read guard.
Reading == {"lookup", "authority", "records", "stream"}
Readers == {t \in Tasks : pc[t] \in Reading}
Writing == sig = "install"

Goto(t, point) == pc' = [pc EXCEPT ![t] = point]
Up == server # "returned"
NoZones == [z \in {} |-> 0]

Init ==
  /\ disk = [z \in Zones |-> 0]
  /\ bad = {} /\ edits = 0
  /\ store = [z \in Zones |-> 0]
  /\ queue = <<>>
  /\ pc = [t \in Tasks |-> "idle"]
  /\ zone = [t \in Tasks |-> Unknown]
  /\ resp = [t \in Tasks |-> None]
  /\ left = [t \in Tasks |-> 0]
  /\ sig = "select" /\ next = 1 /\ loaded = NoZones
  /\ pending = {}
  /\ server = "running"

-----------------------------------------------------------------------------
(* The environment: an operator who edits zone files and sends signals.    *)
(* A signal sent while one is pending is merged with it.                   *)

Edit(z, parses) ==
  /\ Up /\ edits < MaxEdits
  /\ edits' = edits + 1
  /\ disk' = [disk EXCEPT ![z] = edits + 1]
  /\ bad' = IF parses THEN bad ELSE bad \cup {edits + 1}
  /\ UNCHANGED <<store, queue, tasks, sig, loader, pending, server>>

Send(s) ==
  /\ Up /\ s \notin pending
  /\ pending' = pending \cup {s}
  /\ UNCHANGED <<files, store, queue, tasks, sig, loader, server>>

-----------------------------------------------------------------------------
(* Query tasks: process_query and the AXFR branch of handle_tcp_connection. *)

\* A request arrives and asks for the read lock.
Receive(t, z, wait) ==
  /\ Up /\ pc[t] = "idle"
  /\ zone' = [zone EXCEPT ![t] = z]
  /\ queue' = Append(queue, t)
  /\ Goto(t, wait)
  /\ UNCHANGED <<files, store, resp, left, sig, loader, pending, server>>

ReadLock(t, wait, point) ==
  /\ pc[t] = wait
  /\ queue # <<>> /\ Head(queue) = t /\ ~Writing
  /\ queue' = Tail(queue)
  /\ Goto(t, point)
  /\ UNCHANGED <<files, store, zone, resp, left, sig, loader, pending, server>>

ReceiveQuery(t, z) == Receive(t, z, "query")
ReceiveAxfr(t, z) == Receive(t, z, "axfr")
LockQuery(t) == ReadLock(t, "query", "lookup")
LockAxfr(t) == ReadLock(t, "axfr", "records")

Refusal(z) == [zone |-> z, answer |-> Refused, authority |-> Refused]

\* Slip: the lookup starts over instead of going on to the authority section.
LookupRestarts(t) ==
  /\ pc[t] = "lookup"
  /\ resp' = [resp EXCEPT ![t] = Refusal(zone[t])]
  /\ UNCHANGED <<files, store, queue, pc, zone, left, sig, loader, pending, server>>

\* find_zone and the lookups of the answer section.  Without a zone the
\* response is complete and the guard is dropped on return.
Lookup(t) ==
  /\ pc[t] = "lookup"
  /\ \/ /\ zone[t] \in DOMAIN store
        /\ resp' = [resp EXCEPT ![t] = [zone |-> zone[t], answer |-> store[zone[t]],
                                        authority |-> Refused]]
        /\ Goto(t, "authority")
     \/ /\ zone[t] \notin DOMAIN store
        /\ resp' = [resp EXCEPT ![t] = Refusal(zone[t])]
        /\ Goto(t, "reply")
  /\ UNCHANGED <<files, store, queue, zone, left, sig, loader, pending, server>>

\* SOA or NS of the authority section; the guard is dropped on return.
Authority(t) ==
  /\ pc[t] = "authority"
  /\ resp' = [resp EXCEPT ![t].authority = store[zone[t]]]
  /\ Goto(t, "reply")
  /\ UNCHANGED <<files, store, queue, zone, left, sig, loader, pending, server>>

Idle(t) ==
  /\ Goto(t, "idle")
  /\ resp' = [resp EXCEPT ![t] = None]
  /\ zone' = [zone EXCEPT ![t] = Unknown]
  /\ left' = [left EXCEPT ![t] = 0]
  /\ UNCHANGED <<files, store, queue, sig, loader, pending, server>>

Reply(t) == pc[t] = "reply" /\ Idle(t)

\* get_all_records clones the zone; a name without a zone gets one REFUSED.
Records(t) ==
  /\ pc[t] = "records"
  /\ \/ /\ zone[t] \in DOMAIN store
        /\ resp' = [resp EXCEPT ![t] = [zone |-> zone[t], answer |-> store[zone[t]],
                                        authority |-> store[zone[t]]]]
        /\ left' = [left EXCEPT ![t] = XferLen]
     \/ /\ zone[t] \notin DOMAIN store
        /\ resp' = [resp EXCEPT ![t] = Refusal(zone[t])]
        /\ left' = [left EXCEPT ![t] = 1]
  /\ Goto(t, "stream")
  /\ UNCHANGED <<files, store, queue, zone, sig, loader, pending, server>>

\* One message written; it needs room in the socket, so the client decides
\* when.  zone_store, the read guard, lives until the handler returns.
WriteMessage(t) ==
  /\ pc[t] = "stream"
  /\ \/ left[t] = 1 /\ Idle(t)
     \/ /\ left[t] > 1
        /\ left' = [left EXCEPT ![t] = @ - 1]
        /\ UNCHANGED <<files, store, queue, pc, zone, resp, sig, loader, pending, server>>

\* write_all fails because the client closed the connection.
WriteFails(t) == pc[t] = "stream" /\ Idle(t)

-----------------------------------------------------------------------------
(* The signal task: handle_signals and load_zones. *)

SelectHup ==
  /\ sig = "select" /\ "HUP" \in pending
  /\ pending' = pending \ {"HUP"}
  /\ sig' = "load" /\ next' = 1 /\ loaded' = NoZones
  /\ UNCHANGED <<files, store, queue, tasks, server>>

\* metrics.log_summary() changes no state of this module.
SelectUsr1 ==
  /\ sig = "select" /\ "USR1" \in pending
  /\ pending' = pending \ {"USR1"}
  /\ UNCHANGED <<files, store, queue, tasks, sig, loader, server>>

\* Slip: the loop is left without cancelling the token.
SelectTermNoCancel ==
  /\ sig = "select" /\ "TERM" \in pending
  /\ pending' = pending \ {"TERM"}
  /\ sig' = "ended"
  /\ UNCHANGED <<files, store, queue, tasks, loader, server>>

\* SIGINT, SIGQUIT and SIGTERM: cancel and leave the loop.
SelectTerm ==
  /\ sig = "select" /\ "TERM" \in pending
  /\ pending' = pending \ {"TERM"}
  /\ sig' = "ended" /\ server' = "cancelled"
  /\ UNCHANGED <<files, store, queue, tasks, loader>>

\* Slip: a zone file is taken whether it parses or not.
LoadZoneUnchecked ==
  /\ sig = "load" /\ next <= Len(ConfigZones)
  /\ LET z == ConfigZones[next]
     IN  loaded' = [y \in DOMAIN loaded \cup {z} |-> IF y = z THEN disk[z] ELSE loaded[y]]
  /\ next' = next + 1
  /\ UNCHANGED <<files, store, queue, tasks, sig, pending, server>>

\* parse_zone_file of the next configured zone succeeds.
LoadZone ==
  /\ sig = "load" /\ next <= Len(ConfigZones)
  /\ LET z == ConfigZones[next]
     IN  /\ disk[z] \notin bad
         /\ loaded' = [y \in DOMAIN loaded \cup {z} |-> IF y = z THEN disk[z] ELSE loaded[y]]
  /\ next' = next + 1
  /\ UNCHANGED <<files, store, queue, tasks, sig, pending, server>>

\* Slip: a rejected file is skipped and the others are loaded.
LoadSkips ==
  /\ sig = "load" /\ next <= Len(ConfigZones)
  /\ disk[ConfigZones[next]] \in bad
  /\ next' = next + 1
  /\ UNCHANGED <<files, store, queue, tasks, sig, loaded, pending, server>>

\* Slip: a rejected file is replaced by the copy loaded at startup.
LoadFallsBack ==
  /\ sig = "load" /\ next <= Len(ConfigZones)
  /\ LET z == ConfigZones[next]
     IN  /\ disk[z] \in bad
         /\ loaded' = [y \in DOMAIN loaded \cup {z} |-> IF y = z THEN 0 ELSE loaded[y]]
  /\ next' = next + 1
  /\ UNCHANGED <<files, store, queue, tasks, sig, pending, server>>

\* One file is rejected: the error is logged and the old store stays.
LoadFails ==
  /\ sig = "load" /\ next <= Len(ConfigZones)
  /\ disk[ConfigZones[next]] \in bad
  /\ sig' = "select"
  /\ UNCHANGED <<files, store, queue, tasks, loader, pending, server>>

RequestWrite ==
  /\ sig = "load" /\ next > Len(ConfigZones)
  /\ queue' = Append(queue, Sig)
  /\ sig' = "write"
  /\ UNCHANGED <<files, store, tasks, loader, pending, server>>

WriteLock ==
  /\ sig = "write"
  /\ queue # <<>> /\ Head(queue) = Sig /\ Readers = {}
  /\ queue' = Tail(queue)
  /\ sig' = "install"
  /\ UNCHANGED <<files, store, tasks, loader, pending, server>>

\* Slip: a SIGHUP that came during the reload is taken as served.
InstallDropsHup ==
  /\ sig = "install"
  /\ store' = loaded
  /\ pending' = pending \ {"HUP"}
  /\ sig' = "select"
  /\ UNCHANGED <<files, queue, tasks, loader, server>>

Install ==
  /\ sig = "install"
  /\ store' = loaded
  /\ sig' = "select"
  /\ UNCHANGED <<files, queue, tasks, loader, pending, server>>

\* run's select sees the token; main returns and the runtime drops every task.
RunReturns ==
  /\ server = "cancelled"
  /\ server' = "returned"
  /\ pc' = [t \in Tasks |-> "dropped"]
  /\ resp' = [t \in Tasks |-> None]
  /\ queue' = <<>>
  /\ UNCHANGED <<files, store, zone, left, sig, loader, pending>>

Stopped == ~Up /\ UNCHANGED vars

-----------------------------------------------------------------------------
SignalTask ==
  \/ SelectHup \/ SelectUsr1 \/ SelectTerm
  \/ LoadZone \/ LoadFails \/ RequestWrite \/ WriteLock \/ Install

QueryTask(t) ==
  \/ LockQuery(t) \/ Lookup(t) \/ Authority(t) \/ Reply(t)
  \/ LockAxfr(t) \/ Records(t)

Next ==
  \/ \E z \in Zones, parses \in BOOLEAN : Edit(z, parses)
  \/ \E s \in Signals : Send(s)
  \/ \E t \in Tasks :
       \/ \E z \in Zones \cup {Unknown} : ReceiveQuery(t, z) \/ ReceiveAxfr(t, z)
       \/ QueryTask(t) \/ WriteMessage(t) \/ WriteFails(t)
  \/ SignalTask
  \/ RunReturns
  \/ Stopped

\* Spawned tasks are polled until they finish, and tokio::select! picks among
\* its ready branches at random, so a signal that stays pending is picked.
ServerFairness ==
  /\ \A t \in Tasks : WF_vars(QueryTask(t))
  /\ SF_vars(SelectHup) /\ SF_vars(SelectTerm)
  /\ WF_vars(SignalTask)
  /\ WF_vars(RunReturns)

\* Nothing in the code ends a transfer whose client stops reading; this is an
\* assumption about the clients: each one reads on, or goes away.
ClientsDrain == \A t \in Tasks : WF_vars(WriteMessage(t))

StalledSpec == Init /\ [][Next]_vars /\ ServerFairness
Spec == StalledSpec /\ ClientsDrain
-----------------------------------------------------------------------------
(* Properties *)

Response == [zone : Zones \cup {Unknown}, answer : Nat \cup {Refused},
             authority : Nat \cup {Refused}]

TypeOK ==
  /\ disk \in [Zones -> 0 .. edits] /\ bad \subseteq 1 .. edits /\ edits \in Nat
  /\ store \in [Zones -> 0 .. edits]
  /\ queue \in Seq(Tasks \cup {Sig})
  /\ pc \in [Tasks -> Points]
  /\ zone \in [Tasks -> Zones \cup {Unknown}]
  /\ resp \in [Tasks -> Response \cup {None}]
  /\ left \in [Tasks -> 0 .. XferLen]
  /\ sig \in {"select", "load", "write", "install", "ended"}
  /\ next \in 1 .. Len(ConfigZones) + 1
  /\ DOMAIN loaded \subseteq Zones /\ loaded \in [DOMAIN loaded -> 0 .. edits]
  /\ pending \subseteq Signals
  /\ server \in {"running", "cancelled", "returned"}

\* A failed or partial load is never served: every configured zone stays
\* served, from a version of its file that parsed (10-reload.bats, "invalid
\* zone file preserves old zone").
StoreSound == \A z \in Zones : z \in DOMAIN store /\ store[z] \notin bad

\* The zone is not replaced under a transfer in progress: what the client is
\* being sent is what the server serves, to the last message.
TransferCurrent ==
  \A t \in Tasks : pc[t] = "stream" /\ zone[t] \in Zones =>
    resp[t].answer = store[zone[t]]

\* However signals are merged and files edited, a reload never puts an older
\* version of a zone back.
NoRollback == [][\A z \in Zones : store'[z] >= store[z]]_vars

\* Answers are linearizable: all sections of a response come from one store,
\* the one served at an instant between the request and the reply.
Atomic == INSTANCE AtomicZones WITH
            reply <- [t \in Tasks |-> IF pc[t] = "reply" THEN resp[t] ELSE None]
ImplementsAtomic == Atomic!AInit /\ [][Atomic!ANext]_(Atomic!avars)

Settled == edits = MaxEdits /\ \A z \in Zones : disk[z] \notin bad
Current == \A z \in Zones : store[z] = disk[z]

\* No reload is lost: a SIGHUP sent after the last edit, even one merged with
\* a pending SIGHUP or sent during a reload, makes the new files served.
ReloadTakesEffect == ("HUP" \in pending /\ Settled) ~> (Current \/ ~Up)

\* A termination signal stops the server, whatever the signal task is doing.
ShutdownHappens == "TERM" \in pending ~> ~Up

\* A query that was received is answered, or dropped by the shutdown.
QueryAnswered == \A t \in Tasks : pc[t] = "query" ~> pc[t] \in {"reply", "dropped"}
=============================================================================
