-------------------------- MODULE ZoneReloadProofs --------------------------
(***************************************************************************)
(* Proofs about ZoneReload for every list of zones, every number of tasks, *)
(* transfer length and number of edits.                                    *)
(***************************************************************************)
EXTENDS ZoneReload, TLAPS

\* The writer holds the lock alone.
LockInv == sig = "install" => \A t \in Tasks : pc[t] \notin Reading

\* What a task has read under its guard is still what is served.
GuardInv ==
  \A t \in Tasks :
    /\ pc[t] = "authority" =>
         /\ zone[t] \in Zones
         /\ resp[t] = [zone |-> zone[t], answer |-> store[zone[t]], authority |-> Refused]
    /\ pc[t] = "stream" /\ zone[t] \in Zones => resp[t].answer = store[zone[t]]

\* No zone is served from a file newer than the one on disk, nor from a file
\* that was rejected.
ServedInv == \A z \in Zones : store[z] <= disk[z] /\ store[z] \notin bad

\* The store under construction holds the zones read so far, each from a file
\* that parsed and lies between the served version and the one on disk.
LoadInv ==
  sig \in {"load", "write", "install"} =>
    /\ \A i \in 1 .. Len(ConfigZones) : i < next => ConfigZones[i] \in DOMAIN loaded
    /\ \A z \in DOMAIN loaded :
         loaded[z] \notin bad /\ store[z] <= loaded[z] /\ loaded[z] <= disk[z]
    /\ sig # "load" => next > Len(ConfigZones)

IInv == TypeOK /\ LockInv /\ GuardInv /\ ServedInv /\ LoadInv

\* Every configured zone has a place in the configuration.
LEMMA ZoneIndex ==
  /\ Len(ConfigZones) \in Nat
  /\ \A i \in 1 .. Len(ConfigZones) : ConfigZones[i] \in Zones
  /\ \A z \in Zones : \E i \in 1 .. Len(ConfigZones) : z = ConfigZones[i]
<1>1. ConfigZones \in Seq(Zones)
  BY ReloadAssumption
<1>2. DOMAIN ConfigZones = 1 .. Len(ConfigZones) /\ Len(ConfigZones) \in Nat
  BY <1>1
<1> QED BY <1>1, <1>2 DEF Zones

LEMMA InitInv == Init => IInv
<1> SUFFICES ASSUME Init PROVE IInv
  OBVIOUS
<1> USE ReloadAssumption, ZoneIndex DEF Init
<1>1. TypeOK
  BY DEF TypeOK, Points, NoZones
<1>2. LockInv /\ GuardInv /\ ServedInv /\ LoadInv
  BY DEF LockInv, GuardInv, ServedInv, LoadInv, Reading
<1> QED BY <1>1, <1>2 DEF IInv

\* When the load is complete, so is the store it built.
LEMMA LoadComplete ==
  ASSUME IInv, sig \in {"write", "install"}
  PROVE  DOMAIN loaded = Zones
<1>1. next > Len(ConfigZones) /\ DOMAIN loaded \subseteq Zones /\ next \in Nat
  BY ZoneIndex DEF IInv, LoadInv, TypeOK
<1>2. ASSUME NEW z \in Zones PROVE z \in DOMAIN loaded
  <2>1. PICK i \in 1 .. Len(ConfigZones) : z = ConfigZones[i]
    BY ZoneIndex
  <2>2. i < next
    BY <1>1, ZoneIndex
  <2> QED BY <2>1, <2>2 DEF IInv, LoadInv
<1> QED BY <1>1, <1>2

-----------------------------------------------------------------------------
\* The environment and the signal task.

LEMMA EditStep ==
  ASSUME IInv, NEW z \in Zones, NEW parses \in BOOLEAN, Edit(z, parses)
  PROVE  IInv'
<1>1. /\ edits \in Nat /\ edits' = edits + 1
      /\ disk' = [disk EXCEPT ![z] = edits + 1]
      /\ bad' \subseteq bad \cup {edits + 1} /\ bad \subseteq bad'
      /\ UNCHANGED <<store, queue, pc, zone, resp, left, sig, next, loaded, pending, server>>
  BY DEF Edit, IInv, TypeOK, tasks, loader
<1>2. /\ disk \in [Zones -> 0 .. edits] /\ store \in [Zones -> 0 .. edits]
      /\ DOMAIN loaded \subseteq Zones /\ loaded \in [DOMAIN loaded -> 0 .. edits]
      /\ bad \subseteq 1 .. edits
  BY DEF IInv, TypeOK
<1>3. TypeOK'
  <2>1. disk' \in [Zones -> 0 .. edits'] /\ store' \in [Zones -> 0 .. edits']
    BY <1>1, <1>2
  <2>2. loaded' \in [DOMAIN loaded' -> 0 .. edits']
    BY <1>1, <1>2
  <2>3. bad' \subseteq 1 .. edits' /\ edits' \in Nat
    BY <1>1, <1>2
  <2> QED BY <1>1, <2>1, <2>2, <2>3 DEF IInv, TypeOK
<1>4. LockInv' /\ GuardInv'
  BY <1>1 DEF IInv, LockInv, GuardInv
<1>5. ServedInv'
  BY <1>1, <1>2 DEF IInv, ServedInv
<1>6. LoadInv'
  <2> SUFFICES ASSUME sig \in {"load", "write", "install"}, NEW y \in DOMAIN loaded
               PROVE  loaded[y] \notin bad' /\ loaded[y] <= disk'[y]
    BY <1>1 DEF IInv, LoadInv
  <2>1. loaded[y] \in 0 .. edits /\ loaded[y] \notin bad /\ loaded[y] <= disk[y]
    BY <1>2 DEF IInv, LoadInv
  <2>2. disk'[y] = disk[y] \/ disk'[y] = edits + 1
    BY <1>1, <1>2
  <2> QED BY <1>1, <2>1, <2>2
<1> QED BY <1>3, <1>4, <1>5, <1>6 DEF IInv

\* Steps of the signal task and of its senders leave the tasks, the files and
\* the store alone.
LEMMA SignalStep ==
  ASSUME IInv,
         \/ \E s \in Signals : Send(s)
         \/ SelectHup \/ SelectUsr1 \/ SelectTerm \/ LoadFails
         \/ RequestWrite
  PROVE  IInv'
<1> USE ReloadAssumption, ZoneIndex
<1>1. UNCHANGED <<disk, bad, edits, store, pc, zone, resp, left>>
  BY DEF Send, SelectHup, SelectUsr1, SelectTerm, LoadFails, RequestWrite, files, tasks
<1>2. \/ UNCHANGED <<sig, next, loaded>>
      \/ sig' = "load" /\ next' = 1 /\ loaded' = NoZones
      \/ sig' \in {"select", "ended"} /\ UNCHANGED <<next, loaded>>
      \/ /\ sig = "load" /\ sig' = "write" /\ next > Len(ConfigZones)
         /\ UNCHANGED <<next, loaded>>
  BY DEF Send, SelectHup, SelectUsr1, SelectTerm, LoadFails, RequestWrite, loader
<1>3. queue' \in Seq(Tasks \cup {Sig})
  <2>1. queue \in Seq(Tasks \cup {Sig})
    BY DEF IInv, TypeOK
  <2>2. queue' = queue \/ queue' = Append(queue, Sig)
    BY DEF Send, SelectHup, SelectUsr1, SelectTerm, LoadFails, RequestWrite
  <2> QED BY <2>1, <2>2
<1>4. pending' \subseteq Signals /\ server' \in {"running", "cancelled", "returned"}
  BY DEF IInv, TypeOK, Signals, Send, SelectHup, SelectUsr1, SelectTerm, LoadFails, RequestWrite
<1>5. TypeOK'
  <2>1. /\ sig' \in {"select", "load", "write", "install", "ended"}
        /\ next' \in 1 .. Len(ConfigZones) + 1
    BY <1>2 DEF IInv, TypeOK
  <2>2. DOMAIN loaded' \subseteq Zones /\ loaded' \in [DOMAIN loaded' -> 0 .. edits]
    BY <1>2 DEF IInv, TypeOK, NoZones
  <2> QED BY <1>1, <1>3, <1>4, <2>1, <2>2 DEF IInv, TypeOK
<1>6. LockInv' /\ GuardInv' /\ ServedInv'
  BY <1>1, <1>2 DEF IInv, LockInv, GuardInv, ServedInv
<1>7. LoadInv'
  BY <1>1, <1>2 DEF IInv, LoadInv, NoZones
<1> QED BY <1>5, <1>6, <1>7 DEF IInv

LEMMA LoadZoneStep == ASSUME IInv, LoadZone PROVE IInv'
<1>1. PICK z \in Zones : z = ConfigZones[next]
  <2>1. next \in 1 .. Len(ConfigZones)
    BY ZoneIndex DEF LoadZone, IInv, TypeOK
  <2> QED BY <2>1, ZoneIndex
<1>2. /\ sig = "load" /\ next <= Len(ConfigZones) /\ next' = next + 1
      /\ disk[z] \notin bad
      /\ loaded' = [y \in DOMAIN loaded \cup {z} |-> IF y = z THEN disk[z] ELSE loaded[y]]
      /\ UNCHANGED <<disk, bad, edits, store, queue, pc, zone, resp, left, sig, pending, server>>
  BY <1>1 DEF LoadZone, files, tasks
<1>3. /\ DOMAIN loaded' = DOMAIN loaded \cup {z} /\ DOMAIN loaded \subseteq Zones
      /\ loaded \in [DOMAIN loaded -> 0 .. edits]
      /\ disk[z] \in 0 .. edits /\ disk[z] \in Nat /\ next \in 1 .. Len(ConfigZones) + 1
  <2>1. DOMAIN loaded' = DOMAIN loaded \cup {z}
    BY <1>2
  <2>2. /\ DOMAIN loaded \subseteq Zones /\ loaded \in [DOMAIN loaded -> 0 .. edits]
        /\ next \in 1 .. Len(ConfigZones) + 1
        /\ disk \in [Zones -> 0 .. edits] /\ edits \in Nat
    BY DEF IInv, TypeOK
  <2> QED BY <2>1, <2>2
<1>4. TypeOK'
  <2>1. loaded' \in [DOMAIN loaded' -> 0 .. edits] /\ DOMAIN loaded' \subseteq Zones
    <3>1. \A y \in DOMAIN loaded : loaded[y] \in 0 .. edits
      BY <1>3
    <3>2. \A y \in DOMAIN loaded \cup {z} :
            (IF y = z THEN disk[z] ELSE loaded[y]) \in 0 .. edits
      BY <1>3, <3>1
    <3> QED BY <1>2, <1>3, <3>2
  <2>2. next' \in 1 .. Len(ConfigZones) + 1
    <3>1. Len(ConfigZones) \in Nat
      BY ZoneIndex
    <3> QED BY <1>2, <1>3, <3>1
  <2> QED BY <1>2, <2>1, <2>2 DEF IInv, TypeOK
<1>5. LockInv' /\ GuardInv' /\ ServedInv'
  BY <1>2 DEF IInv, LockInv, GuardInv, ServedInv
<1>6. LoadInv'
  <2>1. \A i \in 1 .. Len(ConfigZones) : i < next' => ConfigZones[i] \in DOMAIN loaded'
    <3> SUFFICES ASSUME NEW i \in 1 .. Len(ConfigZones), i < next'
                 PROVE  ConfigZones[i] \in DOMAIN loaded'
      OBVIOUS
    <3>1. CASE i < next
      <4>1. ConfigZones[i] \in DOMAIN loaded
        BY <1>2, <3>1 DEF IInv, LoadInv
      <4> QED BY <1>3, <4>1
    <3>2. CASE i = next
      BY <1>1, <1>3, <3>2
    <3> QED BY <1>2, <1>3, <3>1, <3>2
  <2>2. \A y \in DOMAIN loaded' :
          loaded'[y] \notin bad /\ store[y] <= loaded'[y] /\ loaded'[y] <= disk[y]
    <3>1. store[z] <= disk[z] /\ disk[z] <= disk[z]
      BY <1>3 DEF IInv, ServedInv
    <3> QED BY <1>2, <1>3, <3>1 DEF IInv, LoadInv
  <2> QED BY <1>2, <2>1, <2>2 DEF LoadInv
<1> QED BY <1>4, <1>5, <1>6 DEF IInv

LEMMA WriteLockStep == ASSUME IInv, WriteLock PROVE IInv'
<1>1. /\ sig' = "install" /\ sig = "write"
      /\ \A t \in Tasks : pc[t] \notin Reading
      /\ UNCHANGED <<disk, bad, edits, store, pc, zone, resp, left, next, loaded, pending, server>>
  BY DEF WriteLock, Readers, files, tasks, loader
<1>2. queue' \in Seq(Tasks \cup {Sig})
  BY DEF WriteLock, IInv, TypeOK
<1>3. TypeOK'
  BY <1>1, <1>2 DEF IInv, TypeOK
<1>4. LockInv' /\ GuardInv' /\ ServedInv' /\ LoadInv'
  BY <1>1 DEF IInv, LockInv, GuardInv, ServedInv, LoadInv
<1> QED BY <1>3, <1>4 DEF IInv

\* Install replaces the whole store; no guard is alive that remembers the old.
LEMMA InstallStep == ASSUME IInv, Install PROVE IInv'
<1>1. /\ sig = "install" /\ sig' = "select" /\ store' = loaded
      /\ UNCHANGED <<disk, bad, edits, queue, pc, zone, resp, left, next, loaded, pending, server>>
      /\ DOMAIN loaded = Zones
  BY LoadComplete DEF Install, files, tasks, loader
<1>2. TypeOK'
  BY <1>1 DEF IInv, TypeOK
<1>3. LockInv' /\ LoadInv'
  BY <1>1 DEF LockInv, LoadInv
<1>4. GuardInv'
  BY <1>1 DEF IInv, LockInv, GuardInv, Reading
<1>5. ServedInv'
  BY <1>1 DEF IInv, LoadInv, ServedInv
<1> QED BY <1>2, <1>3, <1>4, <1>5 DEF IInv

-----------------------------------------------------------------------------
\* The query and transfer tasks.

\* A task's step leaves files, store and signal task alone: it is enough to
\* show the types and what concerns that task.
LEMMA TaskFrame ==
  ASSUME IInv, NEW t \in Tasks, NEW point \in Points,
         NEW r \in Response \cup {None}, NEW z \in Zones \cup {Unknown},
         NEW n \in 0 .. XferLen,
         UNCHANGED <<disk, bad, edits, store, sig, next, loaded, pending, server>>,
         queue' \in Seq(Tasks \cup {Sig}),
         pc' = [pc EXCEPT ![t] = point],
         resp' = [resp EXCEPT ![t] = r],
         zone' = [zone EXCEPT ![t] = z],
         left' = [left EXCEPT ![t] = n],
         point \in Reading => sig # "install",
         point = "authority" =>
           z \in Zones /\ r = [zone |-> z, answer |-> store[z], authority |-> Refused],
         point = "stream" /\ z \in Zones => r.answer = store[z]
  PROVE  IInv'
<1>0. /\ pc \in [Tasks -> Points] /\ resp \in [Tasks -> Response \cup {None}]
      /\ zone \in [Tasks -> Zones \cup {Unknown}] /\ left \in [Tasks -> 0 .. XferLen]
  BY DEF IInv, TypeOK
<1>1. /\ pc' \in [Tasks -> Points] /\ resp' \in [Tasks -> Response \cup {None}]
      /\ zone' \in [Tasks -> Zones \cup {Unknown}] /\ left' \in [Tasks -> 0 .. XferLen]
  BY <1>0
<1>2. TypeOK'
  BY <1>1 DEF IInv, TypeOK
<1>3. /\ pc'[t] = point /\ resp'[t] = r /\ zone'[t] = z
      /\ \A u \in Tasks : u # t => pc'[u] = pc[u] /\ resp'[u] = resp[u] /\ zone'[u] = zone[u]
  BY <1>0
<1>4. LockInv'
  BY <1>3 DEF IInv, LockInv
<1>5. GuardInv'
  <2> SUFFICES ASSUME NEW u \in Tasks
               PROVE  /\ pc'[u] = "authority" =>
                           /\ zone'[u] \in Zones
                           /\ resp'[u] = [zone |-> zone'[u], answer |-> store[zone'[u]],
                                          authority |-> Refused]
                      /\ pc'[u] = "stream" /\ zone'[u] \in Zones =>
                           resp'[u].answer = store[zone'[u]]
    BY DEF GuardInv
  <2>1. CASE u = t
    BY <1>3, <2>1
  <2>2. CASE u # t
    BY <1>3, <2>2 DEF IInv, GuardInv
  <2> QED BY <2>1, <2>2
<1>6. ServedInv' /\ LoadInv'
  BY DEF IInv, ServedInv, LoadInv
<1> QED BY <1>2, <1>4, <1>5, <1>6 DEF IInv

LEMMA TaskTypes ==
  ASSUME IInv, NEW t \in Tasks
  PROVE  /\ pc[t] \in Points /\ resp[t] \in Response \cup {None}
         /\ zone[t] \in Zones \cup {Unknown} /\ left[t] \in 0 .. XferLen
         /\ pc = [pc EXCEPT ![t] = pc[t]] /\ resp = [resp EXCEPT ![t] = resp[t]]
         /\ zone = [zone EXCEPT ![t] = zone[t]] /\ left = [left EXCEPT ![t] = left[t]]
         /\ queue \in Seq(Tasks \cup {Sig}) /\ store \in [Zones -> Nat]
         /\ DOMAIN store = Zones
BY DEF IInv, TypeOK

LEMMA ReceiveStep ==
  ASSUME IInv, NEW t \in Tasks, NEW z \in Zones \cup {Unknown},
         NEW wait \in {"query", "axfr"}, Receive(t, z, wait)
  PROVE  IInv'
<1>1. queue' \in Seq(Tasks \cup {Sig})
  BY TaskTypes DEF Receive
<1>2. /\ wait \in Points /\ wait \notin Reading
      /\ wait # "authority" /\ wait # "stream"
  BY DEF Points, Reading
<1> QED
  BY <1>1, <1>2, TaskTypes, TaskFrame DEF Receive, Goto, files, loader

LEMMA ReadLockStep ==
  ASSUME IInv, NEW t \in Tasks,
         LockQuery(t) \/ LockAxfr(t)
  PROVE  IInv'
<1>1. PICK point \in {"lookup", "records"} :
        /\ queue' = Tail(queue) /\ queue # <<>> /\ sig # "install"
        /\ pc' = [pc EXCEPT ![t] = point]
        /\ UNCHANGED <<files, store, zone, resp, left, sig, loader, pending, server>>
  BY DEF LockQuery, LockAxfr, ReadLock, Goto, Writing
<1>2. queue' \in Seq(Tasks \cup {Sig})
  BY <1>1, TaskTypes
<1>3. point \in Points /\ point # "authority" /\ point # "stream"
  BY DEF Points
<1>4. /\ UNCHANGED <<disk, bad, edits, store, sig, next, loaded, pending, server>>
      /\ resp' = [resp EXCEPT ![t] = resp[t]] /\ resp[t] \in Response \cup {None}
      /\ zone' = [zone EXCEPT ![t] = zone[t]] /\ zone[t] \in Zones \cup {Unknown}
      /\ left' = [left EXCEPT ![t] = left[t]] /\ left[t] \in 0 .. XferLen
  BY <1>1, TaskTypes DEF files, loader
<1> QED
  BY <1>1, <1>2, <1>3, <1>4, TaskFrame

LEMMA LookupStep == ASSUME IInv, NEW t \in Tasks, Lookup(t) PROVE IInv'
<1>1. sig # "install" /\ pc[t] = "lookup"
  BY DEF Lookup, IInv, LockInv, Reading
<1>2. CASE zone[t] \in DOMAIN store
  <2> DEFINE r == [zone |-> zone[t], answer |-> store[zone[t]], authority |-> Refused]
  <2>1. r \in Response \cup {None} /\ zone[t] \in Zones
    BY <1>2, TaskTypes DEF Response
  <2>2. resp' = [resp EXCEPT ![t] = r] /\ pc' = [pc EXCEPT ![t] = "authority"]
        /\ UNCHANGED <<files, store, queue, zone, left, sig, loader, pending, server>>
    BY <1>2 DEF Lookup, Goto
  <2>3. "authority" \in Points
    BY DEF Points
  <2> HIDE DEF r
  <2>4. r = [zone |-> zone[t], answer |-> store[zone[t]], authority |-> Refused]
    BY DEF r
  <2> QED BY <1>1, <2>1, <2>2, <2>3, <2>4, TaskTypes, TaskFrame DEF files, loader
<1>3. CASE zone[t] \notin DOMAIN store
  <2>1. Refusal(zone[t]) \in Response \cup {None}
    BY TaskTypes DEF Response, Refusal
  <2>2. resp' = [resp EXCEPT ![t] = Refusal(zone[t])] /\ pc' = [pc EXCEPT ![t] = "reply"]
        /\ UNCHANGED <<files, store, queue, zone, left, sig, loader, pending, server>>
    BY <1>3 DEF Lookup, Goto
  <2>3. "reply" \in Points /\ "reply" \notin Reading
    BY DEF Points, Reading
  <2> QED BY <2>1, <2>2, <2>3, TaskTypes, TaskFrame DEF files, loader
<1> QED BY <1>2, <1>3

\* What Authority adds to the response.
LEMMA AuthorityResp ==
  ASSUME IInv, NEW t \in Tasks, Authority(t)
  PROVE  /\ zone[t] \in Zones
         /\ resp' = [resp EXCEPT ![t] = [zone |-> zone[t], answer |-> store[zone[t]],
                                         authority |-> store[zone[t]]]]
<1>1. /\ zone[t] \in Zones
      /\ resp[t] = [zone |-> zone[t], answer |-> store[zone[t]], authority |-> Refused]
  BY DEF Authority, IInv, GuardInv
<1>2. resp' = [resp EXCEPT ![t] = [resp[t] EXCEPT !.authority = store[zone[t]]]]
  BY DEF Authority
<1>3. [resp[t] EXCEPT !.authority = store[zone[t]]] =
        [zone |-> zone[t], answer |-> store[zone[t]], authority |-> store[zone[t]]]
  BY <1>1
<1> QED BY <1>1, <1>2, <1>3

LEMMA AuthorityStep == ASSUME IInv, NEW t \in Tasks, Authority(t) PROVE IInv'
<1> DEFINE r == [zone |-> zone[t], answer |-> store[zone[t]], authority |-> store[zone[t]]]
<1>1. zone[t] \in Zones /\ resp' = [resp EXCEPT ![t] = r]
  BY AuthorityResp
<1>2. r \in Response \cup {None}
  BY <1>1, TaskTypes DEF Response
<1>3. pc' = [pc EXCEPT ![t] = "reply"]
      /\ UNCHANGED <<files, store, queue, zone, left, sig, loader, pending, server>>
  BY DEF Authority, Goto
<1>4. "reply" \in Points /\ "reply" \notin Reading
  BY DEF Points, Reading
<1> HIDE DEF r
<1> QED BY <1>1, <1>2, <1>3, <1>4, TaskTypes, TaskFrame DEF files, loader

LEMMA IdleStep == ASSUME IInv, NEW t \in Tasks, Idle(t) PROVE IInv'
<1>1. "idle" \in Points /\ "idle" \notin Reading /\ 0 \in 0 .. XferLen
  BY ReloadAssumption DEF Points, Reading
<1> QED BY <1>1, TaskTypes, TaskFrame DEF Idle, Goto, files, loader

LEMMA RecordsStep == ASSUME IInv, NEW t \in Tasks, Records(t) PROVE IInv'
<1>1. sig # "install" /\ pc' = [pc EXCEPT ![t] = "stream"]
      /\ UNCHANGED <<files, store, queue, zone, sig, loader, pending, server>>
  BY DEF Records, IInv, LockInv, Reading, Goto
<1>2. "stream" \in Points /\ 1 \in 0 .. XferLen /\ XferLen \in 0 .. XferLen
  BY ReloadAssumption DEF Points
<1>3. CASE zone[t] \in DOMAIN store
  <2> DEFINE r == [zone |-> zone[t], answer |-> store[zone[t]], authority |-> store[zone[t]]]
  <2>1. r \in Response \cup {None} /\ zone[t] \in Zones /\ r.answer = store[zone[t]]
    BY <1>3, TaskTypes DEF Response
  <2>2. resp' = [resp EXCEPT ![t] = r] /\ left' = [left EXCEPT ![t] = XferLen]
    BY <1>3 DEF Records
  <2> HIDE DEF r
  <2> QED BY <1>1, <1>2, <2>1, <2>2, TaskTypes, TaskFrame DEF files, loader
<1>4. CASE zone[t] \notin DOMAIN store
  <2>1. Refusal(zone[t]) \in Response \cup {None} /\ zone[t] \notin Zones
    BY <1>4, TaskTypes DEF Response, Refusal
  <2>2. resp' = [resp EXCEPT ![t] = Refusal(zone[t])] /\ left' = [left EXCEPT ![t] = 1]
    BY <1>4 DEF Records
  <2> QED BY <1>1, <1>2, <2>1, <2>2, TaskTypes, TaskFrame DEF files, loader
<1> QED BY <1>3, <1>4

LEMMA WriteStep ==
  ASSUME IInv, NEW t \in Tasks, WriteMessage(t) \/ WriteFails(t) PROVE IInv'
<1>1. CASE Idle(t)
  BY <1>1, IdleStep
<1>2. CASE /\ left[t] > 1 /\ left' = [left EXCEPT ![t] = @ - 1]
           /\ UNCHANGED <<files, store, queue, pc, zone, resp, sig, loader, pending, server>>
  <2>1. left' = [left EXCEPT ![t] = left[t] - 1] /\ left[t] - 1 \in 0 .. XferLen
    BY <1>2, ReloadAssumption, TaskTypes
  <2>2. left' \in [Tasks -> 0 .. XferLen]
    BY <2>1 DEF IInv, TypeOK
  <2>3. TypeOK'
    BY <1>2, <2>2 DEF IInv, TypeOK, files, loader
  <2>4. LockInv' /\ GuardInv' /\ ServedInv' /\ LoadInv'
    BY <1>2 DEF IInv, LockInv, GuardInv, ServedInv, LoadInv, files, loader
  <2> QED BY <2>3, <2>4 DEF IInv
<1> QED BY <1>1, <1>2 DEF WriteMessage, WriteFails

LEMMA ReturnStep == ASSUME IInv, RunReturns PROVE IInv'
<1>1. /\ pc' = [t \in Tasks |-> "dropped"] /\ resp' = [t \in Tasks |-> None]
      /\ queue' = <<>> /\ server' = "returned"
      /\ UNCHANGED <<disk, bad, edits, store, zone, left, sig, next, loaded, pending>>
  BY DEF RunReturns, files, loader
<1>2. TypeOK'
  BY <1>1 DEF IInv, TypeOK, Points
<1>3. LockInv' /\ GuardInv' /\ ServedInv' /\ LoadInv'
  BY <1>1 DEF IInv, LockInv, GuardInv, ServedInv, LoadInv, Reading
<1> QED BY <1>2, <1>3 DEF IInv

-----------------------------------------------------------------------------
LEMMA InvStep == IInv /\ [Next]_vars => IInv'
<1> SUFFICES ASSUME IInv, [Next]_vars PROVE IInv'
  OBVIOUS
<1>1. ASSUME NEW t \in Tasks, NEW z \in Zones \cup {Unknown},
             ReceiveQuery(t, z) \/ ReceiveAxfr(t, z)
      PROVE  IInv'
  BY <1>1, ReceiveStep DEF ReceiveQuery, ReceiveAxfr
<1>2. ASSUME NEW t \in Tasks, QueryTask(t) PROVE IInv'
  BY <1>2, ReadLockStep, LookupStep, AuthorityStep, IdleStep, RecordsStep
     DEF QueryTask, Reply
<1>3. ASSUME NEW t \in Tasks, WriteMessage(t) \/ WriteFails(t) PROVE IInv'
  BY <1>3, WriteStep
<1>4. CASE SignalTask
  BY <1>4, SignalStep, LoadZoneStep, WriteLockStep, InstallStep DEF SignalTask
<1>5. CASE Stopped \/ UNCHANGED vars
  <2>1. /\ UNCHANGED <<disk, bad, edits, store, queue, pc, zone, resp, left>>
        /\ UNCHANGED <<sig, next, loaded, pending, server>>
    BY <1>5 DEF Stopped, vars, files, tasks, loader
  <2> QED BY <2>1 DEF IInv, TypeOK, LockInv, GuardInv, ServedInv, LoadInv
<1>6. ASSUME NEW s \in Signals, Send(s) PROVE IInv'
  BY <1>6, SignalStep
<1>7. ASSUME NEW z \in Zones, NEW parses \in BOOLEAN, Edit(z, parses) PROVE IInv'
  BY <1>7, EditStep
<1> QED
  BY <1>1, <1>2, <1>3, <1>4, <1>5, <1>6, <1>7, ReturnStep DEF Next

LEMMA Invariance == StalledSpec => []IInv
<1>1. Init => IInv
  BY InitInv
<1>2. IInv /\ [Next]_vars => IInv'
  BY InvStep
<1> QED BY <1>1, <1>2, PTL DEF StalledSpec

\* Every variable keeps its type; the store always holds exactly the configured
\* zones.  No assumption about the clients is used.
THEOREM TypeCorrect == StalledSpec => []TypeOK
<1>1. IInv => TypeOK
  BY DEF IInv
<1> QED BY <1>1, Invariance, PTL

\* No partial load and no rejected file is ever served, for any number of
\* zones, edits and merged signals.
THEOREM OnlyCompleteLoads == StalledSpec => []StoreSound
<1>1. IInv => StoreSound
  BY DEF IInv, TypeOK, ServedInv, StoreSound
<1> QED BY <1>1, Invariance, PTL

\* The guard kept across the stream pins the zone that is being transferred.
THEOREM TransferPinned == StalledSpec => []TransferCurrent
<1>1. IInv => TransferCurrent
  BY DEF IInv, GuardInv, TransferCurrent
<1> QED BY <1>1, Invariance, PTL

\* Only Install changes the store, and it installs versions that are not older.
LEMMA StoreGrows ==
  ASSUME IInv, [Next]_vars
  PROVE  \/ store' = store
         \/ /\ Install /\ DOMAIN store' = Zones
            /\ \A z \in Zones : store'[z] \in Nat /\ store'[z] >= store[z]
<1>1. CASE Install
  <2>1. store' = loaded /\ DOMAIN loaded = Zones /\ sig = "install"
    BY <1>1, LoadComplete DEF Install
  <2>2. \A z \in Zones : loaded[z] \in Nat /\ store[z] \in Nat /\ store[z] <= loaded[z]
    BY <2>1 DEF IInv, LoadInv, TypeOK
  <2> QED BY <1>1, <2>1, <2>2
<1>2. CASE ~Install
  BY <1>2 DEF Next, vars, Edit, Send, ReceiveQuery, ReceiveAxfr, Receive, QueryTask, LockQuery,
       LockAxfr, ReadLock, Lookup, Authority, Reply, Records, Idle, WriteMessage, WriteFails,
       SignalTask, SelectHup, SelectUsr1, SelectTerm, LoadZone, LoadFails, RequestWrite,
       WriteLock, RunReturns, Stopped
<1> QED BY <1>1, <1>2

\* A reload never puts an older version of a zone back.
THEOREM Monotone == StalledSpec => NoRollback
<1>1. IInv /\ [Next]_vars => [\A z \in Zones : store'[z] >= store[z]]_vars
  <2> SUFFICES ASSUME IInv, [Next]_vars PROVE \A z \in Zones : store'[z] >= store[z]
    OBVIOUS
  <2>1. \A z \in Zones : store[z] \in Nat
    BY DEF IInv, TypeOK
  <2> QED BY <2>1, StoreGrows
<1> QED BY <1>1, Invariance, PTL DEF StalledSpec, NoRollback

-----------------------------------------------------------------------------
\* The abstract reply of AtomicZones: what a task is about to send.
Sending == [t \in Tasks |-> IF pc[t] = "reply" THEN resp[t] ELSE None]

\* A step of a task that neither reaches nor leaves "reply" is invisible.
LEMMA Invisible ==
  ASSUME IInv, NEW t \in Tasks, NEW point \in Points, pc[t] # "reply", point # "reply",
         pc' = [pc EXCEPT ![t] = point],
         \A u \in Tasks : u # t => resp'[u] = resp[u]
  PROVE  Sending' = Sending
<1>1. pc \in [Tasks -> Points]
  BY DEF IInv, TypeOK
<1>2. \A u \in Tasks : (IF pc'[u] = "reply" THEN resp'[u] ELSE None)
                       = (IF pc[u] = "reply" THEN resp[u] ELSE None)
  BY <1>1
<1> QED BY <1>2 DEF Sending

\* A step to "reply" publishes the response, one that leaves it withdraws it.
LEMMA Visible ==
  ASSUME IInv, NEW t \in Tasks, NEW point \in Points, NEW r,
         pc' = [pc EXCEPT ![t] = point], resp' = [resp EXCEPT ![t] = r]
  PROVE  /\ point = "reply" => Sending' = [Sending EXCEPT ![t] = r]
         /\ point # "reply" => Sending' = [Sending EXCEPT ![t] = None]
<1>1. pc \in [Tasks -> Points] /\ DOMAIN resp = Tasks
  BY DEF IInv, TypeOK
<1>2. ASSUME NEW v, v = IF point = "reply" THEN r ELSE None
      PROVE  Sending' = [Sending EXCEPT ![t] = v]
  <2>1. \A u \in Tasks : (IF pc'[u] = "reply" THEN resp'[u] ELSE None)
                         = IF u = t THEN v ELSE Sending[u]
    BY <1>1, <1>2 DEF Sending
  <2>2. Sending' = [u \in Tasks |-> IF u = t THEN v ELSE Sending[u]]
    BY <2>1 DEF Sending
  <2>3. [Sending EXCEPT ![t] = v] = [u \in Tasks |-> IF u = t THEN v ELSE Sending[u]]
    BY DEF Sending
  <2> QED BY <2>2, <2>3
<1> QED BY <1>2

\* Every answer is linearizable: the reloadable store with its fair lock, its
\* guards and its file by file loads implements AtomicZones.
THEOREM Linearizable == StalledSpec => ImplementsAtomic
<1>1. Init => Atomic!AInit
  BY DEF Init, Atomic!AInit
<1>2. IInv /\ [Next]_vars => [Atomic!ANext]_(Atomic!avars)
  <2> SUFFICES ASSUME IInv, [Next]_vars PROVE [Atomic!ANext]_(Atomic!avars)
    OBVIOUS
  <2>a. ASSUME store' = store, Sending' = Sending PROVE UNCHANGED Atomic!avars
    BY <2>a DEF Atomic!avars, Sending
  <2>b. ASSUME UNCHANGED <<store, pc, resp>> PROVE UNCHANGED Atomic!avars
    <3>1. Sending' = Sending
      BY <2>b DEF Sending
    <3> QED BY <2>a, <2>b, <3>1
  <2>1. ASSUME NEW t \in Tasks, NEW z \in Zones \cup {Unknown},
               ReceiveQuery(t, z) \/ ReceiveAxfr(t, z)
        PROVE  UNCHANGED Atomic!avars
    <3>1. PICK wait \in {"query", "axfr"} :
            pc[t] = "idle" /\ pc' = [pc EXCEPT ![t] = wait] /\ UNCHANGED <<store, resp>>
      BY <2>1 DEF ReceiveQuery, ReceiveAxfr, Receive, Goto
    <3>2. Sending' = Sending
      BY <3>1, Invisible DEF Points
    <3> QED BY <2>a, <3>1, <3>2
  <2>2. ASSUME NEW t \in Tasks, LockQuery(t) \/ LockAxfr(t)
        PROVE  UNCHANGED Atomic!avars
    <3>1. PICK point \in {"lookup", "records"} :
            /\ pc[t] \in {"query", "axfr"} /\ pc' = [pc EXCEPT ![t] = point]
            /\ UNCHANGED <<store, resp>>
      BY <2>2 DEF LockQuery, LockAxfr, ReadLock, Goto
    <3>2. Sending' = Sending
      BY <3>1, Invisible DEF Points
    <3> QED BY <2>a, <3>1, <3>2
  <2>3. ASSUME NEW t \in Tasks, Lookup(t), zone[t] \in DOMAIN store
        PROVE  UNCHANGED Atomic!avars
    <3>1. /\ pc[t] = "lookup" /\ pc' = [pc EXCEPT ![t] = "authority"] /\ store' = store
          /\ \A u \in Tasks : u # t => resp'[u] = resp[u]
      BY <2>3 DEF Lookup, Goto, IInv, TypeOK
    <3>2. Sending' = Sending
      BY <3>1, Invisible DEF Points
    <3> QED BY <2>a, <3>1, <3>2
  <2>4. ASSUME NEW t \in Tasks, NEW z \in Zones \cup {Unknown}, NEW r,
               pc[t] # "reply", pc' = [pc EXCEPT ![t] = "reply"],
               resp' = [resp EXCEPT ![t] = r], store' = store,
               r = IF z \in Zones
                   THEN [zone |-> z, answer |-> store[z], authority |-> store[z]]
                   ELSE [zone |-> z, answer |-> Refused, authority |-> Refused]
        PROVE  Atomic!ANext
    <3>1. Sending' = [Sending EXCEPT ![t] = r] /\ Sending[t] = None
      <4>1. "reply" \in Points
        BY DEF Points
      <4>2. Sending' = [Sending EXCEPT ![t] = r]
        BY <2>4, <4>1, Visible
      <4>3. Sending[t] = None
        BY <2>4 DEF Sending
      <4> QED BY <4>2, <4>3
    <3>2. Atomic!Answer(t, z)
      BY <2>4, <3>1 DEF Atomic!Answer, Sending
    <3> QED BY <3>2 DEF Atomic!ANext
  <2>5. ASSUME NEW t \in Tasks, Lookup(t), zone[t] \notin DOMAIN store
        PROVE  Atomic!ANext
    <3>1. /\ pc[t] # "reply" /\ pc' = [pc EXCEPT ![t] = "reply"] /\ store' = store
          /\ resp' = [resp EXCEPT ![t] = Refusal(zone[t])]
      BY <2>5 DEF Lookup, Goto
    <3>2. zone[t] \in Zones \cup {Unknown} /\ zone[t] \notin Zones
      BY <2>5, TaskTypes
    <3>3. Refusal(zone[t]) =
            IF zone[t] \in Zones
            THEN [zone |-> zone[t], answer |-> store[zone[t]], authority |-> store[zone[t]]]
            ELSE [zone |-> zone[t], answer |-> Refused, authority |-> Refused]
      BY <3>2 DEF Refusal
    <3> QED BY <2>4, <3>1, <3>2, <3>3
  <2>6. ASSUME NEW t \in Tasks, Authority(t) PROVE Atomic!ANext
    <3>1. /\ pc[t] # "reply" /\ pc' = [pc EXCEPT ![t] = "reply"] /\ store' = store
          /\ zone[t] \in Zones
          /\ resp' = [resp EXCEPT ![t] = [zone |-> zone[t], answer |-> store[zone[t]],
                                          authority |-> store[zone[t]]]]
      BY <2>6, AuthorityResp DEF Authority, Goto
    <3> QED BY <2>4, <3>1
  <2>7. ASSUME NEW t \in Tasks, Reply(t) PROVE Atomic!ANext
    <3>1. /\ pc' = [pc EXCEPT ![t] = "idle"] /\ resp' = [resp EXCEPT ![t] = None]
          /\ store' = store
      BY <2>7 DEF Reply, Idle, Goto
    <3>2. Sending' = [Sending EXCEPT ![t] = None]
      BY <3>1, Visible DEF Points
    <3>3. Atomic!Send(t)
      BY <3>1, <3>2 DEF Atomic!Send, Sending
    <3> QED BY <3>3 DEF Atomic!ANext
  <2>8. ASSUME NEW t \in Tasks, Records(t) \/ WriteMessage(t) \/ WriteFails(t)
        PROVE  UNCHANGED Atomic!avars
    <3>1. PICK point \in {"stream", "idle"} :
            /\ pc[t] \in {"records", "stream"} /\ pc' = [pc EXCEPT ![t] = point]
            /\ store' = store
            /\ \A u \in Tasks : u # t => resp'[u] = resp[u]
      BY <2>8 DEF Records, WriteMessage, WriteFails, Idle, Goto, IInv, TypeOK
    <3>2. Sending' = Sending
      BY <3>1, Invisible DEF Points
    <3> QED BY <2>a, <3>1, <3>2
  <2>9. CASE Install
    <3>1. UNCHANGED <<pc, resp>>
      BY <2>9 DEF Install, tasks
    <3>2. \/ store' = store
          \/ /\ DOMAIN store' = Zones
             /\ \A z \in Zones : store'[z] \in Nat /\ store'[z] >= store[z]
      BY StoreGrows
    <3>3. CASE store' = store
      BY <2>b, <3>1, <3>3
    <3>4. CASE /\ DOMAIN store' = Zones
               /\ \A z \in Zones : store'[z] \in Nat /\ store'[z] >= store[z]
      BY <3>1, <3>4 DEF Atomic!Replace, Atomic!ANext
    <3> QED BY <3>2, <3>3, <3>4
  <2>10. CASE SignalTask /\ ~Install
    <3>1. UNCHANGED <<store, pc, resp>>
      BY <2>10 DEF SignalTask, SelectHup, SelectUsr1, SelectTerm, LoadZone, LoadFails,
           RequestWrite, WriteLock, tasks
    <3> QED BY <2>b, <3>1
  <2>11. CASE RunReturns
    BY <2>11 DEF RunReturns, Atomic!Stop, Atomic!ANext
  <2>12. CASE \/ \E z \in Zones, parses \in BOOLEAN : Edit(z, parses)
              \/ \E s \in Signals : Send(s)
              \/ Stopped \/ UNCHANGED vars
    <3>1. UNCHANGED <<store, pc, resp>>
      BY <2>12 DEF Edit, Send, Stopped, vars, tasks
    <3> QED BY <2>b, <3>1
  <2> QED
    BY <2>1, <2>2, <2>3, <2>5, <2>6, <2>7, <2>8, <2>9, <2>10, <2>11, <2>12
       DEF Next, QueryTask
<1> QED BY <1>1, <1>2, Invariance, PTL DEF StalledSpec, ImplementsAtomic
=============================================================================
