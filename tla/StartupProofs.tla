---------------------------- MODULE StartupProofs ----------------------------
(***************************************************************************)
(* Proofs about Startup for all configurations, zones, files, taken ports  *)
(* and orders of signals.                                                  *)
(***************************************************************************)
EXTENDS Startup, FiniteSetTheorems, TLAPS

USE StartupAssumption

Before == {"config", "validate", "load"}

\* The configuration is read once, and the text it was read from stays.
ConfigInv ==
  /\ main = "config" => config = {} /\ next = 1
  /\ main # "config" => \E t \in text : text = {t} /\ config = {FromText(t)}
  /\ text # {} => \E t \in Texts : text = {t}

\* How far validation and loading have come.  After loading, the store holds
\* all the configured zones.
LoadInv ==
  /\ main \in {"config", "validate"} => store = {}
  /\ main = "validate" =>
       \A i \in 1 .. Len(zoneNames) : i < next => zoneNames[i] # Unnamed
  /\ main \notin {"config", "validate"} =>
       /\ zoneNames # <<>>
       /\ \A i \in 1 .. Len(zoneNames) : zoneNames[i] # Unnamed
  /\ main = "load" =>
       store = {zoneNames[i] : i \in {i \in 1 .. Len(zoneNames) : i < next}}
  /\ main \notin {"config", "validate", "load"} => store = ZonesOf

\* The handlers registered while the last one is not.
H1 == {"HUP"}
H2 == {"HUP", "USR1"}
H3 == {"HUP", "USR1", "INT"}
H4 == {"HUP", "USR1", "INT", "QUIT"}
FirstHandlers == {{}, H1, H2, H3, H4}

\* Nothing runs before main has spawned it.
SpawnInv ==
  /\ main \in Before \cup {"api"} => api = "none"
  /\ main # "run" => /\ udp = "off" /\ tcp = "off" /\ sig = "none"
                     /\ tasks = [p \in {"udp", "tcp"} |-> 0]
  /\ sig = "none" => registered = {}
  /\ sig = "registering" => registered \in FirstHandlers

\* After loading, only a server that could not be bound ends in an error.
ExitInv ==
  /\ "failed" \in {udp, tcp} => exit = "error"
  /\ exit = "error" /\ main \notin Before => "failed" \in {udp, tcp}

IInv == TypeOK /\ ConfigInv /\ LoadInv /\ SpawnInv /\ ExitInv

-----------------------------------------------------------------------------
(* Facts about the configuration *)

LEMMA SignalSet ==
  Signals = {"HUP", "USR1", "INT", "QUIT", "TERM"} /\ Len(SignalOrder) = 5
  BY DEF Signals, SignalOrder, ToSet

LEMMA PrefixSizes ==
  /\ Cardinality({}) = 0 /\ Cardinality(H1) = 1 /\ Cardinality(H2) = 2
  /\ Cardinality(H3) = 3 /\ Cardinality(H4) = 4
<1>1. IsFiniteSet(H1) /\ Cardinality(H1) = 1
  BY FS_Singleton DEF H1
<1>2. IsFiniteSet(H1 \cup {"USR1"}) /\ Cardinality(H1 \cup {"USR1"}) = 2
  <2>1. "USR1" \notin H1
    BY DEF H1
  <2> QED  BY <1>1, <2>1, FS_AddElement
<1>3. IsFiniteSet(H2) /\ Cardinality(H2) = 2
  <2>1. H2 = H1 \cup {"USR1"}
    BY DEF H1, H2
  <2> QED  BY <1>2, <2>1
<1>4. IsFiniteSet(H2 \cup {"INT"}) /\ Cardinality(H2 \cup {"INT"}) = 3
  <2>1. "INT" \notin H2
    BY DEF H2
  <2> QED  BY <1>3, <2>1, FS_AddElement
<1>5. IsFiniteSet(H3) /\ Cardinality(H3) = 3
  <2>1. H3 = H2 \cup {"INT"}
    BY DEF H2, H3
  <2> QED  BY <1>4, <2>1
<1>6. Cardinality(H3 \cup {"QUIT"}) = 4
  <2>1. "QUIT" \notin H3
    BY DEF H3
  <2>2. Cardinality(H3 \cup {"QUIT"}) = Cardinality(H3) + 1
    BY <1>5, <2>1, FS_AddElement
  <2> QED  BY <1>5, <2>2
<1>7. H4 = H3 \cup {"QUIT"}
  BY DEF H3, H4
<1> QED  BY <1>1, <1>3, <1>5, <1>6, <1>7, FS_EmptySet

LEMMA FromTextType == \A t \in Texts : FromText(t) \in ConfigType /\ FromText(t).zones = t.zones
  BY DEF FromText, ConfigType, TextType, OrElse, Options, DefaultTcpIdleTimeout, DefaultTcpMaxQueries

\* With a configuration, zoneNames is its list and ZonesOf the list's elements.
LEMMA TheZones ==
  ASSUME NEW c, config = {c}
  PROVE  zoneNames = c.zones /\ ZonesOf = ToSet(c.zones)
  BY DEF zoneNames, ZonesOf

LEMMA ZoneList ==
  ASSUME IInv, main # "config"
  PROVE  /\ zoneNames \in Seq(Names \cup {Unnamed})
         /\ ZonesOf = {zoneNames[i] : i \in 1 .. Len(zoneNames)}
<1>1. PICK t \in text : config = {FromText(t)}
  BY DEF IInv, ConfigInv
<1>2. t \in Texts
  BY DEF IInv, TypeOK
<1>3. FromText(t).zones \in Seq(Names \cup {Unnamed})
  BY <1>2, FromTextType DEF ConfigType
<1>4. zoneNames = FromText(t).zones /\ ZonesOf = ToSet(FromText(t).zones)
  BY <1>1, TheZones
<1> QED  BY <1>3, <1>4 DEF ToSet

-----------------------------------------------------------------------------
LEMMA InitInv == Init => IInv
<1> SUFFICES ASSUME Init PROVE IInv
  OBVIOUS
<1> USE DEF Init
<1>1. TypeOK
  <2>1. text \subseteq Texts /\ token \in BOOLEAN
    OBVIOUS
  <2>2. tasks \in [{"udp", "tcp"} -> 0 .. MaxTasks] /\ changes \in 0 .. MaxChanges
    OBVIOUS
  <2>3. config \subseteq ConfigType /\ store \subseteq Names /\ registered \subseteq Signals
    OBVIOUS
  <2> QED  BY <2>1, <2>2, <2>3 DEF TypeOK
<1>2. ConfigInv
  BY DEF ConfigInv
<1>3. LoadInv /\ SpawnInv /\ ExitInv
  BY DEF LoadInv, SpawnInv, ExitInv, Before
<1> QED  BY <1>1, <1>2, <1>3 DEF IInv

-----------------------------------------------------------------------------
(* main *)

LEMMA ReadConfigInv ==
  ASSUME IInv, ReadConfig
  PROVE  IInv'
<1> USE DEF IInv, ReadConfig
<1>1. CASE text = {}
  BY <1>1 DEF TypeOK, ConfigInv, LoadInv, SpawnInv, ExitInv, Before, zoneNames, ZonesOf,
         files, servers, signals
<1>2. CASE text # {}
  <2>1. PICK t \in Texts : text = {t}
    BY <1>2 DEF ConfigInv
  <2>2. config' = {FromText(t)} /\ FromText(t) \in ConfigType
    BY <1>2, <2>1, FromTextType
  <2>3. TypeOK'
    BY <1>2, <2>2 DEF TypeOK, files, servers, signals
  <2>4. ConfigInv'
    BY <1>2, <2>1, <2>2 DEF ConfigInv, files
  <2>5. LoadInv'
    BY <1>2 DEF LoadInv, ConfigInv
  <2>6. SpawnInv' /\ ExitInv'
    BY <1>2 DEF SpawnInv, ExitInv, Before, servers, signals
  <2> QED  BY <2>3, <2>4, <2>5, <2>6
<1> QED  BY <1>1, <1>2

LEMMA ValidateInv ==
  ASSUME IInv, Validate
  PROVE  IInv'
<1> USE DEF IInv, Validate
<1>1. zoneNames' = zoneNames /\ ZonesOf' = ZonesOf
  BY DEF zoneNames, ZonesOf
<1>2. zoneNames \in Seq(Names \cup {Unnamed}) /\ Len(zoneNames) \in Nat
  BY ZoneList
<1>3. TypeOK'
  BY DEF TypeOK, files, servers, signals
<1>4. ConfigInv'
  BY DEF ConfigInv, files
<1>5. LoadInv'
  <2>1. CASE main' = "load" /\ next' = 1 /\ next > Len(zoneNames) /\ zoneNames # <<>>
    BY <1>1, <1>2, <2>1 DEF LoadInv, TypeOK
  <2>2. CASE main' = main /\ next' = next + 1 /\ zoneNames[next] # Unnamed
    BY <1>1, <1>2, <2>2 DEF LoadInv, TypeOK
  <2>3. CASE main' = main /\ next' = next
    BY <1>1, <2>3 DEF LoadInv
  <2> QED  BY <2>1, <2>2, <2>3
<1>6. SpawnInv' /\ ExitInv'
  BY DEF SpawnInv, ExitInv, Before, servers, signals
<1> QED  BY <1>3, <1>4, <1>5, <1>6

LEMMA LoadZoneInv ==
  ASSUME IInv, LoadZone
  PROVE  IInv'
<1> USE DEF IInv, LoadZone
<1>1. zoneNames' = zoneNames /\ ZonesOf' = ZonesOf
  BY DEF zoneNames, ZonesOf
<1>2. /\ zoneNames \in Seq(Names \cup {Unnamed}) /\ Len(zoneNames) \in Nat
      /\ ZonesOf = {zoneNames[i] : i \in 1 .. Len(zoneNames)}
  BY ZoneList
<1>3. next \in Nat \ {0}
  BY DEF TypeOK
<1>4. TypeOK'
  <2>1. next <= Len(zoneNames) => zoneNames[next] \in Names
    BY <1>2, <1>3 DEF LoadInv
  <2> QED  BY <2>1, <1>2, <1>3 DEF TypeOK, files, servers, signals
<1>5. ConfigInv'
  BY DEF ConfigInv, files
<1>6. LoadInv'
  <2>1. CASE next > Len(zoneNames)
    <3>1. \A i \in 1 .. Len(zoneNames) : i < next
      BY <1>2, <1>3, <2>1
    <3>2. store = {zoneNames[i] : i \in {i \in 1 .. Len(zoneNames) : i < next}}
      BY DEF LoadInv
    <3>3. {i \in 1 .. Len(zoneNames) : i < next} = 1 .. Len(zoneNames)
      BY <3>1
    <3>4. store = ZonesOf
      BY <1>2, <3>2, <3>3
    <3> QED  BY <1>1, <2>1, <3>4 DEF LoadInv
  <2>2. CASE next <= Len(zoneNames) /\ disk[zoneNames[next]] = "good"
    <3>1. store' = {zoneNames[i] : i \in {i \in 1 .. Len(zoneNames) : i < next'}}
      BY <1>2, <1>3, <2>2 DEF LoadInv
    <3> QED  BY <1>1, <1>2, <1>3, <2>2, <3>1 DEF LoadInv
  <2>3. CASE next <= Len(zoneNames) /\ disk[zoneNames[next]] # "good"
    BY <1>1, <1>2, <1>3, <2>3 DEF LoadInv
  <2> QED  BY <1>2, <1>3, <2>1, <2>2, <2>3
<1>7. SpawnInv'
  BY DEF SpawnInv, Before, servers, signals
<1>8. ExitInv'
  <2>1. udp' = "off" /\ tcp' = "off" /\ main = "load" /\ exit = "running"
    BY DEF SpawnInv, servers, Up
  <2> QED  BY <2>1 DEF ExitInv, Before
<1> QED  BY <1>4, <1>5, <1>6, <1>7, <1>8

LEMMA SpawnTasksInv ==
  ASSUME IInv, SpawnApi \/ SpawnSignals
  PROVE  IInv'
<1> USE DEF IInv, SpawnApi, SpawnSignals
<1>1. zoneNames' = zoneNames /\ ZonesOf' = ZonesOf
  BY DEF zoneNames, ZonesOf
<1>2. TypeOK'
  <2>1. CASE SpawnApi
    BY <2>1 DEF TypeOK, files, servers, signals
  <2>2. CASE SpawnSignals
    BY <2>2 DEF TypeOK, files, servers
  <2> QED  BY <2>1, <2>2
<1>3. ConfigInv' /\ LoadInv'
  BY <1>1 DEF ConfigInv, LoadInv, files
<1>4. SpawnInv'
  <2>1. CASE SpawnApi
    BY <2>1 DEF SpawnInv, Before, servers, signals
  <2>2. CASE SpawnSignals
    BY <2>2 DEF SpawnInv, Before, servers, FirstHandlers
  <2> QED  BY <2>1, <2>2
<1>5. ExitInv'
  BY DEF ExitInv, Before, servers
<1> QED  BY <1>2, <1>3, <1>4, <1>5

-----------------------------------------------------------------------------
(* The other tasks and the operator: main and the store stay *)

LEMMA StoreStays ==
  ASSUME IInv, UNCHANGED <<text, main, next, config, store>>
  PROVE  ConfigInv' /\ LoadInv'
<1>1. zoneNames' = zoneNames /\ ZonesOf' = ZonesOf
  BY DEF zoneNames, ZonesOf
<1> QED  BY <1>1 DEF IInv, ConfigInv, LoadInv

LEMMA OperatorInv ==
  ASSUME IInv,
         \/ \E z \in Names, how \in {"good", "bad", "missing"} : Change(z, how)
         \/ \E s \in Signals : Send(s)
  PROVE  IInv'
<1> USE DEF IInv
<1>1. CASE \E z \in Names, how \in {"good", "bad", "missing"} : Change(z, how)
  <2>1. PICK z \in Names, how \in {"good", "bad", "missing"} : Change(z, how)
    BY <1>1
  <2>2. changes' \in 0 .. MaxChanges
    BY <2>1 DEF Change, TypeOK
  <2>3. TypeOK'
    BY <2>1, <2>2 DEF Change, TypeOK, servers, signals
  <2>4. ConfigInv' /\ LoadInv'
    BY <2>1, StoreStays DEF Change
  <2>5. SpawnInv' /\ ExitInv'
    BY <2>1 DEF Change, SpawnInv, ExitInv, Before, servers, signals
  <2> QED  BY <2>3, <2>4, <2>5
<1>2. CASE \E s \in Signals : Send(s)
  <2>1. PICK s \in Signals : Send(s)
    BY <1>2
  <2>2. TypeOK'
    BY <2>1 DEF Send, TypeOK, files, servers
  <2>3. ConfigInv' /\ LoadInv'
    BY <2>1, StoreStays DEF Send, files
  <2>4. SpawnInv'
    BY <2>1 DEF Send, SpawnInv, servers
  <2>5. ExitInv'
    BY <2>1 DEF Send, ExitInv, Up, servers
  <2> QED  BY <2>2, <2>3, <2>4, <2>5
<1> QED  BY <1>1, <1>2

LEMMA ServersInv ==
  ASSUME IInv, ApiBind \/ BindUdp \/ BindTcp \/ Shutdown \/ \E p \in {"udp", "tcp"} : Spawn(p)
  PROVE  IInv'
<1> USE DEF IInv, ApiBind, BindUdp, BindTcp, Shutdown, Spawn, Running, Up
<1>1. TypeOK'
  <2>1. token' \in BOOLEAN
    BY DEF TypeOK, signals
  <2>2. CASE ApiBind
    BY <2>1, <2>2 DEF TypeOK, files, servers, signals
  <2>3. CASE BindUdp \/ BindTcp
    BY <2>1, <2>3 DEF TypeOK, files, signals
  <2>4. CASE Shutdown
    BY <2>1, <2>4 DEF TypeOK, files, servers, signals
  <2>5. ASSUME NEW p \in {"udp", "tcp"}, Spawn(p) PROVE TypeOK'
    <3>1. tasks[p] + 1 \in 0 .. MaxTasks
      BY <2>5 DEF TypeOK
    <3>2. tasks' \in [{"udp", "tcp"} -> 0 .. MaxTasks]
      BY <2>5, <3>1 DEF TypeOK
    <3> QED  BY <2>1, <2>5, <3>2 DEF TypeOK, files, signals
  <2> QED  BY <2>2, <2>3, <2>4, <2>5
<1>2. ConfigInv' /\ LoadInv'
  BY StoreStays DEF files
<1>3. SpawnInv'
  BY DEF SpawnInv, Before, servers, signals
<1>4. ExitInv'
  BY DEF SpawnInv, ExitInv, Before, servers, signals
<1> QED  BY <1>1, <1>2, <1>3, <1>4

LEMMA TransferInv ==
  ASSUME IInv, TransferBegins \/ TransferEnds
  PROVE  IInv'
<1> USE DEF IInv, TransferBegins, TransferEnds
<1>1. lock' \in {"free", "read"} /\ UNCHANGED <<files, main, next, config, store, servers, api, signals, exit>>
  OBVIOUS
<1>2. ConfigInv' /\ LoadInv'
  BY <1>1, StoreStays DEF files
<1>3. TypeOK'
  BY <1>1 DEF TypeOK, files, servers, signals
<1>4. SpawnInv' /\ ExitInv'
  BY <1>1 DEF SpawnInv, ExitInv, Before, servers, signals
<1> QED  BY <1>2, <1>3, <1>4

LEMMA RegisterInv ==
  ASSUME IInv, Register \/ RegisterFails
  PROVE  IInv'
<1> USE DEF IInv
<1>1. sig = "registering" /\ registered \in FirstHandlers
  BY DEF SpawnInv, Register, RegisterFails
<1>3. CASE Register
  <2>1. \/ registered' \in FirstHandlers /\ sig' = "registering"
        \/ registered' = Signals /\ sig' = "loop"
    <3>1. /\ SignalOrder[1] = "HUP" /\ SignalOrder[2] = "USR1" /\ SignalOrder[3] = "INT"
          /\ SignalOrder[4] = "QUIT" /\ SignalOrder[5] = "TERM" /\ Len(SignalOrder) = 5
      BY DEF SignalOrder
    <3>2. /\ registered' = registered \cup {SignalOrder[Cardinality(registered) + 1]}
          /\ sig' = IF Cardinality(registered) + 1 = Len(SignalOrder) THEN "loop" ELSE sig
      BY <1>3 DEF Register
    <3>3. CASE registered = {}
      <4>1. registered' = H1 /\ sig' = "registering"
        BY <1>1, PrefixSizes, <3>1, <3>2, <3>3 DEF H1
      <4> QED  BY <4>1 DEF FirstHandlers
    <3>4. CASE registered = H1
      <4>1. registered' = H1 \cup {"USR1"} /\ sig' = "registering"
        BY <1>1, PrefixSizes, <3>1, <3>2, <3>4
      <4>2. H1 \cup {"USR1"} = H2
        BY DEF H1, H2
      <4> QED  BY <4>1, <4>2 DEF FirstHandlers
    <3>5. CASE registered = H2
      <4>1. registered' = H2 \cup {"INT"} /\ sig' = "registering"
        BY <1>1, PrefixSizes, <3>1, <3>2, <3>5
      <4>2. H2 \cup {"INT"} = H3
        BY DEF H2, H3
      <4> QED  BY <4>1, <4>2 DEF FirstHandlers
    <3>6. CASE registered = H3
      <4>1. registered' = H3 \cup {"QUIT"} /\ sig' = "registering"
        BY <1>1, PrefixSizes, <3>1, <3>2, <3>6
      <4>2. H3 \cup {"QUIT"} = H4
        BY DEF H3, H4
      <4> QED  BY <4>1, <4>2 DEF FirstHandlers
    <3>7. CASE registered = H4
      <4>1. registered' = H4 \cup {"TERM"} /\ sig' = "loop"
        BY <1>1, PrefixSizes, <3>1, <3>2, <3>7
      <4>2. H4 \cup {"TERM"} = Signals
        BY SignalSet DEF H4
      <4> QED  BY <4>1, <4>2
    <3> QED  BY <1>1, <3>3, <3>4, <3>5, <3>6, <3>7 DEF FirstHandlers
  <2>2. TypeOK'
    <3>1. registered' \subseteq Signals
      BY <2>1, SignalSet DEF FirstHandlers, H1, H2, H3, H4
    <3>2. pending' \subseteq registered'
      BY <1>3 DEF Register, TypeOK
    <3>3. sig' \in {"registering", "loop"}
      BY <2>1
    <3> QED  BY <1>3, <3>1, <3>2, <3>3 DEF TypeOK, Register, files, servers
  <2>3. ConfigInv' /\ LoadInv'
    BY <1>3, StoreStays DEF Register, files
  <2>4. SpawnInv' /\ ExitInv'
    BY <1>3, <2>1 DEF Register, SpawnInv, ExitInv, Before, servers
  <2> QED  BY <2>2, <2>3, <2>4
<1>4. CASE RegisterFails
  <2>1. TypeOK'
    BY <1>4 DEF TypeOK, RegisterFails, files, servers
  <2>2. ConfigInv' /\ LoadInv'
    BY <1>4, StoreStays DEF RegisterFails, files
  <2>3. SpawnInv' /\ ExitInv'
    BY <1>4 DEF RegisterFails, SpawnInv, ExitInv, Before, servers
  <2> QED  BY <2>1, <2>2, <2>3
<1> QED  BY <1>3, <1>4

\* A reload that is installed changes nothing here: it holds the same zones.
LEMMA ReceiveInv ==
  ASSUME IInv, Receive \/ Install
  PROVE  IInv'
<1> USE DEF IInv
<1>1. PICK s \in Ending : ReceiveHup \/ ReceiveUsr1 \/ ReceiveEnding(s) \/ Install
  BY DEF Receive, Ending
<1>2. main = "run"
  BY <1>1 DEF SpawnInv, ReceiveHup, ReceiveUsr1, ReceiveEnding, Install
<1>3. store = ZonesOf
  BY <1>2 DEF LoadInv
<1>4. UNCHANGED <<text, main, next, config, store>>
  BY <1>1, <1>3 DEF ReceiveHup, ReceiveUsr1, ReceiveEnding, Install, files
<1>5. /\ pending' \subseteq registered' /\ registered' = registered
      /\ sig' \in {"loop", "install", "done"}
      /\ UNCHANGED <<files, lock, servers, api, exit>>
  BY <1>1 DEF TypeOK, ReceiveHup, ReceiveUsr1, ReceiveEnding, Install
<1>6. TypeOK'
  <2>1. token' \in BOOLEAN
    BY <1>1 DEF TypeOK, ReceiveHup, ReceiveUsr1, ReceiveEnding, Install
  <2> QED  BY <1>4, <1>5, <2>1 DEF TypeOK, files, servers
<1>7. ConfigInv' /\ LoadInv'
  BY <1>4, StoreStays
<1>8. SpawnInv' /\ ExitInv'
  BY <1>2, <1>4, <1>5 DEF SpawnInv, ExitInv, Before, servers
<1> QED  BY <1>6, <1>7, <1>8

-----------------------------------------------------------------------------
LEMMA InvStep == IInv /\ [Next]_vars => IInv'
<1> SUFFICES ASSUME IInv, [Next]_vars PROVE IInv'
  OBVIOUS
<1>1. CASE Main
  BY <1>1, ReadConfigInv, ValidateInv, LoadZoneInv, SpawnTasksInv DEF Main
<1>2. CASE Register \/ RegisterFails \/ Receive \/ Install \/ TransferBegins \/ TransferEnds
  BY <1>2, RegisterInv, ReceiveInv, TransferInv
<1>3. CASE ApiBind \/ BindUdp \/ BindTcp \/ Shutdown \/ \E p \in {"udp", "tcp"} : Spawn(p)
  BY <1>3, ServersInv
<1>4. CASE \/ \E z \in Names, how \in {"good", "bad", "missing"} : Change(z, how)
           \/ \E s \in Signals : Send(s)
  BY <1>4, OperatorInv
<1>5. CASE UNCHANGED vars
  <2>1. ConfigInv' /\ LoadInv'
    BY <1>5, StoreStays DEF vars, files
  <2> QED
    BY <1>5, <2>1 DEF vars, files, servers, signals, IInv, TypeOK, SpawnInv, ExitInv
<1> QED  BY <1>1, <1>2, <1>3, <1>4, <1>5 DEF Next

LEMMA Invariance == Spec => []IInv
  BY InitInv, InvStep, PTL DEF Spec

\* main, the API task and the signal task keep the ranges of their state, and
\* only a signal with a handler is pending.
THEOREM TypeCorrect == Spec => []TypeOK
<1>1. IInv => TypeOK
  BY DEF IInv
<1> QED  BY <1>1, Invariance, PTL

\* Whatever the configuration and however the files change between validation,
\* loading and reloads: a bound socket, a handler or a healthy API means that
\* every configured zone is in the store.
THEOREM WholeConfiguration == Spec => []ServesWhole
<1>1. IInv => ServesWhole
  <2> SUFFICES ASSUME IInv,
                      udp = "bound" \/ tcp = "bound" \/ Healthy \/ tasks["udp"] + tasks["tcp"] > 0
               PROVE  store = ZonesOf /\ store # {} /\ Unnamed \notin store
    BY DEF ServesWhole
  <2>1. main \notin {"config", "validate", "load"}
    BY DEF IInv, SpawnInv, Before, Healthy
  <2>2. store = ZonesOf /\ zoneNames # <<>> /\ Unnamed \notin store
    BY <2>1, StartupAssumption DEF IInv, LoadInv, TypeOK
  <2>3. ZonesOf = {zoneNames[i] : i \in 1 .. Len(zoneNames)} /\ Len(zoneNames) \in Nat \ {0}
    BY <2>1, <2>2, ZoneList
  <2> QED  BY <2>2, <2>3
<1> QED  BY <1>1, Invariance, PTL

\* The process never goes on with one of its two DNS servers, and the API
\* failing ends nothing.
THEOREM NoHalfServer == Spec => []HalfServerEnds
<1>1. IInv => HalfServerEnds
  BY DEF IInv, SpawnInv, ExitInv, Before, HalfServerEnds
<1> QED  BY <1>1, Invariance, PTL

\* The limits of a TCP connection are those of the file or the documented ones,
\* for every combination of sections and fields.
THEOREM Limits == Spec => []LimitsHonoured
<1>1. IInv => LimitsHonoured
  <2> SUFFICES ASSUME IInv, main = "run", NEW t \in text, NEW c \in config
               PROVE  /\ IdleTimeout(c) = IF t.tcp /\ t.idle.given THEN t.idle.value ELSE 30
                      /\ MaxQueries(c) = IF t.tcp /\ t.max.given THEN t.max.value ELSE 100
    BY DEF LimitsHonoured
  <2>1. c = FromText(t) /\ t \in TextType
    BY DEF IInv, ConfigInv, TypeOK
  <2> QED
    BY <2>1 DEF FromText, TextType, Options, OrElse, IdleTimeout, MaxQueries,
           DefaultTcpIdleTimeout, DefaultTcpMaxQueries
<1> QED  BY <1>1, Invariance, PTL
=============================================================================
