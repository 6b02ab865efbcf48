------------------------------ MODULE Authority ------------------------------
(***************************************************************************)
(* From zone files to answers: load_zones (main.rs) parses the configured  *)
(* files, parse_zone_file (zone.rs) adds their records to a Zone, and the  *)
(* loaded store answers queries (protocol.rs) and transfers (server.rs).   *)
(*                                                                         *)
(* A zone file is the sequence of its resource records; lines that hold    *)
(* none change nothing here.  `file' is the history the properties compare *)
(* the answers with: they are stated on the lines of the files and not on  *)
(* the maps the code looks in.                                             *)
(***************************************************************************)
EXTENDS Protocol

CONSTANTS
  ConfigZones,  \* config.zones: the origins, in order
  Lines,        \* [origin -> the records its file may hold]
  MaxLines,     \* [origin -> bound on the records of its file]
  Asked,        \* the queries clients send
  None

Origins == ToSet(ConfigZones)

ASSUME AuthorityAssumption ==
  /\ ConfigZones \in Seq(Seq(Nat)) /\ ConfigZones # <<>>
  /\ \A i, j \in DOMAIN ConfigZones : ConfigZones[i] = ConfigZones[j] => i = j
  /\ \A o \in Origins : MaxLines[o] \in Nat
  /\ \A o \in Origins : \A r \in Lines[o] : r.name \in Seq(Nat) /\ r.type \in Nat
  /\ Asked \subseteq Queries(Seq(Nat), Nat, Nat) /\ None \notin Asked

VARIABLES
  next,      \* load_zones: index of the zone being parsed
  file,      \* history: [Origins -> records read so far]
  zone,      \* parse_zone_file: the Option<Zone> under construction
  store,     \* the ZoneStore
  phase,     \* "loading", "serving" or "failed"
  query,     \* the last query, or None
  response,  \* the last response, or None
  stream     \* the records of the last transfer, in order

vars == <<next, file, zone, store, phase, query, response, stream>>

Init ==
  /\ next = 1
  /\ file = [o \in Origins |-> <<>>]
  /\ zone = {}
  /\ store = [o \in {} |-> {}]
  /\ phase = "loading"
  /\ query = None /\ response = None /\ stream = <<>>

origin == ConfigZones[next]

\* One turn of the loop: the first SOA creates the zone, and a record read
\* before it is dropped.
ParseLine(record) ==
  /\ phase = "loading"
  /\ Len(file[origin]) < MaxLines[origin]
  /\ file' = [file EXCEPT ![origin] = Append(@, record)]
  /\ LET z == IF record.type = SOA /\ zone = {} THEN {NewZone(origin, record.val)} ELSE zone
     IN  zone' = {AddRecord(y, record) : y \in z}
  /\ UNCHANGED <<next, store, phase, query, response, stream>>

\* The end of a file with an SOA: add_zone, and on to the next zone.
EndFile ==
  /\ phase = "loading" /\ zone # {}
  /\ store' = AddZone(store, CHOOSE z \in zone : TRUE)
  /\ zone' = {}
  /\ IF next = Len(ConfigZones)
     THEN phase' = "serving" /\ UNCHANGED next
     ELSE next' = next + 1 /\ UNCHANGED phase
  /\ UNCHANGED <<file, query, response, stream>>

\* "Zone file must contain an SOA record": load_zones returns the error.
EndFileNoSoa ==
  /\ phase = "loading" /\ zone = {}
  /\ phase' = "failed"
  /\ UNCHANGED <<next, file, zone, store, query, response, stream>>

Ask(q) ==
  /\ phase = "serving"
  /\ query' = q
  /\ response' = ProcessQuery(q, store)
  /\ stream' = <<>>
  /\ UNCHANGED <<next, file, zone, store, phase>>

\* The AXFR branch of handle_tcp_connection; it does not look at the opcode.
Transfer(q) ==
  /\ phase = "serving" /\ q.question /\ q.type = AXFR
  /\ query' = q
  /\ LET found == FindZone(store, q.name)
     IN  IF found # {}
         THEN /\ stream' = GetAllRecords(CHOOSE z \in found : TRUE)
              /\ response' = Bare("NOERROR", TRUE, TRUE)
         ELSE /\ stream' = <<>>
              /\ response' = Bare("REFUSED", FALSE, TRUE)
  /\ UNCHANGED <<next, file, zone, store, phase>>

Next ==
  \/ \E record \in Lines[origin] : ParseLine(record)
  \/ EndFile \/ EndFileNoSoa
  \/ \E q \in Asked : Ask(q) \/ Transfer(q)

Spec == Init /\ [][Next]_vars
-----------------------------------------------------------------------------
(* Reference: what the files say *)

\* The records of o's file that belong to the zone: those from the first SOA on.
Kept(o) ==
  {file[o][i] : i \in {i \in DOMAIN file[o] : \E j \in 1 .. i : file[o][j].type = SOA}}

At(o, name, rtype) == {r \in Kept(o) : r.name = name /\ r.type = rtype}
Owns(o, name) == \E r \in Kept(o) : r.name = name

\* The configured zone a name is in: the one with the longest origin.  A root
\* zone is the zone of the root name only.
Claims(o, name) == IsSuffix(o, name) /\ (o = <<>> => name = <<>>)
Enclosing(name) ==
  {o \in DOMAIN store : /\ Claims(o, name)
                        /\ \A p \in DOMAIN store : Claims(p, name) => Len(p) <= Len(o)}

\* The wildcards that cover a name, however far up.
Covers(name) == {<<Star>> \o SubSeq(name, i, Len(name)) : i \in 2 .. Len(name)}

\* The wildcard owner that answers for a name that does not exist: the longest.
Best(o, name, rtype) ==
  {w \in Covers(name) : /\ At(o, w, rtype) # {}
                        /\ \A v \in Covers(name) : At(o, v, rtype) # {} => Len(v) <= Len(w)}

\* The owners that speak for a name: itself or its best wildcard.
Speakers(o, name, rtype) == IF Owns(o, name) THEN {name} ELSE Best(o, name, rtype)

Said(o, name, rtype) == UNION {At(o, n, rtype) : n \in Speakers(o, name, rtype)}

\* No data and no alias for the name, its wildcards included.
Silent(o, name, rtype) == Said(o, name, rtype) = {} /\ Said(o, name, CNAME) = {}

Covered(o, name) == \E w \in Covers(name) : Owns(o, w)

\* There is no such name: nothing at it, below it or at a wildcard that covers it.
Absent(o, name) ==
  ~Covered(o, name) /\ \A r \in Kept(o) : ~IsSuffix(name, r.name)

\* A standard query was answered from a zone.
Answered == query # None /\ query.standard /\ query.question /\ query.type # AXFR

-----------------------------------------------------------------------------
(* Properties *)

\* The answer section is what the files say: all the data of the name or else
\* of its best wildcard, with the signatures at the name itself if the client
\* asked for them; or else its alias and what the alias's target holds in the
\* same zone.  This is how far the code goes and not how far its README says:
\* longer chains and the signatures of anything else are left out, as the run of
\* UdpQuery!SomePromiseKept shows.
AnswersComplete ==
  Answered => \A o \in Enclosing(query.name) :
    LET said == Said(o, query.name, query.type)
        aliases == Said(o, query.name, CNAME)
    IN  response.answers =
          IF said # {}
          THEN said \cup {r \in At(o, query.name, SIG) : query.do /\ r.covers = query.type}
          ELSE aliases \cup UNION {At(o, r.target, query.type) : r \in aliases}

\* No answers are sent only if neither the name nor a wildcard has data or an
\* alias for them, and then with the SOA of the zone.  A name is denied only if
\* the zone has no record of it, always if there is none at or below it and no
\* wildcard of any type covers it; a name in no zone is refused.  Between the
\* two the code denies names it should not: empty non-terminals, and names
\* covered by a wildcard that has neither the type asked for nor an alias.
DenialsSound ==
  Answered =>
    /\ response.rcode = "REFUSED" <=> Enclosing(query.name) = {}
    /\ \A o \in Enclosing(query.name) :
         /\ response.answers = {} <=> Silent(o, query.name, query.type)
         /\ response.answers = {} => response.authority = {GetSoaRecord(store[o])}
         /\ response.rcode = "NXDOMAIN" => Silent(o, query.name, query.type) /\ ~Owns(o, query.name)
         /\ Absent(o, query.name) => response.rcode = "NXDOMAIN"

\* A secondary can rebuild the zone from a transfer: it has the records of the
\* file, each as often as the file has it, in canonical order between two SOAs.
TransferFaithful ==
  stream # <<>> => \A o \in Enclosing(query.name) :
    LET body == SubSeq(stream, 2, Len(stream) - 1)
        key(r) == <<r.name, r.type>>
    IN  /\ stream[1].type = SOA /\ stream[Len(stream)] = stream[1]
        /\ ToSet(body) = {r \in Kept(o) : r.type # SOA}
        /\ Len(body) = Cardinality({i \in DOMAIN file[o] :
                         /\ file[o][i].type # SOA
                         /\ \E j \in 1 .. i : file[o][j].type = SOA})
        /\ \A i \in 1 .. Len(body) - 1 : ~KeyLess(key(body[i + 1]), key(body[i]))
=============================================================================
