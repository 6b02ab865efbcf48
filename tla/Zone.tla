-------------------------------- MODULE Zone --------------------------------
(***************************************************************************)
(* Zone and ZoneStore of zone.rs as operators: what the lookups return.    *)
(*                                                                         *)
(* A name is the sequence of its labels, leftmost first; a label is a      *)
(* number, already folded to lower case, and Star is the label "*".  A     *)
(* record type is its number in the protocol.  A record has, besides name  *)
(* and type, the data the code looks at: the target of a CNAME (<<>> for   *)
(* other types), the type a SIG covers (0 for other types), and `val',     *)
(* which stands for the rest.                                              *)
(*                                                                         *)
(* The two nested maps of Zone::records are one function on pairs of name  *)
(* and type.  An Option is a set of at most one element; for a vector of   *)
(* records, never empty in the maps, None is <<>>.                         *)
(***************************************************************************)
EXTENDS Integers, SequencesExt

Star == 0

A == 1
NS == 2
CNAME == 5
SOA == 6
SIG == 24
AXFR == 252

Records(names, types, vals) ==
  [name : names, type : types, target : names \cup {<<>>}, covers : types \cup {0}, val : vals]

\* hickory's Name::zone_of: the origin is the name or an ancestor of it.
ZoneOf(origin, name) == IsSuffix(origin, name)

\* hickory's order on names: label by label from the right, shorter first.
NameLess(m, n) ==
  LET Label(s, i) == s[Len(s) + 1 - i]
  IN  \E i \in 1 .. Len(n) :
        /\ \A j \in 1 .. i - 1 : j <= Len(m) /\ Label(m, j) = Label(n, j)
        /\ i > Len(m) \/ Label(m, i) < Label(n, i)

KeyLess(j, k) == NameLess(j[1], k[1]) \/ (j[1] = k[1] /\ j[2] < k[2])
-----------------------------------------------------------------------------
NewZone(origin, soa) ==
  [origin |-> origin, soa |-> soa, records |-> [k \in {} |-> <<>>]]

Lookup(zone, name, rtype) ==
  IF <<name, rtype>> \in DOMAIN zone.records THEN zone.records[<<name, rtype>>] ELSE <<>>

ContainsName(zone, name) == \E k \in DOMAIN zone.records : k[1] = name

AddRecord(zone, record) ==
  LET key == <<record.name, record.type>>
  IN  [zone EXCEPT !.records =
         [k \in DOMAIN zone.records \cup {key} |->
            IF k = key THEN Append(Lookup(zone, record.name, record.type), record)
            ELSE zone.records[k]]]

\* The name tried when `skip' labels are replaced by "*".
Wildcard(name, skip) == <<Star>> \o SubSeq(name, skip + 1, Len(name))

\* Slip: the loop runs on to the widest wildcard.
LookupWildcardWidest(zone, name, rtype) ==
  LET hits == {skip \in 1 .. Len(name) - 1 : Lookup(zone, Wildcard(name, skip), rtype) # <<>>}
  IN  IF hits = {} THEN <<>>
      ELSE Lookup(zone, Wildcard(name, CHOOSE i \in hits : \A j \in hits : j <= i), rtype)

\* The first hit of the loop over skip.  The wildcard is chosen for the type
\* asked for: a closer wildcard without that type is passed over.
LookupWildcard(zone, name, rtype) ==
  LET hits == {skip \in 1 .. Len(name) - 1 : Lookup(zone, Wildcard(name, skip), rtype) # <<>>}
  IN  IF hits = {} THEN <<>>
      ELSE Lookup(zone, Wildcard(name, CHOOSE i \in hits : \A j \in hits : i <= j), rtype)

GetSoaRecord(zone) ==
  [name |-> zone.origin, type |-> SOA, target |-> <<>>, covers |-> 0, val |-> zone.soa]

\* The keys as sorted_names and sorted_types go through them: each comes after
\* as many keys as are less than it.
SortedKeys(K) ==
  [i \in 1 .. Cardinality(K) |->
     CHOOSE k \in K : Cardinality({j \in K : KeyLess(j, k)}) = i - 1]

\* Slip: the SOA among the records is sent a third time.
GetAllRecordsThreeSoa(zone) ==
  LET keys == SortedKeys(DOMAIN zone.records)
  IN  <<GetSoaRecord(zone)>>
        \o FlattenSeq([i \in DOMAIN keys |-> zone.records[keys[i]]])
        \o <<GetSoaRecord(zone)>>

\* The messages of a zone transfer, in order.
GetAllRecords(zone) ==
  LET keys == SortedKeys({k \in DOMAIN zone.records : k[2] # SOA})
  IN  <<GetSoaRecord(zone)>>
        \o FlattenSeq([i \in DOMAIN keys |-> zone.records[keys[i]]])
        \o <<GetSoaRecord(zone)>>
-----------------------------------------------------------------------------
AddZone(store, zone) ==
  [o \in DOMAIN store \cup {zone.origin} |-> IF o = zone.origin THEN zone ELSE store[o]]

\* An exact match, or the longest origin that is an ancestor and has more
\* labels than best_match_labels = 0.  Ancestors of one name with equally many
\* labels are equal, so the order of the iteration does not matter.
FindZone(store, name) ==
  LET matches == {o \in DOMAIN store : ZoneOf(o, name) /\ Len(o) > 0}
  IN  IF name \in DOMAIN store THEN {store[name]}
      ELSE {store[o] : o \in {o \in matches : \A p \in matches : Len(p) <= Len(o)}}
=============================================================================
