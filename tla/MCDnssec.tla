------------------------------ MODULE MCDnssec ------------------------------
(***************************************************************************)
(* Small instances of Dnssec for TLC: keys of which some share a tag and   *)
(* some make the sum carry, a clock of eight ticks, and every zone with up *)
(* to four names.                                                          *)
(***************************************************************************)
EXTENDS Dnssec

a == 97
b == 98
c == 99
e == 101

-----------------------------------------------------------------------------
KeyRecord(owner, number, bits, how, bytes) ==
  [name |-> owner, type |-> number, flags |-> bits, algorithm |-> how, public_key |-> bytes]

\* The first two keys have the same tag; the third makes the sum carry.
McKeys ==
  {KeyRecord(n, DNSKEY, 257, how, k) :
     n \in {<<a, e>>, <<65, e>>}, how \in {8, 13},
     k \in {<<1, 2, 3, 4>>, <<3, 4, 1, 2>>, <<255, 255, 1>>}}

\* 1 is SHA-1, which verify_ds does not know.
McDigests == {<<h, DigestInput(k)>> : h \in {1, SHA256, SHA512}, k \in McKeys}

DsRecord(number, how, key, kind, bytes) ==
  [type |-> number, algorithm |-> how, tag |-> key, digest_type |-> kind, digest |-> bytes]

McDs ==
  {DsRecord(DS, how, tag, h, d) :
     how \in {8, 13}, tag \in {TagOfWords(Rdata(k)) : k \in McKeys},
     h \in {1, SHA256, SHA512}, d \in McDigests}

McDsCalls ==
  {[ds |-> d, dnskey |-> k] : d \in McDs, k \in McKeys}
    \cup {[ds |-> [d EXCEPT !.type = A], dnskey |-> k] : d \in McDs, k \in McKeys}

-----------------------------------------------------------------------------
McTimeCalls == [from : 0 .. 15, to : 0 .. 15, now : 0 .. 23]

-----------------------------------------------------------------------------
Apex == <<e>>
McNames == {<<a, e>>, <<b, a, e>>, <<b, e>>}
McAsked == McNames \cup {Apex, <<c, a, e>>, <<c, e>>, <<102>>, <<100>>}
McData == UNION {[{Apex} \cup more -> {{A}, {A, NS}}] : more \in SUBSET McNames}

NsecRecord(owner, number, after, bitmap) ==
  [name |-> owner, type |-> number, next |-> after, types |-> bitmap]

Chain(zone) ==
  {n \in {NsecRecord(owner, NSEC, after, zone[owner]) :
            owner \in DOMAIN zone, after \in DOMAIN zone} : IsNsec(n, zone)}

\* A response may hold any of the chain's records, after one of another type.
McDenialCalls ==
  UNION {[qname : McAsked, qtype : {A, NS}, data : {d},
          nsecs : {<<NsecRecord(Apex, SOA, Apex, {})>> \o s : s \in SetToAllKPermutations(Chain(d))}] :
           d \in McData}

-----------------------------------------------------------------------------
McRecord(owner, number, over) ==
  [name |-> owner, type |-> number, target |-> <<>>, covers |-> over, val |-> 0]

McRecords ==
  {McRecord(<<a, e>>, SIG, A), McRecord(<<a, e>>, SIG, NS), McRecord(<<b, e>>, SIG, A),
   McRecord(Apex, DNSKEY, 0), McRecord(<<a, e>>, A, 0)}

McRelatedCalls ==
  [qname : {<<a, e>>, <<b, e>>}, qtype : {A, NS}, set : SetToAllKPermutations(McRecords)]
=============================================================================
