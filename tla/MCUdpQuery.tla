----------------------------- MODULE MCUdpQuery -----------------------------
(***************************************************************************)
(* Small instance of UdpQuery for TLC: two versions of the zone "example", *)
(* whose answers take every branch of the truncation.                      *)
(***************************************************************************)
EXTENDS UdpQuery, FiniteSets

Apex == <<1>>
Www == <<2, 1>>

Rr(owner, rtype, data) ==
  [name |-> owner, type |-> rtype, target |-> <<>>, covers |-> 0, val |-> data]

Loaded(lines) ==
  AddZone([o \in {} |-> {}], FoldLeft(AddRecord, NewZone(Apex, 1), lines))

TwoStores ==
  {Loaded(<<Rr(Apex, SOA, 1), Rr(Apex, NS, 1), Rr(Www, A, 1)>>),
   Loaded(<<Rr(Apex, SOA, 1), Rr(Apex, NS, 1), Rr(Www, A, 1), Rr(Www, A, 2), Rr(Www, A, 3)>>)}

\* One record fits a client that takes 4096 bytes, three do not.
Bytes(section) == 1400 * Cardinality(section)

Q(owner, rtype, size) ==
  [name |-> owner, type |-> rtype, standard |-> TRUE, question |-> TRUE,
   payload |-> size, do |-> FALSE]

UdpAsked ==
  {Q(Www, A, 0), Q(Www, A, 1232), Q(Www, A, 4096), Q(Www, NS, 4096), Q(<<3, 1>>, A, 4096),
   Q(<<3>>, A, 0), Q(Apex, AXFR, 0), [Q(Www, A, 0) EXCEPT !.standard = FALSE]}

-----------------------------------------------------------------------------
\* A signed zone with two aliases in a row, and clients that take 512 bytes.
Ftp == <<3, 1>>
Mail == <<4, 1>>
Alias(owner, to) ==
  [name |-> owner, type |-> CNAME, target |-> to, covers |-> 0, val |-> 0]
Rrsig(owner, rtype) ==
  [name |-> owner, type |-> SIG, target |-> <<>>, covers |-> rtype, val |-> 0]

ChainStore ==
  {Loaded(<<Rr(Apex, SOA, 1), Alias(Ftp, Mail), Rrsig(Ftp, CNAME), Alias(Mail, Www),
            Rrsig(Mail, CNAME), Rr(Www, A, 1), Rrsig(Www, A)>>)}
ChainAsked == {[Q(n, A, 512) EXCEPT !.do = TRUE] : n \in {Www, Mail, Ftp}}

\* An alias between names of the greatest length, compressed: with their
\* question, 542 bytes.
LongNames(section) == 260 * Cardinality(section)

=============================================================================
