----------------------------- MODULE MCZoneFile -----------------------------
(***************************************************************************)
(* Small instance of ZoneFile for TLC: files of the zone "example" that    *)
(* begin with no SOA, an SOA on one line or an SOA over several lines, and *)
(* go on with up to two lines of every kind the parser tells apart.        *)
(***************************************************************************)
EXTENDS ZoneFile

Tab == "\t"

ZoneLabels == <<"example">>
McLabels ==
  [w \in {"www", "sub", "ns", "host", "*", "1", "60", "300", "IN"} |-> <<w>>]
  @@ "sub.example." :> <<"sub", "example">> @@ "mail.other." :> <<"mail", "other">>
  @@ "ca.org" :> <<"ca", "org">>

McBits ==
  "0" :> 0 @@ "1" :> 1 @@ "2" :> 2 @@ "3" :> 2 @@ "8" :> 4 @@ "9" :> 4 @@ "60" :> 6 @@ "128" :> 8
  @@ "257" :> 9 @@ "300" :> 9 @@ "385" :> 9 @@ "65536" :> 17 @@ "2147483648" :> 32
  @@ "4294967296" :> 33
McValue == "0" :> 0 @@ "1" :> 1 @@ "128" :> 128 @@ "257" :> 257 @@ "385" :> 385

McHalfQuoted == {"\"a", "b\""}
McUnquoted == "\"a" :> "a" @@ "b\"" :> "b" @@ "\"x\"" :> "x" @@ "\"ca.org\"" :> "ca.org"

McDollar == {"$ORIGIN", "$ORIGINAL", "$TTL", "$INCLUDE", "$www"}

SoaWords == <<"ns", "host", "1", "60", "60", "60", "300">>
Soa == <<"@", "IN", "SOA">> \o SoaWords
Heads ==
  {<<>>, <<Soa>>,
   <<<<"@", "60", "IN", "SOA", "ns", "host", "(">>, <<Tab, "1", ";", "serial">>,
     <<"60", "60", "60", "300", ")">> >>}

\* Records of every type, well formed.
Good ==
  {<<"www", "60", "IN", "A", "192.0.2.1">>, <<"*", "IN", "AAAA", "2001:db8::1">>,
   <<"sub", "IN", "NS", "mail.other.">>, <<"www", "IN", "CNAME", "sub">>,
   <<"@", "IN", "MX", "9", "mail.other.">>, <<"1", "IN", "PTR", "www">>,
   <<"www", "IN", "SRV", "0", "1", "60", "ns">>,
   <<"@", "IN", "CAA", "128", "issue", "\"ca.org\"">>,
   <<"@", "IN", "DNSKEY", "257", "3", "8", "QUJD", "QUJD">>,
   <<"www", "60", "RRSIG", "A", "8", "2", "60", "300", "60", "257", "ns", "QUJD">>,
   <<"www", "IN", "NSEC", "sub", "A", "TYPE?", "RRSIG">>,
   <<"sub", "IN", "DS", "257", "8", "2", "ABCD">>,
   <<"www", "IN", "NAPTR", "1", "1", "\"x\"", "\"x\"", "\"x\"", "ns">>,
   <<"www", "IN", "TLSA", "0", "1", "1", "ABCD">>, <<"ns", "IN", "SSHFP", "1", "1", "ABCD">>}

\* Comments, quotes, parentheses and directives.
Layout ==
  {<<>>, <<";", "(">>, <<"www", "IN", "TXT", "\"a", ";", "b\"">>,
   <<"www", "IN", "TXT", "\"x\"", ";", "note">>,
   <<"www", "IN", "TXT", "\"a", ";", "b\"", ";", "note">>,
   <<"www", "IN", "TXT", "\"a", "(", "b\"">>,
   <<"www", "IN", "A", "(">>, <<Tab, "192.0.2.1", ")">>, <<")">>, <<Tab, "192.0.2.1">>,
   <<"www", "IN", "A", "(", "192.0.2.1", ")">>,
   <<"$ORIGIN", "sub.example.">>, <<"$ORIGIN">>, <<"$ORIGIN", "..">>,
   <<"$TTL", "300">>, <<"$TTL", "4294967296">>, <<"$INCLUDE", "more">>,
   <<"$ORIGINAL", "sub.example.">>, <<"$www", "IN", "A", "192.0.2.1">>}

\* Lines that are overlooked, misread, undecodable, unsupported or malformed.
Odd ==
  {<<"www", "A", "192.0.2.1">>, <<"www", "60", "IN">>, <<"www", "IN", "60", "A", "192.0.2.1">>,
   <<Tab, "IN", "A", "192.0.2.1">>, <<Tab, "60", "IN", "A", "192.0.2.1">>,
   <<"www", "4294967296", "IN", "A", "192.0.2.1">>, <<"www", "IN", "HINFO", "x", "y">>,
   <<"www", "60", "IN", "MX", "9">>, <<"www", "IN", "A", "300">>, <<"..", "IN", "A", "192.0.2.1">>,
   <<"@", "IN", "MX", "65536", "ns">>, <<"@", "IN", "CAA", "0", "iodef", "x">>,
   <<"@", "IN", "CAA", "257", "issue", "x">>,
   <<"@", "IN", "DNSKEY", "257", "3", "8", "!">>, <<"@", "IN", "DNSKEY", "385", "3", "8", "QUJD">>,
   <<"sub", "IN", "DS", "257", "8", "9", "ABCD">>, <<"sub", "IN", "DS", "257", "8", "9", "!">>,
   <<"@", "IN", "SOA", "ns", "host", "1", "2147483648", "60", "60", "300">>, Soa}

McFiles ==
  LET lines == Good \cup Layout \cup Odd
      Alone == {<<>>} \cup {<<l>> : l \in lines} \cup {<<l, m>> : l, m \in lines}
  IN  {h \o t : h \in Heads, t \in Alone}

\* The joining of lines, two at a time, before and after a record.
Wraps ==
  {<<Soa>> \o t : t \in [1 .. 3 -> Layout \cup {<<"www", "60", "IN", "A", "192.0.2.1">>}]}

AllFiles == McFiles \cup Wraps
=============================================================================
