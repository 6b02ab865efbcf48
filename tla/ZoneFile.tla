------------------------------ MODULE ZoneFile ------------------------------
(***************************************************************************)
(* parse_zone_file (zone.rs): the text of a zone file becomes a Zone or an *)
(* error.  First preprocess_zone_content strips comments and joins lines   *)
(* in parentheses, then each resulting line is a directive or a record.    *)
(*                                                                         *)
(* A line is the sequence of its words; a line that begins with white      *)
(* space has the word Blank first.  Parentheses and semicolons are words   *)
(* of their own.  What a word means to the parsers of the standard library *)
(* and of hickory is given by the constants.                               *)
(***************************************************************************)
EXTENDS Integers, FiniteSets, SequencesExt

CONSTANTS
  Files,       \* the contents a zone file may have: sequences of lines
  Origin,      \* the labels of the zone's name
  Bits,        \* [numbers -> bits of their value]
  Value,       \* [numbers of at most 16 bits -> their value]
  Labels,      \* [names -> their labels, leftmost first]
  Absolute,    \* the names that end in a dot
  Ipv4, Ipv6,  \* the addresses
  Base64, Hex, \* the words that decode
  KnownTypes,  \* what RecordType::from_str accepts
  KnownDigests,\* what DigestType::from_u8 accepts
  HalfQuoted,  \* the words with an odd number of quote marks
  Unquoted,    \* [words that begin or end a quoted string -> without the marks]
  Dollar,      \* the words that begin with "$"
  OriginLike,  \* those of them that begin with "$ORIGIN" ...
  TtlLike,     \* ... and with "$TTL"
  Blank

Open == "("
Close == ")"
Semicolon == ";"

DefaultTtl == "3600"

ASSUME ZoneFileAssumption ==
  /\ Files \subseteq Seq(Seq(STRING))
  /\ Origin \in Seq(STRING)
  /\ Blank \in STRING \ DOMAIN Labels
  /\ \A f \in Files : \A i \in DOMAIN f : \A j \in DOMAIN f[i] : f[i][j] = Blank => j = 1
  /\ HalfQuoted \cap {Open, Close, Semicolon, Blank} = {}
  /\ Blank \notin {Open, Close, Semicolon}
  /\ Absolute \subseteq DOMAIN Labels
  /\ OriginLike \cup TtlLike \subseteq Dollar /\ OriginLike \cap TtlLike = {}
  /\ "$ORIGIN" \in OriginLike /\ "$TTL" \in TtlLike

VARIABLES
  status,         \* "reading", "joining", "parsing", "loaded", "failed" or "panicked"
  content,        \* the lines of the file
  line,           \* lines preprocessed, then lines parsed
  current_line,   \* preprocess: the line being put together
  in_parens,      \* preprocess: between an opening and a closing parenthesis
  result,         \* processed_lines
  default_ttl, current_origin,
  zone            \* the Option<Zone>, its records in the order of the file

vars == <<status, content, line, current_line, in_parens, result,
          default_ttl, current_origin, zone>>

-----------------------------------------------------------------------------
(* Joining lines *)

Without(words, w) ==
  LET rest[i \in 0 .. Len(words)] ==
        IF i = 0 THEN <<>> ELSE IF words[i] = w THEN rest[i - 1] ELSE Append(rest[i - 1], words[i])
  IN  rest[Len(words)]

Quotes(words) == Cardinality({i \in DOMAIN words : words[i] \in HalfQuoted})

BeforeSemicolon(words) ==
  LET at == {i \in DOMAIN words : words[i] = Semicolon}
  IN  SubSeq(words, 1, (CHOOSE i \in at : \A j \in at : i <= j) - 1)

Trim(words) == IF words # <<>> /\ words[1] = Blank THEN Tail(words) ELSE words

\* Only the first semicolon is looked at: within quotes it keeps the whole line.
StripComment(words) ==
  IF ~Contains(words, Semicolon) \/ Quotes(BeforeSemicolon(words)) % 2 = 1 THEN words
  ELSE BeforeSemicolon(words)

trimmed == Trim(StripComment(content[line + 1]))

Joining == status = "joining" /\ line < Len(content)

\* A closing parenthesis on the same line is not looked for.
JoinOpen ==
  /\ Joining /\ Contains(trimmed, Open)
  /\ in_parens' = TRUE
  /\ current_line' = current_line \o Without(trimmed, Open)
  /\ line' = line + 1
  /\ UNCHANGED <<status, content, result, default_ttl, current_origin, zone>>

JoinClose ==
  /\ Joining /\ ~Contains(trimmed, Open) /\ Contains(trimmed, Close)
  /\ in_parens' = FALSE
  /\ result' = Append(result, current_line \o Without(trimmed, Close))
  /\ current_line' = <<>>
  /\ line' = line + 1
  /\ UNCHANGED <<status, content, default_ttl, current_origin, zone>>

JoinInside ==
  /\ Joining /\ ~Contains(trimmed, Open) /\ ~Contains(trimmed, Close) /\ in_parens
  /\ current_line' = current_line \o trimmed
  /\ line' = line + 1
  /\ UNCHANGED <<status, content, in_parens, result, default_ttl, current_origin, zone>>

JoinOutside ==
  /\ Joining /\ ~Contains(trimmed, Open) /\ ~Contains(trimmed, Close) /\ ~in_parens
  /\ result' = IF trimmed = <<>> THEN result ELSE Append(result, trimmed)
  /\ line' = line + 1
  /\ UNCHANGED <<status, content, current_line, in_parens, default_ttl, current_origin, zone>>

\* Parentheses that were never closed: what was gathered is a line.  White space
\* alone would be an empty line, which the parse skips.
JoinEnd ==
  /\ status = "joining" /\ line = Len(content)
  /\ result' = IF current_line = <<>> THEN result ELSE Append(result, current_line)
  /\ status' = "parsing"
  /\ line' = 0
  /\ UNCHANGED <<content, current_line, in_parens, default_ttl, current_origin, zone>>

-----------------------------------------------------------------------------
(* The fields of the record types, one definition per branch of the match.  *)
(* "text", "base64", "hex" and "types" take all the words that remain.      *)

AFields == <<"ipv4">>
AaaaFields == <<"ipv6">>
NsFields == <<"name">>
SoaFields == <<"name", "name", "u32", "i32", "i32", "i32", "u32">>
CnameFields == <<"name">>
MxFields == <<"u16", "name">>
TxtFields == <<"text">>
PtrFields == <<"name">>
SrvFields == <<"u16", "u16", "u16", "name">>
CaaFields == <<"u8", "word", "text">>
DnskeyFields == <<"u16", "u8", "u8", "base64">>
RrsigFields == <<"type", "u8", "u8", "u32", "u32", "u32", "u16", "name", "base64">>
NsecFields == <<"name", "types">>
DsFields == <<"u16", "u8", "u8", "hex">>
NaptrFields == <<"u16", "u16", "quoted", "quoted", "quoted", "name">>
TlsaFields == <<"u8", "u8", "u8", "hex">>
SshfpFields == <<"u8", "u8", "hex">>

\* The match on rtype; other types are unsupported.
Supported ==
  {"A", "AAAA", "NS", "SOA", "CNAME", "MX", "TXT", "PTR", "SRV", "CAA", "DNSKEY", "RRSIG", "NSEC",
   "DS", "NAPTR", "TLSA", "SSHFP"}

Fields ==
  [rtype \in Supported |->
     CASE rtype = "A" -> AFields [] rtype = "AAAA" -> AaaaFields
       [] rtype = "NS" -> NsFields [] rtype = "SOA" -> SoaFields
       [] rtype = "CNAME" -> CnameFields [] rtype = "MX" -> MxFields
       [] rtype = "TXT" -> TxtFields [] rtype = "PTR" -> PtrFields
       [] rtype = "SRV" -> SrvFields [] rtype = "CAA" -> CaaFields
       [] rtype = "DNSKEY" -> DnskeyFields [] rtype = "RRSIG" -> RrsigFields
       [] rtype = "NSEC" -> NsecFields [] rtype = "DS" -> DsFields
       [] rtype = "NAPTR" -> NaptrFields [] rtype = "TLSA" -> TlsaFields
       [] rtype = "SSHFP" -> SshfpFields]

Rest == {"text", "base64", "hex", "types"}

\* A number is neither a class nor a type.
ASSUME WordsAssumption == DOMAIN Bits \cap ({"IN"} \cup DOMAIN Fields) = {}

\* str::parse of an unsigned number of that many bits.
Fits(w, bits) == w \in DOMAIN Bits /\ Bits[w] <= bits

\* The word is accepted for a field of that kind; otherwise `?' returns an error.
Parses(kind, w) ==
  CASE kind = "u8" -> Fits(w, 8)
    [] kind = "u16" -> Fits(w, 16)
    [] kind = "u32" -> Fits(w, 32)
    [] kind = "i32" -> Fits(w, 31)
    [] kind = "ipv4" -> w \in Ipv4
    [] kind = "ipv6" -> w \in Ipv6
    [] kind = "name" -> w \in DOMAIN Labels
    [] kind = "type" -> w \in KnownTypes
    [] OTHER -> TRUE

\* The remaining words decode; otherwise a warning is logged and Ok(None) returned.
Decodes(kind, words) ==
  CASE kind = "base64" -> ToSet(words) \subseteq Base64
    [] kind = "hex" -> ToSet(words) \subseteq Hex
    [] OTHER -> TRUE

ParseDomainName(w, origin) == IF w \in Absolute THEN Labels[w] ELSE Labels[w] \o origin

\* The owner; the wildcards are names like others.
OwnerName(w, origin) == IF w = "@" THEN origin ELSE ParseDomainName(w, origin)

Unquote(w) == IF w \in DOMAIN Unquoted THEN Unquoted[w] ELSE w

\* join, then trim_matches on both ends.
TrimMatches(words) ==
  [i \in DOMAIN words |-> IF i \in {1, Len(words)} THEN Unquote(words[i]) ELSE words[i]]
-----------------------------------------------------------------------------
(* RDATA: a sequence of tagged values *)

FieldValue(kind, w, origin) ==
  IF kind = "name" THEN <<"name", ParseDomainName(w, origin)>>
  ELSE <<"word", IF kind = "quoted" THEN Unquote(w) ELSE w>>

RestValue(kind, words) ==
  CASE kind = "text" -> <<"text", TrimMatches(words)>>
    [] kind = "types" -> <<"types", SelectSeq(words, LAMBDA w : w \in KnownTypes)>>
    [] OTHER -> <<"bytes", words>>

Bit(n, b) == (n \div b) % 2

\* CAA::new_issue: the critical flag and an issuer, whatever the tag.  A value
\* that is no name becomes the root.
CaaData(words) ==
  LET value == TrimMatches(SubSeq(words, 3, Len(words)))
      named == words[2] \in {"issue", "issuewild"} /\ value \notin {<<"">>, <<Semicolon>>}
  IN  <<<<"flag", Bit(Value[words[1]], 128)>>,
        IF ~named THEN <<"none">>
        ELSE <<"issuer", IF Len(value) = 1 /\ value[1] \in DOMAIN Labels
                         THEN Labels[value[1]] ELSE <<>> >> >>

\* DNSKEY::new: three of the flags, and the protocol is dropped.
DnskeyData(words) ==
  LET flags == Value[words[1]]
  IN  <<<<"flag", Bit(flags, 256)>>, <<"flag", Bit(flags, 1)>>, <<"flag", Bit(flags, 32768)>>,
        <<"word", words[3]>>, <<"bytes", SubSeq(words, 4, Len(words))>> >>

\* One value for each field; the last field may take several words.
PlainData(fields, words, origin) ==
  [i \in DOMAIN fields |->
     IF fields[i] \in Rest THEN RestValue(fields[i], SubSeq(words, i, Len(words)))
     ELSE FieldValue(fields[i], words[i], origin)]

RData(rtype, words, origin) ==
  CASE rtype = "CAA" -> CaaData(words)
    [] rtype = "DNSKEY" -> DnskeyData(words)
    [] OTHER -> PlainData(Fields[rtype], words, origin)

-----------------------------------------------------------------------------
(* parse_resource_record: Ok with at most one record, or an error *)

Ok(records) == [out |-> "ok", records |-> records]
Nothing == Ok(<<>>)
Error == [out |-> "error", records |-> <<>>]
Panic == [out |-> "panic", records |-> <<>>]

\* Ok(None) for too few words and for words that do not decode, an error for a
\* field that does not parse and, last, for an unknown digest type.
ParseRData(name, ttl, rtype, words, origin) ==
  IF rtype \notin DOMAIN Fields THEN Nothing
  ELSE LET fields == Fields[rtype]
           last == Len(fields)
       IN  IF Len(words) < last THEN Nothing
           ELSE IF \E i \in 1 .. last : fields[i] \notin Rest /\ ~Parses(fields[i], words[i])
           THEN Error
           ELSE IF ~Decodes(fields[last], SubSeq(words, last, Len(words))) THEN Nothing
           ELSE IF rtype = "DS" /\ words[3] \notin KnownDigests THEN Error
           ELSE Ok(<<[name |-> name, ttl |-> ttl, rtype |-> rtype,
                      data |-> RData(rtype, words, origin)]>>)

\* Slip: the TTL of the line is skipped and the default taken.
ParseTailDefaultTtl(name, parts, origin, ttl) ==
  LET class == IF Fits(parts[2], 32) THEN 3 ELSE 2
      rtype == IF parts[class] = "IN" THEN class + 1 ELSE class
  IN  IF rtype > Len(parts) THEN Panic
      ELSE ParseRData(name, ttl, parts[rtype], SubSeq(parts, rtype + 1, Len(parts)), origin)

\* The words from the second on: a TTL, a class, and the type after them.
ParseTail(name, parts, origin, ttl) ==
  LET hasTtl == Fits(parts[2], 32)
      class == IF hasTtl THEN 3 ELSE 2
      rtype == IF parts[class] = "IN" THEN class + 1 ELSE class
  IN  IF rtype > Len(parts) THEN Panic
      ELSE ParseRData(name, IF hasTtl THEN parts[2] ELSE ttl, parts[rtype],
                      SubSeq(parts, rtype + 1, Len(parts)), origin)

\* Slip: three words are taken for a record.
ParseResourceRecordThree(parts, origin, ttl) ==
  IF Len(parts) < 3 THEN Nothing
  ELSE IF parts[1] # "@" /\ parts[1] \notin DOMAIN Labels THEN Error
  ELSE ParseTail(OwnerName(parts[1], origin), parts, origin, ttl)

\* Slip: a line that cannot be read is passed over.
ParseResourceRecordLenient(parts, origin, ttl) ==
  IF Len(parts) < 4 \/ (parts[1] # "@" /\ parts[1] \notin DOMAIN Labels) THEN Nothing
  ELSE Ok(ParseTail(OwnerName(parts[1], origin), parts, origin, ttl).records)

ParseResourceRecord(parts, origin, ttl) ==
  IF Len(parts) < 4 THEN Nothing
  ELSE IF parts[1] # "@" /\ parts[1] \notin DOMAIN Labels THEN Error
  ELSE ParseTail(OwnerName(parts[1], origin), parts, origin, ttl)

-----------------------------------------------------------------------------
(* parse_zone_file *)

Init ==
  /\ status = "reading"
  /\ content = <<>> /\ line = 0
  /\ current_line = <<>> /\ in_parens = FALSE /\ result = <<>>
  /\ default_ttl = DefaultTtl
  /\ current_origin = Origin
  /\ zone = {}

Read ==
  /\ status = "reading"
  /\ content' \in Files
  /\ status' = "joining"
  /\ UNCHANGED <<line, current_line, in_parens, result, default_ttl, current_origin, zone>>

ReadFails ==
  /\ status = "reading"
  /\ status' = "failed"
  /\ UNCHANGED <<content, line, current_line, in_parens, result, default_ttl, current_origin, zone>>

words == result[line + 1]
Parsing == status = "parsing" /\ line < Len(result)
Directive == words # <<>> /\ words[1] \in Dollar
parsed == ParseResourceRecord(words, current_origin, default_ttl)

ExtractSoaData(record) == record.data

\* Nothing is kept of an empty line, a directive without an argument and any
\* other line that begins with "$".
ParseSkip ==
  /\ Parsing
  /\ words = <<>> \/ (Directive /\ (words[1] \notin OriginLike \cup TtlLike \/ Len(words) < 2))
  /\ line' = line + 1
  /\ UNCHANGED <<status, content, current_line, in_parens, result,
                 default_ttl, current_origin, zone>>

\* starts_with: what follows "$ORIGIN" in the same word is not looked at.
ParseOrigin ==
  /\ Parsing /\ Directive /\ words[1] \in OriginLike /\ Len(words) >= 2
  /\ IF words[2] \in DOMAIN Labels
     THEN current_origin' = Labels[words[2]] /\ UNCHANGED status
     ELSE status' = "failed" /\ UNCHANGED current_origin
  /\ line' = line + 1
  /\ UNCHANGED <<content, current_line, in_parens, result, default_ttl, zone>>

ParseTtl ==
  /\ Parsing /\ Directive /\ words[1] \in TtlLike /\ Len(words) >= 2
  /\ IF Fits(words[2], 32)
     THEN default_ttl' = words[2] /\ UNCHANGED status
     ELSE status' = "failed" /\ UNCHANGED default_ttl
  /\ line' = line + 1
  /\ UNCHANGED <<content, current_line, in_parens, result, current_origin, zone>>

\* A record line: the first SOA creates the zone under the configured name.
ParseRecord ==
  /\ Parsing /\ words # <<>> /\ ~Directive
  /\ line' = line + 1
  /\ status' = CASE parsed.out = "ok" -> status
                 [] parsed.out = "error" -> "failed"
                 [] parsed.out = "panic" -> "panicked"
  /\ zone' = IF zone = {} /\ \E r \in ToSet(parsed.records) : r.rtype = "SOA"
             THEN {[origin |-> Origin, soa |-> ExtractSoaData(parsed.records[1]),
                    records |-> parsed.records]}
             ELSE {[z EXCEPT !.records = @ \o parsed.records] : z \in zone}
  /\ UNCHANGED <<content, current_line, in_parens, result, default_ttl, current_origin>>

ParseEnd ==
  /\ status = "parsing" /\ line = Len(result)
  /\ status' = IF zone = {} THEN "failed" ELSE "loaded"
  /\ UNCHANGED <<content, line, current_line, in_parens, result,
                 default_ttl, current_origin, zone>>

Next ==
  \/ Read \/ ReadFails
  \/ JoinOpen \/ JoinClose \/ JoinInside \/ JoinOutside \/ JoinEnd
  \/ ParseSkip \/ ParseOrigin \/ ParseTtl \/ ParseRecord \/ ParseEnd

Spec == Init /\ [][Next]_vars
-----------------------------------------------------------------------------
(* Reference: the master file format of RFC 1035, section 5.1 *)

\* One word: quotes, comments and parentheses are seen in the order they stand.
RfcWord(st, w) ==
  CASE st.comment -> st
    [] ~st.comment /\ st.quoted ->
         [st EXCEPT !.entry = Append(@, w), !.quoted = w \notin HalfQuoted]
    [] ~st.comment /\ ~st.quoted /\ w = Semicolon -> [st EXCEPT !.comment = TRUE]
    [] ~st.comment /\ ~st.quoted /\ w = Open -> [st EXCEPT !.depth = @ + 1]
    [] ~st.comment /\ ~st.quoted /\ w = Close -> [st EXCEPT !.depth = @ - 1]
    [] ~st.comment /\ ~st.quoted /\ w = Blank ->
         IF st.depth = 0 /\ st.entry = <<>> THEN [st EXCEPT !.entry = <<Blank>>] ELSE st
    [] OTHER -> [st EXCEPT !.entry = Append(@, w), !.quoted = w \in HalfQuoted]

\* The words of a line: what has been read after each of them.
RfcWords(st, l) ==
  LET after[k \in 0 .. Len(l)] ==
        IF k = 0 THEN [st EXCEPT !.comment = FALSE, !.quoted = FALSE] ELSE RfcWord(after[k - 1], l[k])
  IN  after

\* One line: it ends the entry unless a parenthesis is open.
RfcLine(st, l) ==
  LET end == RfcWords(st, l)[Len(l)]
  IN  IF end.depth > 0 THEN end
      ELSE [end EXCEPT !.entry = <<>>,
                       !.entries = IF end.entry \in {<<>>, <<Blank>>} THEN @
                                   ELSE Append(@, end.entry)]

RfcStart == [entries |-> <<>>, entry |-> <<>>, depth |-> 0, comment |-> FALSE, quoted |-> FALSE]

\* The lines of a file: what has been read after each of them.
RfcScan(lines) ==
  LET after[i \in 0 .. Len(lines)] == IF i = 0 THEN RfcStart ELSE RfcLine(after[i - 1], lines[i])
  IN  after

\* The end of the file ends an entry whose parentheses were never closed.
Entries ==
  LET end == RfcScan(content)[Len(content)]
  IN  IF end.entry = <<>> THEN end.entries ELSE Append(end.entries, end.entry)

\* Control entries begin with a dollar sign.
IsRecord(e) == e[1] \notin Dollar
IsTtl(w) == Fits(w, 32)

\* The place of the type: after a TTL and a class, in either order.
TypeAt(e) ==
  CASE Len(e) >= 4 /\ {IsTtl(e[2]), IsTtl(e[3])} = BOOLEAN /\ "IN" \in {e[2], e[3]} -> 4
    [] ~(Len(e) >= 4 /\ {IsTtl(e[2]), IsTtl(e[3])} = BOOLEAN /\ "IN" \in {e[2], e[3]})
       /\ Len(e) >= 3 /\ (IsTtl(e[2]) \/ e[2] = "IN") -> 3
    [] OTHER -> 2

RfcData(rtype, data, origin) ==
  IF rtype = "DNSKEY"
  THEN [DnskeyData(data) EXCEPT ![3] = <<"flag", Bit(Value[data[1]], 128)>>]
  ELSE RData(rtype, data, origin)

\* An entry of a supported type with as many fields as the type has; its fields
\* can be read, and with them its owner and digest type; its last words decode.
Complete(e) ==
  LET at == TypeAt(e)
  IN  /\ at <= Len(e) /\ e[at] \in DOMAIN Fields
      /\ Len(e) - at >= Len(Fields[e[at]])
HasOwner(e) == e[1] \in DOMAIN Labels \cup {"@", Blank}
FieldsParse(e) ==
  LET fields == Fields[e[TypeAt(e)]]
  IN  \A i \in DOMAIN fields : fields[i] \in Rest \/ Parses(fields[i], e[TypeAt(e) + i])
Readable(e) ==
  /\ HasOwner(e) /\ FieldsParse(e)
  /\ e[TypeAt(e)] = "DS" => e[TypeAt(e) + 3] \in KnownDigests
Decodable(e) ==
  LET fields == Fields[e[TypeAt(e)]]
  IN  Decodes(fields[Len(fields)], SubSeq(e, TypeAt(e) + Len(fields), Len(e)))

\* The last argument of a directive before the i-th entry, or the default.
InEffect(entries, directive, i, default) ==
  LET at == {j \in 1 .. i - 1 : entries[j][1] = directive /\ Len(entries[j]) >= 2}
  IN  IF at = {} THEN default ELSE entries[CHOOSE j \in at : \A k \in at : k <= j][2]

OriginAt(entries, i) ==
  LET w == InEffect(entries, "$ORIGIN", i, Blank) IN IF w = Blank THEN Origin ELSE Labels[w]

\* The owner an entry names; none stands for the owner of the entry before it.
OwnerAt(entries, i) ==
  LET named == {j \in 1 .. i : IsRecord(entries[j]) /\ entries[j][1] # Blank}
      j == CHOOSE j \in named : \A k \in named : k <= j
  IN  IF named = {} THEN Origin ELSE OwnerName(entries[j][1], OriginAt(entries, j))

RfcRecord(entries, i) ==
  LET e == entries[i]
      at == TypeAt(e)
      ttls == {e[j] : j \in {j \in 2 .. at - 1 : IsTtl(e[j])}}
  IN  [name |-> OwnerAt(entries, i),
       ttl |-> IF ttls = {} THEN InEffect(entries, "$TTL", i, DefaultTtl)
               ELSE CHOOSE w \in ttls : TRUE,
       rtype |-> e[at],
       data |-> RfcData(e[at], SubSeq(e, at + 1, Len(e)), OriginAt(entries, i))]

\* What the code passes over without an error, although the RFC has a record
\* there: three words, or a class before a TTL.
Overlooked(e) == Len(e) < 4 \/ (e[2] = "IN" /\ IsTtl(e[3]))

\* The records of a file, and those of them that the code keeps.
Records(entries) == {i \in DOMAIN entries : IsRecord(entries[i]) /\ Complete(entries[i])}
Kept(entries) ==
  {i \in Records(entries) : /\ Readable(entries[i]) /\ Decodable(entries[i])
                            /\ ~Overlooked(entries[i])}

\* The entries of `kept' from the first SOA on, as records: what they are after
\* each entry.
RecordsUpTo(entries, kept) ==
  LET soas == {i \in kept : RfcRecord(entries, i).rtype = "SOA"}
      read[i \in 0 .. Len(entries)] ==
        IF i = 0 THEN <<>>
        ELSE IF i \in kept /\ (\E j \in soas : j <= i) THEN Append(read[i - 1], RfcRecord(entries, i))
        ELSE read[i - 1]
  IN  read

RecordsOf(entries, kept) == RecordsUpTo(entries, kept)[Len(entries)]

\* Lines whose comments, quotes and parentheses the code reads as the RFC does:
\* a group is opened on one line and closed on another, and of two semicolons
\* the first is not within quotes.
JoinableLine(before, l) ==
  LET seen == RfcWords(before, l)[Len(l)]
      code == StripComment(l)
  IN  /\ Quotes(code) % 2 = 0
      /\ Contains(l, Semicolon) /\ Quotes(BeforeSemicolon(l)) % 2 = 1 => ~seen.comment
      /\ Cardinality({k \in DOMAIN code : code[k] \in {Open, Close}}) <= 1
      /\ Contains(code, Open) => before.depth = 0 /\ seen.depth = 1
      /\ Contains(code, Close) => before.depth = 1 /\ seen.depth = 0

Joinable(lines) == \A i \in DOMAIN lines : JoinableLine(RfcScan(lines)[i - 1], lines[i])

\* Every entry names its owner, no word only begins like a directive, and no key
\* has a flag DNSKEY::new is given from the wrong bit.
Explicit(entries) ==
  \A e \in ToSet(entries) :
    /\ e[1] # Blank
    /\ e[1] \in OriginLike \cup TtlLike => e[1] \in {"$ORIGIN", "$TTL"}
    /\ IsRecord(e) /\ Complete(e) /\ e[TypeAt(e)] = "DNSKEY" /\ Readable(e) =>
         Bit(Value[e[TypeAt(e) + 1]], 128) = Bit(Value[e[TypeAt(e) + 1]], 32768)

-----------------------------------------------------------------------------
(* Properties *)

\* An index into the words of a line is never out of range: whatever optional
\* words a line has, the check of its length leaves a word for the type.
NoPanic == status # "panicked"

\* A loaded zone has the records of its file in the order of the file, each
\* with the owner, TTL and names that the $ORIGIN and $TTL in effect give it,
\* from the first SOA on.  Of a file with explicit owners whose lines can be
\* joined, the code loses only what it does not decode or overlooks.
LoadedAsRead ==
  status = "loaded" /\ Joinable(content) /\ Explicit(Entries) =>
    \A z \in zone : z.records = RecordsOf(Entries, Kept(Entries))

\* What is wrong with an entry that was accepted cannot be its owner, if it has
\* four words, nor one of its fields or its digest type, if it has all of them.
\* It may be any of the faults that parse_resource_record answers with Ok(None):
\* too few words for a record (zone.rs:302) or for its type, no type where one
\* is expected, which a TTL out of range or a mistyped type amounts to
\* (zone.rs:748), or a key, signature or digest that does not decode (zone.rs:513,
\* 571, 636).
Accepted(e) ==
  /\ Len(e) >= 4 => HasOwner(e)
  /\ Complete(e) /\ ~Overlooked(e) => FieldsParse(e)
  /\ Complete(e) /\ ~Overlooked(e) /\ Decodable(e) => Readable(e)

\* The faults that are errors fail the whole file, wherever they stand and
\* whatever else is wrong with their line; a loaded zone lacks lines for the
\* other faults only, and those it lacks without an error.
MalformedRefused ==
  status = "loaded" /\ Joinable(content) /\ Explicit(Entries) =>
    \A e \in ToSet(Entries) : IsRecord(e) => Accepted(e)
=============================================================================
