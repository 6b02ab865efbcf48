------------------------------- MODULE Dnssec -------------------------------
(***************************************************************************)
(* The DNSSEC helpers of dnssec.rs: verify_ds with compute_key_tag,        *)
(* check_signature_validity, validate_nsec_denial and                      *)
(* find_related_dnssec_records.  Each behaviour is one call, the loops     *)
(* taken one element at a time.                                            *)
(*                                                                         *)
(* A name is the sequence of its labels as in Zone; a label here is the    *)
(* ASCII code of its only letter.  The digests are ideal: a digest is the  *)
(* pair of the hash function and what was hashed.                          *)
(***************************************************************************)
EXTENDS Zone

CONSTANTS
  DsCalls,       \* [ds, dnskey]: the arguments of verify_ds
  TimeCalls,     \* [from, to, now]: the seconds a signer meant, and the clock
  DenialCalls,   \* [qname, qtype, nsecs, data]; data is what the zone holds
  RelatedCalls,  \* [qname, qtype, set]
  TimeSpan       \* 2^32: the times of a signature are seconds modulo this

DS == 43
NSEC == 47
DNSKEY == 48

\* The digest types with a branch in verify_ds.
SHA256 == 2
SHA384 == 4
SHA512 == 6
Hashes == {SHA256, SHA384, SHA512}

Bytes == {n \in Nat : n < 256}

\* The NSEC record that a zone holding `data' (a function from its names to
\* their types) has at one of its names: `next' is the name that follows it, or
\* the first name after the last one.
IsNsec(nsec, data) ==
  LET zone == DOMAIN data
  IN  /\ nsec.name \in zone /\ nsec.next \in zone
      /\ nsec.types = data[nsec.name]
      /\ \/ /\ NameLess(nsec.name, nsec.next)
            /\ \A z \in zone : ~(NameLess(nsec.name, z) /\ NameLess(z, nsec.next))
         \/ \A z \in zone : ~NameLess(nsec.name, z) /\ ~NameLess(z, nsec.next)

ASSUME DnssecAssumption ==
  /\ TimeSpan \in Nat \ {0}
  /\ \A c \in DsCalls : /\ c.dnskey.flags \in Nat /\ c.dnskey.flags < 65536
                        /\ c.dnskey.algorithm \in Bytes
                        /\ c.dnskey.public_key \in Seq(Bytes)
                        /\ Len(c.dnskey.public_key) <= 65531
  /\ \A c \in TimeCalls : c.from \in Nat /\ c.to \in Nat /\ c.now \in Nat
  /\ \A c \in DenialCalls :
       /\ c.qname \in Seq(Nat) /\ DOMAIN c.data \subseteq Seq(Nat)
       /\ IsFiniteSet(DOMAIN c.data) /\ DOMAIN c.data # {}
       /\ c.nsecs \in Seq(ToSet(c.nsecs))
       /\ \A i \in 1 .. Len(c.nsecs) : c.nsecs[i].type = NSEC => IsNsec(c.nsecs[i], c.data)

VARIABLES
  call,    \* the arguments
  fn,      \* the function called
  pc,      \* where it is; "done" when it returned
  at,      \* index of the loop it is in
  ac,      \* compute_key_tag: the accumulator, a u32
  found,   \* find_related_dnssec_records: the vector
  result   \* "none", "ok" or "err"

callVars == <<call, fn, pc, at, ac, found, result>>

CallInit ==
  /\ \/ fn = "verify_ds" /\ call \in DsCalls
     \/ fn = "check_signature_validity" /\ call \in TimeCalls
     \/ fn = "validate_nsec_denial" /\ call \in DenialCalls
     \/ fn = "find_related_dnssec_records" /\ call \in RelatedCalls
  /\ pc = fn
  /\ at = 1 /\ ac = 0 /\ found = <<>>
  /\ result = "none"

Return(r) ==
  /\ pc' = "done" /\ result' = r
  /\ UNCHANGED <<call, fn, at, ac, found>>

Goto(label) ==
  /\ pc' = label
  /\ UNCHANGED <<call, fn, at, found, result>>
-----------------------------------------------------------------------------
(* verify_ds and compute_key_tag *)

Lower(letter) == IF letter \in 65 .. 90 THEN letter + 32 ELSE letter
Wire(name) == FlattenSeq([i \in DOMAIN name |-> <<1, name[i]>>]) \o <<0>>

\* The protocol is written as 3 whatever the record says.
Rdata(key) ==
  <<key.flags \div 256, key.flags % 256, 3, key.algorithm>> \o key.public_key

DigestInput(key) == Wire([i \in DOMAIN key.name |-> Lower(key.name[i])]) \o Rdata(key)

VerifyDs ==
  /\ pc = "verify_ds"
  /\ IF /\ call.ds.type = DS /\ call.dnskey.type = DNSKEY
        /\ call.ds.algorithm = call.dnskey.algorithm
     THEN Goto("sum") /\ UNCHANGED ac
     ELSE Return("err")

\* Slip: the bytes at odd indices are the high ones.
AddByteSwapped ==
  /\ pc = "sum" /\ at <= Len(Rdata(call.dnskey))
  /\ ac' = ac + Rdata(call.dnskey)[at] * (IF (at - 1) % 2 = 1 THEN 256 ELSE 1)
  /\ at' = at + 1
  /\ UNCHANGED <<call, fn, pc, found, result>>

AddByte ==
  /\ pc = "sum" /\ at <= Len(Rdata(call.dnskey))
  /\ ac' = ac + Rdata(call.dnskey)[at] * (IF (at - 1) % 2 = 0 THEN 256 ELSE 1)
  /\ at' = at + 1
  /\ UNCHANGED <<call, fn, pc, found, result>>

FoldCarry ==
  /\ pc = "sum" /\ at > Len(Rdata(call.dnskey))
  /\ ac' = ac + ((ac \div 65536) % 65536)
  /\ Goto("tag")

KeyTag == ac % 65536

CompareTag ==
  /\ pc = "tag"
  /\ IF call.ds.tag = KeyTag THEN Goto("digest") /\ UNCHANGED ac ELSE Return("err")

CompareDigest ==
  /\ pc = "digest"
  /\ Return(IF /\ call.ds.digest_type \in Hashes
               /\ call.ds.digest = <<call.ds.digest_type, DigestInput(call.dnskey)>>
            THEN "ok" ELSE "err")
-----------------------------------------------------------------------------
(* check_signature_validity *)

\* Slip: the second of the expiration is too late.
CheckSignatureValidityShort ==
  /\ pc = "check_signature_validity"
  /\ LET now == call.now % TimeSpan
     IN  Return(IF now < call.from % TimeSpan \/ now >= call.to % TimeSpan THEN "err" ELSE "ok")

\* The clock is cut to 32 bits and compared as a plain number.
CheckSignatureValidity ==
  /\ pc = "check_signature_validity"
  /\ LET now == call.now % TimeSpan
     IN  Return(IF now < call.from % TimeSpan \/ now > call.to % TimeSpan THEN "err" ELSE "ok")
-----------------------------------------------------------------------------
(* validate_nsec_denial *)

\* Slip: the last record of the chain is taken like the others.
CoversNameNoWrap(nsec, name) == NameLess(nsec.name, name) /\ NameLess(name, nsec.next)

\* Slip: every record is taken like the last one of the chain.
CoversNameWide(nsec, name) == NameLess(nsec.name, name) \/ NameLess(name, nsec.next)

CoversName(nsec, name) ==
  IF NameLess(nsec.name, nsec.next)
  THEN NameLess(nsec.name, name) /\ NameLess(name, nsec.next)
  ELSE NameLess(nsec.name, name) \/ NameLess(name, nsec.next)

\* One turn of the loop; a record that is no NSEC is passed over.
TryNsec ==
  /\ pc = "validate_nsec_denial" /\ at <= Len(call.nsecs)
  /\ LET nsec == call.nsecs[at]
     IN  IF /\ nsec.type = NSEC
            /\ \/ CoversName(nsec, call.qname)
               \/ call.qname = nsec.name /\ call.qtype \notin nsec.types
         THEN Return("ok")
         ELSE /\ at' = at + 1
              /\ UNCHANGED <<call, fn, pc, ac, found, result>>

NoProof ==
  /\ pc = "validate_nsec_denial" /\ at > Len(call.nsecs)
  /\ Return("err")
-----------------------------------------------------------------------------
(* find_related_dnssec_records *)

Covering(record) ==
  record.type = SIG /\ record.name = call.qname /\ record.covers = call.qtype

FindSignatures ==
  /\ pc = "find_related_dnssec_records"
  /\ IF at <= Len(call.set)
     THEN /\ found' = IF Covering(call.set[at]) THEN Append(found, call.set[at]) ELSE found
          /\ at' = at + 1
          /\ UNCHANGED pc
     ELSE pc' = "keys" /\ at' = 1 /\ UNCHANGED found
  /\ UNCHANGED <<call, fn, ac, result>>

\* The keys are taken whatever their owner.
FindKeys ==
  /\ pc = "keys"
  /\ IF at <= Len(call.set)
     THEN /\ found' = IF call.set[at].type = DNSKEY THEN Append(found, call.set[at]) ELSE found
          /\ at' = at + 1
          /\ UNCHANGED <<call, fn, pc, ac, result>>
     ELSE Return("ok")
-----------------------------------------------------------------------------
CallNext ==
  \/ VerifyDs \/ AddByte \/ FoldCarry \/ CompareTag \/ CompareDigest
  \/ CheckSignatureValidity
  \/ TryNsec \/ NoProof
  \/ FindSignatures \/ FindKeys

CallSpec == CallInit /\ [][CallNext]_callVars
-----------------------------------------------------------------------------
(* Properties *)

Helpers == {"verify_ds", "check_signature_validity", "validate_nsec_denial",
            "find_related_dnssec_records"}

\* A function that has not returned has no result; every loop index is at most
\* one past the end of what is iterated.
TypeOK ==
  /\ fn \in Helpers
  /\ pc \in Helpers \cup {"sum", "tag", "digest", "keys", "done"}
  /\ at \in Nat \ {0} /\ ac \in Nat
  /\ result \in {"none", "ok", "err"}
  /\ result = "none" <=> pc # "done"
  /\ fn = "verify_ds" => at <= Len(Rdata(call.dnskey)) + 1
  /\ fn = "validate_nsec_denial" => at <= Len(call.nsecs) + 1

\* Reference: RFC 4034, appendix B, on the 16-bit words of the RDATA, an odd
\* last byte followed by a zero: the sums of the first k words, and the tag.  The
\* other tag of appendix B.1, for keys of algorithm 1 (RSA/MD5), is not part of
\* it: compute_key_tag has no such case, and neither has the reference.
Word(rdata, k) ==
  LET Byte(i) == IF i \in DOMAIN rdata THEN rdata[i] ELSE 0
  IN  256 * Byte(2 * k - 1) + Byte(2 * k)

WordSums(rdata) ==
  LET sum[k \in 0 .. (Len(rdata) + 1) \div 2] ==
        IF k = 0 THEN 0 ELSE sum[k - 1] + Word(rdata, k)
  IN  sum

TagOfWords(rdata) ==
  LET sum == WordSums(rdata)[(Len(rdata) + 1) \div 2]
  IN  (sum + sum \div 65536) % 65536

Canonical(name) == [i \in DOMAIN name |-> Lower(name[i])]

\* A DS record is accepted for a key exactly if it is the one a parent would
\* publish for it: key tag, algorithm and digest are those of this key at this
\* name, whatever the case it is written in.  Keys with equal tags exist, and
\* the accumulator carries for some of them and not for others.  For keys of
\* algorithm 1 the tag is that of the general rule, which is not their own.
DsBinds ==
  fn = "verify_ds" /\ pc = "done" =>
    (result = "ok" <=>
       /\ call.ds.type = DS /\ call.dnskey.type = DNSKEY
       /\ call.ds.algorithm = call.dnskey.algorithm
       /\ call.ds.tag = TagOfWords(Rdata(call.dnskey))
       /\ call.ds.digest_type \in Hashes
       /\ call.ds.digest = <<call.ds.digest_type, Wire(Canonical(call.dnskey.name)) \o Rdata(call.dnskey)>>)

\* Although times are cut to 32 bits, a signature is never accepted outside the
\* period its signer meant while the clock is within half a span of it, and it
\* is accepted throughout that period unless the period holds a wrap.
SignatureTimely ==
  fn = "check_signature_validity" /\ pc = "done" =>
    LET half == TimeSpan \div 2
        meant == call.from <= call.now /\ call.now <= call.to
    IN  call.from <= call.to /\ call.to < call.from + half =>
          /\ result = "ok" /\ call.now < call.from + half /\ call.from < call.now + half => meant
          /\ meant /\ call.from \div TimeSpan = call.to \div TimeSpan => result = "ok"

\* What the zone holds of the name and type asked for.
Exists == call.qname \in DOMAIN call.data /\ call.qtype \in call.data[call.qname]

\* Records of a zone's NSEC chain, however few and in whatever order, never
\* deny a record set that the zone holds.
DenialSound == fn = "validate_nsec_denial" /\ result = "ok" => ~Exists

\* With the whole chain, whatever the zone does not hold is denied: no name
\* falls between two records, before the first or after the last.
DenialComplete ==
  fn = "validate_nsec_denial" /\ result = "err"
    /\ DOMAIN call.data \subseteq {n.name : n \in {n \in ToSet(call.nsecs) : n.type = NSEC}}
    => Exists

=============================================================================
