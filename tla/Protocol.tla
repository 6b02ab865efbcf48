------------------------------ MODULE Protocol ------------------------------
(***************************************************************************)
(* QueryProcessor::process_query (protocol.rs): the response to a query    *)
(* from one state of the zone store.                                       *)
(*                                                                         *)
(* A query is what the code reads of it: whether its opcode is QUERY, its  *)
(* first question if it has one, the EDNS payload size (0 without EDNS)    *)
(* and the DO flag.  The sections of a response are sets: the order and    *)
(* the repetition of records within a section are left out.                *)
(***************************************************************************)
EXTENDS Zone

Queries(names, types, payloads) ==
  [name : names, type : types, standard : BOOLEAN, question : BOOLEAN,
   payload : payloads, do : BOOLEAN]

\* edns.max_payload() of every response that carries EDNS, in bytes.
OurPayload == 4096

\* A response without records.
Bare(rcode, aa, question) ==
  [question |-> question, payload |-> 0, rcode |-> rcode, aa |-> aa,
   answers |-> {}, authority |-> {}]

\* The answer section for a name of the zone.
Answers(query, zone) ==
  LET exists == ContainsName(zone, query.name)
      Get(rtype) == IF exists THEN Lookup(zone, query.name, rtype)
                    ELSE LookupWildcard(zone, query.name, rtype)
      sigs == {s \in ToSet(Lookup(zone, query.name, SIG)) : query.do /\ s.covers = query.type}
      aliases == ToSet(Get(CNAME))
  IN  IF Get(query.type) # <<>> THEN ToSet(Get(query.type)) \cup sigs
      ELSE aliases \cup UNION {ToSet(Lookup(zone, c.target, query.type)) : c \in aliases}

\* Slip: NXDOMAIN for a name that has records of other types only.
AnswerNoNodata(query, zone) ==
  LET answers == Answers(query, zone)
  IN  [question |-> TRUE, payload |-> IF query.payload # 0 THEN OurPayload ELSE 0,
       rcode |-> IF answers = {} THEN "NXDOMAIN" ELSE "NOERROR",
       aa |-> TRUE, answers |-> answers,
       authority |-> IF answers = {} THEN {GetSoaRecord(zone)}
                     ELSE ToSet(Lookup(zone, zone.origin, NS))]

\* The response once the zone is found.
Answer(query, zone) ==
  LET answers == Answers(query, zone)
  IN  [question |-> TRUE, payload |-> IF query.payload # 0 THEN OurPayload ELSE 0,
       rcode |-> IF answers = {} /\ ~ContainsName(zone, query.name)
                 THEN "NXDOMAIN" ELSE "NOERROR",
       aa |-> TRUE, answers |-> answers,
       authority |-> IF answers = {} THEN {GetSoaRecord(zone)}
                     ELSE ToSet(Lookup(zone, zone.origin, NS))]

\* A zone transfer asked of process_query gets an empty authoritative answer.
ProcessQuery(query, store) ==
  CASE ~query.standard -> Bare("NOTIMP", FALSE, FALSE)
    [] query.standard /\ ~query.question -> Bare("FORMERR", FALSE, FALSE)
    [] query.standard /\ query.question /\ query.type = AXFR -> Bare("NOERROR", TRUE, TRUE)
    [] OTHER ->
         IF FindZone(store, query.name) = {}
         THEN Bare("REFUSED", FALSE, TRUE)
         ELSE Answer(query, CHOOSE zone \in FindZone(store, query.name) : TRUE)
=============================================================================
