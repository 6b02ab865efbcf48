------------------------------ MODULE UdpQuery ------------------------------
(***************************************************************************)
(* handle_udp_query (server.rs): one task per datagram, the zone store     *)
(* being replaced meanwhile, and what each task adds to the counters.      *)
(*                                                                         *)
(* The verdict of the rate limiter and of the parser are inputs.  A        *)
(* message's size is that of its header, its question, its OPT record and  *)
(* its two sections of records.                                            *)
(***************************************************************************)
EXTENDS Protocol

CONSTANTS
  Tasks,         \* the tasks spawned by run_udp
  Stores,        \* the zone stores a reload may install
  Asked,         \* the queries clients send
  QuestionSize,  \* bytes of a question
  SectionSize(_),  \* bytes of a set of records
  None

\* MAX_DNS_PACKET_SIZE
MaxDnsPacketSize == 512
HeaderSize == 12
OptSize == 11

Responses == {ProcessQuery(q, s) : q \in Asked, s \in Stores}

ASSUME UdpAssumption ==
  /\ QuestionSize \in 0 .. 259  \* a name of 255 bytes, type and class
  /\ SectionSize({}) = 0
  /\ \A r \in Responses : SectionSize(r.answers) \in Nat /\ SectionSize(r.authority) \in Nat

VARIABLES
  store,   \* the zone store
  pc,      \* [Tasks -> control point]
  query,   \* [Tasks -> the parsed query, or None]
  full,    \* [Tasks -> what process_query returned, or None]
  reply,   \* [Tasks -> the message to send, or None]
  sent,    \* history: [Tasks -> datagrams sent]
  met      \* [Tasks -> [Counters -> Nat]]; "latencies" counts record_latency calls

vars == <<store, pc, query, full, reply, sent, met>>

Points == {"new", "process", "refused", "formerr", "reply", "done"}
Counters == {"rate_limited", "errors", "total_queries", "udp_queries", "edns_queries",
             "latencies", "NOERROR", "NXDOMAIN", "REFUSED", "FORMERR"}

Goto(t, point) == pc' = [pc EXCEPT ![t] = point]

\* The record_* calls of a step; record_response ignores NOTIMP.
Record(t, counters) ==
  met' = [met EXCEPT ![t] = [k \in Counters |-> @[k] + IF k \in counters THEN 1 ELSE 0]]

-----------------------------------------------------------------------------
(* Truncation *)

Size(r) ==
  HeaderSize + (IF r.question THEN QuestionSize ELSE 0) + (IF r.payload # 0 THEN OptSize ELSE 0)
    + SectionSize(r.answers) + SectionSize(r.authority)

\* The limit comes from the EDNS record of the response, not of the query.
MaxUdpSize(r) == IF r.payload # 0 THEN r.payload ELSE MaxDnsPacketSize

\* Slip: the authority records are never removed.
EncodeKeepsAuthority(r) ==
  IF Size(r) <= MaxUdpSize(r) THEN [tc |-> FALSE, msg |-> r]
  ELSE [tc |-> TRUE, msg |-> [r EXCEPT !.answers = {}]]

\* Slip: TC is not set.
EncodeSilently(r) ==
  IF Size(r) <= MaxUdpSize(r) THEN [tc |-> FALSE, msg |-> r]
  ELSE [tc |-> FALSE, msg |-> [r EXCEPT !.answers = {}, !.authority = {}]]

\* All answers go first, then all authority records; the additional section is
\* empty.  What remains is sent in any case.
Encode(r) ==
  LET noAnswers == [r EXCEPT !.answers = {}]
  IN  CASE Size(r) <= MaxUdpSize(r) -> [tc |-> FALSE, msg |-> r]
        [] Size(r) > MaxUdpSize(r) /\ Size(noAnswers) <= MaxUdpSize(r) ->
             [tc |-> TRUE, msg |-> noAnswers]
        [] OTHER -> [tc |-> TRUE, msg |-> [noAnswers EXCEPT !.authority = {}]]

\* The messages built without a parsed query.
Refusal == [tc |-> FALSE, msg |-> Bare("REFUSED", FALSE, FALSE)]
FormErr == [tc |-> FALSE, msg |-> Bare("FORMERR", FALSE, FALSE)]

Replies == {Encode(r) : r \in Responses} \cup {Refusal, FormErr}

-----------------------------------------------------------------------------
Init ==
  /\ store \in Stores
  /\ pc = [t \in Tasks |-> "new"]
  /\ query = [t \in Tasks |-> None]
  /\ full = [t \in Tasks |-> None]
  /\ reply = [t \in Tasks |-> None]
  /\ sent = [t \in Tasks |-> 0]
  /\ met = [t \in Tasks |-> [k \in Counters |-> 0]]

\* handle_signals installs another store.
Reload(s) ==
  /\ store' = s
  /\ UNCHANGED <<pc, query, full, reply, sent, met>>

\* check_rate_limit says no: REFUSED without a look at the message.
RateLimited(t) ==
  /\ pc[t] = "new"
  /\ reply' = [reply EXCEPT ![t] = Refusal]
  /\ Record(t, {"rate_limited"})
  /\ Goto(t, "refused")
  /\ UNCHANGED <<store, query, full, sent>>

ParseFails(t) ==
  /\ pc[t] = "new"
  /\ reply' = [reply EXCEPT ![t] = FormErr]
  /\ Record(t, {"errors", "FORMERR"})
  /\ Goto(t, "formerr")
  /\ UNCHANGED <<store, query, full, sent>>

Parsed(t, q) ==
  /\ pc[t] = "new"
  /\ query' = [query EXCEPT ![t] = q]
  /\ Record(t, {"total_queries", "udp_queries"}
                 \cup (IF q.payload # 0 THEN {"edns_queries"} ELSE {}))
  /\ Goto(t, "process")
  /\ UNCHANGED <<store, full, reply, sent>>

\* process_query under the read lock, then to_bytes and truncation.
Process(t) ==
  /\ pc[t] = "process"
  /\ LET r == ProcessQuery(query[t], store)
     IN  /\ full' = [full EXCEPT ![t] = r]
         /\ reply' = [reply EXCEPT ![t] = Encode(r)]
  /\ Goto(t, "reply")
  /\ UNCHANGED <<store, query, sent, met>>

\* process_query returns an error, which it never does today: counted, timed,
\* and nothing is sent.
ProcessFails(t) ==
  /\ pc[t] = "process"
  /\ Record(t, {"errors", "latencies"})
  /\ Goto(t, "done")
  /\ UNCHANGED <<store, query, full, reply, sent>>

\* Slip: the return is missing and the datagram is parsed after all.
RefusalSentGoesOn(t) ==
  /\ pc[t] = "refused"
  /\ sent' = [sent EXCEPT ![t] = @ + 1]
  /\ Goto(t, "new")
  /\ UNCHANGED <<store, query, full, reply, met>>

\* send_to returns; nothing more is recorded for a rate limited datagram.
RefusalSent(t) ==
  /\ pc[t] = "refused"
  /\ sent' = [sent EXCEPT ![t] = @ + 1]
  /\ Goto(t, "done")
  /\ UNCHANGED <<store, query, full, reply, met>>

FormErrSent(t) ==
  /\ pc[t] = "formerr"
  /\ sent' = [sent EXCEPT ![t] = @ + 1]
  /\ Record(t, {"latencies"})
  /\ Goto(t, "done")
  /\ UNCHANGED <<store, query, full, reply>>

\* Slip: the code of the response is recorded and its latency is not.
ReplySentUntimed(t) ==
  /\ pc[t] = "reply"
  /\ sent' = [sent EXCEPT ![t] = @ + 1]
  /\ Record(t, {reply[t].msg.rcode})
  /\ Goto(t, "done")
  /\ UNCHANGED <<store, query, full, reply>>

ReplySent(t) ==
  /\ pc[t] = "reply"
  /\ sent' = [sent EXCEPT ![t] = @ + 1]
  /\ Record(t, {reply[t].msg.rcode, "latencies"})
  /\ Goto(t, "done")
  /\ UNCHANGED <<store, query, full, reply>>

\* send_to or to_bytes fails: `?' leaves the handler at once.
SendFails(t) ==
  /\ pc[t] \in {"refused", "formerr", "reply"}
  /\ Goto(t, "done")
  /\ UNCHANGED <<store, query, full, reply, sent, met>>

Next ==
  \/ \E s \in Stores : Reload(s)
  \/ \E t \in Tasks :
       \/ RateLimited(t) \/ ParseFails(t) \/ Process(t) \/ ProcessFails(t)
       \/ \E q \in Asked : Parsed(t, q)
       \/ RefusalSent(t) \/ FormErrSent(t) \/ ReplySent(t) \/ SendFails(t)

Spec == Init /\ [][Next]_vars
-----------------------------------------------------------------------------
(* Properties *)

TypeOK ==
  /\ store \in Stores
  /\ pc \in [Tasks -> Points]
  /\ query \in [Tasks -> Asked \cup {None}]
  /\ full \in [Tasks -> Responses \cup {None}]
  /\ reply \in [Tasks -> Replies \cup {None}]
  /\ \A t \in Tasks : pc[t] \in {"new", "process"} => reply[t] = None
  /\ sent \in [Tasks -> 0 .. 1]
  /\ met \in [Tasks -> [Counters -> Nat]]

\* No datagram is larger than what the server itself allows: 512 bytes, or its
\* own payload size in a reply with EDNS.  What the client allows is not looked
\* at: see SomePromiseKept.
FitsAdvertised ==
  \A t \in Tasks : reply[t] # None => Size(reply[t].msg) <= MaxUdpSize(reply[t].msg)

\* A client can trust a reply without the TC flag: it is the complete answer,
\* from one state of the zone store.  A reply with the flag keeps the code and
\* the question, lacks something, and has no answers that could pass for all.
TruncationHonest ==
  \A t \in Tasks : reply[t] # None /\ query[t] # None =>
    LET r == reply[t].msg
    IN  IF reply[t].tc
        THEN /\ r.answers = {} /\ r.rcode = full[t].rcode /\ r.question = full[t].question
             /\ r # full[t]
        ELSE \E s \in Stores : r = ProcessQuery(query[t], s)

\* Every datagram is one of a counted query, a counted error and a counted
\* refusal, and a latency is recorded for each reply but the refusals: the
\* averages of get_snapshot divide by these counters.  The one exception is a
\* query whose processing fails: it is a query and an error, and is timed
\* although no reply leaves.
CountedOnce ==
  \A t \in Tasks : pc[t] = "done" =>
    \/ /\ met[t]["total_queries"] + met[t]["errors"] + met[t]["rate_limited"] = 1
       /\ sent[t] = 1 => met[t]["latencies"] + met[t]["rate_limited"] = 1
       /\ sent[t] = 0 => met[t]["latencies"] = 0
    \/ /\ sent[t] = 0 /\ reply[t] = None /\ met[t]["rate_limited"] = 0
       /\ \A k \in {"total_queries", "errors", "latencies"} : met[t][k] = 1

-----------------------------------------------------------------------------
(* What the documentation says of a reply and the code does not do *)

\* The test of server.rs: "EDNS0 max_payload() correctly determines max UDP
\* response size".  A reply fits the size the client gave, 512 bytes at least.
FitsClient(q, r) == Size(r) <= MaxDnsPacketSize \/ Size(r) <= q.payload

Held(zone) == UNION {ToSet(zone.records[k]) : k \in DOMAIN zone.records}

\* The names a name leads to through aliases, however many are between.
Chain(records, name) ==
  LET aliases == {r \in records : r.type = CNAME}
      names == {name} \cup {r.target : r \in aliases}
      Followed(S) == name \in S /\ \A r \in aliases : r.name \in S => r.target \in S
  IN  {n \in names : \A S \in SUBSET names : Followed(S) => n \in S}

\* README.md: "automatically chases CNAMEs to final targets".  The data at the
\* end of a chain within the zone is in the answer.
Chased(q, r, zone) ==
  {d \in Held(zone) : d.name \in Chain(Held(zone), q.name) /\ d.type = q.type} \subseteq r.answers

\* README.md: with the DO flag "lrmdns automatically includes RRSIG records with
\* responses".  Every record of the answer comes with its signatures.
Signed(q, r, zone) ==
  q.do => \A d \in r.answers :
            {g \in Held(zone) : g.type = SIG /\ g.name = d.name /\ g.covers = d.type} \subseteq r.answers

\* A reply keeps at least one of these promises, for a store it can come from:
\* one reply that keeps none refutes each of them.  process_query follows one
\* alias, looks for signatures only at the name and type asked for, and puts the
\* server's own payload size into the reply, which handle_udp_query goes by.
SomePromiseKept ==
  \A t \in Tasks : reply[t] # None /\ query[t] # None =>
    LET q == query[t]
        r == reply[t].msg
    IN  \/ FitsClient(q, r)
        \/ \E s \in Stores : /\ full[t] = ProcessQuery(q, s)
                             /\ \A z \in FindZone(s, q.name) : Chased(q, r, z) \/ Signed(q, r, z)
=============================================================================
