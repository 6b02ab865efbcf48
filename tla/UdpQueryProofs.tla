--------------------------- MODULE UdpQueryProofs ---------------------------
(***************************************************************************)
(* Proofs about UdpQuery for all zone stores, queries and record sizes.    *)
(***************************************************************************)
EXTENDS UdpQuery, TLAPS

-----------------------------------------------------------------------------
(* The responses *)

Codes == {"NOERROR", "NXDOMAIN", "REFUSED", "FORMERR", "NOTIMP"}

\* r has the fields of a response; its payload size is none or the server's.
Shaped(r) ==
  /\ r = [rcode |-> r.rcode, aa |-> r.aa, question |-> r.question, answers |-> r.answers,
          authority |-> r.authority, payload |-> r.payload]
  /\ r.rcode \in Codes /\ r.question \in BOOLEAN
  /\ r.payload \in {0, OurPayload}

LEMMA RecordShaped ==
  ASSUME NEW c \in Codes, NEW a, NEW q \in BOOLEAN, NEW an, NEW au, NEW p \in {0, OurPayload}
  PROVE  Shaped([rcode |-> c, aa |-> a, question |-> q, answers |-> an, authority |-> au,
                 payload |-> p])
BY DEF Shaped

LEMMA ResponseShaped ==
  ASSUME NEW q, NEW s PROVE Shaped(ProcessQuery(q, s))
<1>1. \A z : Shaped(Answer(q, z))
  BY RecordShaped DEF Answer, Codes
<1>2. \A c \in Codes, question \in BOOLEAN : \A a : Shaped(Bare(c, a, question))
  BY RecordShaped DEF Bare
<1> QED
  BY <1>1, <1>2 DEF ProcessQuery, Codes

\* What is left when both sections are removed fits any limit.
LEMMA MinimalFits ==
  ASSUME NEW r, Shaped(r), r.answers = {}, r.authority = {}
  PROVE  Size(r) <= MaxUdpSize(r)
BY UdpAssumption
   DEF Shaped, Size, MaxUdpSize, HeaderSize, OptSize, OurPayload, MaxDnsPacketSize

\* The messages Encode makes of a response.
LEMMA EncodeCases ==
  ASSUME NEW r \in Responses, Shaped(r)
  PROVE  /\ Size(Encode(r).msg) <= MaxUdpSize(Encode(r).msg)
         /\ IF Encode(r).tc
            THEN /\ Encode(r).msg.answers = {} /\ Encode(r).msg.rcode = r.rcode
                 /\ Encode(r).msg.question = r.question /\ Encode(r).msg # r
            ELSE Encode(r).msg = r
<1> DEFINE noAnswers == [r EXCEPT !.answers = {}]
           minimal == [noAnswers EXCEPT !.authority = {}]
<1>0. /\ noAnswers = [rcode |-> r.rcode, aa |-> r.aa, question |-> r.question, answers |-> {},
                       authority |-> r.authority, payload |-> r.payload]
      /\ minimal = [rcode |-> r.rcode, aa |-> r.aa, question |-> r.question, answers |-> {},
                     authority |-> {}, payload |-> r.payload]
  <2>1. PICK c, a, q, an, au, p :
          r = [rcode |-> c, aa |-> a, question |-> q, answers |-> an, authority |-> au,
               payload |-> p]
    BY Zenon DEF Shaped
  <2>2. noAnswers = [rcode |-> c, aa |-> a, question |-> q, answers |-> {}, authority |-> au,
                     payload |-> p]
    BY <2>1
  <2>3. minimal = [rcode |-> c, aa |-> a, question |-> q, answers |-> {}, authority |-> {},
                   payload |-> p]
    <3> HIDE DEF noAnswers
    <3> QED BY <2>2
  <2>4. r.rcode = c /\ r.aa = a /\ r.question = q /\ r.authority = au /\ r.payload = p
    BY <2>1
  <2> QED BY <2>2, <2>3, <2>4
<1> HIDE DEF noAnswers, minimal
<1>1. /\ Size(r) \in Nat /\ MaxUdpSize(r) \in Nat
  BY UdpAssumption DEF Shaped, Size, MaxUdpSize, HeaderSize, OptSize, OurPayload, MaxDnsPacketSize
<1>2. /\ Shaped(noAnswers) /\ Shaped(minimal)
      /\ noAnswers.answers = {} /\ minimal.answers = {} /\ minimal.authority = {}
      /\ noAnswers.rcode = r.rcode /\ minimal.rcode = r.rcode
      /\ noAnswers.question = r.question /\ minimal.question = r.question
      /\ MaxUdpSize(noAnswers) = MaxUdpSize(r)
  BY <1>0, RecordShaped DEF Shaped, MaxUdpSize
<1>3. CASE Size(r) <= MaxUdpSize(r)
  BY <1>3, <1>1 DEF Encode
<1>4. CASE Size(r) > MaxUdpSize(r) /\ Size(noAnswers) <= MaxUdpSize(r)
  <2>1. Encode(r) = [tc |-> TRUE, msg |-> noAnswers]
    BY <1>4, <1>1 DEF Encode, noAnswers
  <2>2. noAnswers # r
    BY <1>4, <1>1
  <2> QED BY <1>2, <1>4, <2>1, <2>2
<1>5. CASE Size(r) > MaxUdpSize(r) /\ ~(Size(noAnswers) <= MaxUdpSize(r))
  <2>1. Encode(r) = [tc |-> TRUE, msg |-> minimal]
    BY <1>5, <1>1 DEF Encode, noAnswers, minimal
  <2>2. Size(minimal) <= MaxUdpSize(minimal)
    BY <1>2, MinimalFits
  <2>3. minimal # r
    BY <1>5, <1>1, <2>2
  <2> QED BY <1>2, <2>1, <2>2, <2>3
<1> QED BY <1>1, <1>3, <1>4, <1>5

-----------------------------------------------------------------------------
(* The inductive invariant *)

\* How often the handler of t counted its datagram so far.
Tally(t, queries, errors, limited, latencies) ==
  /\ met[t]["total_queries"] = queries /\ met[t]["errors"] = errors
  /\ met[t]["rate_limited"] = limited /\ met[t]["latencies"] = latencies

\* Where a reply comes from.
Origin(t) ==
  \/ /\ query[t] = None
     /\ reply[t] \in {Refusal, FormErr}
  \/ /\ query[t] \in Asked
     /\ \E s \in Stores : full[t] = ProcessQuery(query[t], s) /\ reply[t] = Encode(full[t])

TaskInv(t) ==
  /\ pc[t] \in {"refused", "formerr", "reply"} => Origin(t)
  /\ pc[t] = "done" => Origin(t) \/ reply[t] = None
  /\ pc[t] = "new" => query[t] = None /\ Tally(t, 0, 0, 0, 0)
  /\ pc[t] = "process" => query[t] \in Asked
  /\ pc[t] \in {"process", "reply"} => Tally(t, 1, 0, 0, 0)
  /\ pc[t] = "refused" => Tally(t, 0, 0, 1, 0)
  /\ pc[t] = "formerr" => Tally(t, 0, 1, 0, 0)
  /\ pc[t] # "done" => sent[t] = 0
  /\ pc[t] = "done" =>
       \/ sent[t] = 0 /\ (Tally(t, 1, 0, 0, 0) \/ Tally(t, 0, 1, 0, 0) \/ Tally(t, 0, 0, 1, 0))
       \/ sent[t] = 0 /\ reply[t] = None /\ Tally(t, 1, 1, 0, 1)
       \/ sent[t] = 1 /\ (Tally(t, 1, 0, 0, 1) \/ Tally(t, 0, 1, 0, 1) \/ Tally(t, 0, 0, 1, 0))

IInv == TypeOK /\ \A t \in Tasks : TaskInv(t)

LEMMA CounterNames ==
  {"total_queries", "errors", "rate_limited", "latencies"} \subseteq Counters
BY DEF Counters

LEMMA InitInv == Init => IInv
BY CounterNames DEF Init, IInv, TypeOK, TaskInv, Tally, Points

\* A step of t touches t only.
LEMMA Frame ==
  ASSUME IInv, NEW t \in Tasks, NEW point \in Points, NEW q \in Asked \cup {None},
         NEW f \in Responses \cup {None}, NEW r \in Replies \cup {None}, NEW n \in 0 .. 1, NEW m \in [Counters -> Nat],
         store' = store,
         pc' = [pc EXCEPT ![t] = point], query' = [query EXCEPT ![t] = q],
         full' = [full EXCEPT ![t] = f], reply' = [reply EXCEPT ![t] = r],
         sent' = [sent EXCEPT ![t] = n], met' = [met EXCEPT ![t] = m],
         point \in {"new", "process"} => r = None,
         TaskInv(t)'
  PROVE  IInv'
<1>1. TypeOK'
  BY DEF IInv, TypeOK
<1>2. ASSUME NEW u \in Tasks, u # t PROVE TaskInv(u)'
  <2>1. /\ pc'[u] = pc[u] /\ query'[u] = query[u] /\ full'[u] = full[u]
        /\ reply'[u] = reply[u] /\ sent'[u] = sent[u] /\ met'[u] = met[u]
    BY <1>2 DEF IInv, TypeOK
  <2>2. Origin(u)' <=> Origin(u)
    BY <2>1 DEF Origin
  <2>3. \A a, b, c, d : Tally(u, a, b, c, d)' <=> Tally(u, a, b, c, d)
    BY <2>1 DEF Tally
  <2>4. TaskInv(u)
    BY DEF IInv
  <2> QED BY <2>1, <2>2, <2>3, <2>4 DEF TaskInv
<1> QED BY <1>1, <1>2 DEF IInv

\* What TypeOK says of one task.
LEMMA TaskTypes ==
  ASSUME IInv, NEW t \in Tasks
  PROVE  /\ query[t] \in Asked \cup {None} /\ full[t] \in Responses \cup {None}
         /\ reply[t] \in Replies \cup {None}
         /\ sent[t] \in 0 .. 1 /\ met[t] \in [Counters -> Nat]
         /\ query = [query EXCEPT ![t] = query[t]] /\ full = [full EXCEPT ![t] = full[t]]
         /\ reply = [reply EXCEPT ![t] = reply[t]] /\ sent = [sent EXCEPT ![t] = sent[t]]
         /\ met = [met EXCEPT ![t] = met[t]]
         /\ t \in DOMAIN pc /\ t \in DOMAIN query /\ t \in DOMAIN full /\ t \in DOMAIN reply
         /\ t \in DOMAIN sent /\ t \in DOMAIN met
         /\ TaskInv(t)
BY DEF IInv, TypeOK

LEMMA RecordEffect ==
  ASSUME IInv, NEW t \in Tasks, NEW S, Record(t, S)
  PROVE  \E m \in [Counters -> Nat] :
           /\ met' = [met EXCEPT ![t] = m] /\ met'[t] = m
           /\ \A k \in Counters : m[k] = IF k \in S THEN met[t][k] + 1 ELSE met[t][k]
<1> DEFINE m == [k \in Counters |-> met[t][k] + IF k \in S THEN 1 ELSE 0]
<1>1. m \in [Counters -> Nat]
  BY TaskTypes
<1>2. met' = [met EXCEPT ![t] = m] /\ met'[t] = m
  BY TaskTypes DEF Record
<1>3. \A k \in Counters : m[k] = IF k \in S THEN met[t][k] + 1 ELSE met[t][k]
  BY TaskTypes
<1> QED BY <1>1, <1>2, <1>3

\* The code of a reply is not the name of another counter.
LEMMA ReplyCode ==
  ASSUME IInv, NEW t \in Tasks, pc[t] = "reply"
  PROVE  reply[t].msg.rcode \notin {"total_queries", "errors", "rate_limited", "latencies"}
<1>1. Origin(t)
  BY TaskTypes DEF TaskInv
<1>2. CASE reply[t] \in {Refusal, FormErr}
  BY <1>2 DEF Bare, Refusal, FormErr
<1>3. CASE query[t] \in Asked /\ \E s \in Stores : full[t] = ProcessQuery(query[t], s)
                                               /\ reply[t] = Encode(full[t])
  <2>1. full[t] \in Responses /\ Shaped(full[t])
    BY <1>3, ResponseShaped DEF Responses
  <2>2. reply[t].msg.rcode = full[t].rcode
    BY <1>3, <2>1, EncodeCases
  <2> QED BY <2>1, <2>2 DEF Shaped, Codes
<1> QED BY <1>1, <1>2, <1>3 DEF Origin

\* The first answer to a datagram: limited, malformed or parsed.
LEMMA FirstStep ==
  ASSUME IInv, NEW t \in Tasks,
         RateLimited(t) \/ ParseFails(t) \/ \E q \in Asked : Parsed(t, q)
  PROVE  IInv'
<1>0. Points = {"new", "process", "refused", "formerr", "reply", "done"}
  BY DEF Points
<1>1. CASE RateLimited(t)
  <2>1. /\ pc[t] = "new" /\ pc' = [pc EXCEPT ![t] = "refused"] /\ Record(t, {"rate_limited"})
        /\ reply' = [reply EXCEPT ![t] = Refusal] /\ UNCHANGED <<store, query, full, sent>>
    BY <1>1 DEF RateLimited, Goto
  <2>2. PICK m \in [Counters -> Nat] :
          /\ met' = [met EXCEPT ![t] = m] /\ met'[t] = m
          /\ \A k \in Counters : m[k] = IF k \in {"rate_limited"} THEN met[t][k] + 1 ELSE met[t][k]
    BY <2>1, RecordEffect
  <2>3. Tally(t, 0, 0, 1, 0)'
    BY <2>1, <2>2, TaskTypes, CounterNames DEF TaskInv, Tally
  <2>4. Origin(t)'
    BY <2>1, TaskTypes DEF TaskInv, Origin
  <2>5. TaskInv(t)'
    BY <2>1, <2>3, <2>4, TaskTypes DEF TaskInv
  <2>6. /\ query' = [query EXCEPT ![t] = query[t]] /\ query[t] \in Asked \cup {None}
        /\ full' = [full EXCEPT ![t] = full[t]] /\ full[t] \in Responses \cup {None}
        /\ sent' = [sent EXCEPT ![t] = sent[t]] /\ sent[t] \in 0 .. 1
    BY <2>1, TaskTypes
  <2>7. Refusal \in Replies \cup {None} /\ "refused" \in Points
    BY <1>0 DEF Replies
  <2>8. met' = [met EXCEPT ![t] = m]
    BY <2>2
  <2> QED BY <2>1, <2>8, <2>5, <2>6, <2>7, Frame
<1>2. CASE ParseFails(t)
  <2> DEFINE S == {"errors", "FORMERR"}
  <2>1. /\ pc[t] = "new" /\ pc' = [pc EXCEPT ![t] = "formerr"] /\ Record(t, S)
        /\ reply' = [reply EXCEPT ![t] = FormErr] /\ UNCHANGED <<store, query, full, sent>>
    BY <1>2 DEF ParseFails, Goto
  <2>2. PICK m \in [Counters -> Nat] :
          /\ met' = [met EXCEPT ![t] = m] /\ met'[t] = m
          /\ \A k \in Counters : m[k] = IF k \in S THEN met[t][k] + 1 ELSE met[t][k]
    BY <2>1, RecordEffect
  <2>3. Tally(t, 0, 1, 0, 0)'
    BY <2>1, <2>2, TaskTypes, CounterNames DEF TaskInv, Tally
  <2>4. Origin(t)'
    BY <2>1, TaskTypes DEF TaskInv, Origin
  <2>5. TaskInv(t)'
    BY <2>1, <2>3, <2>4, TaskTypes DEF TaskInv
  <2>6. /\ query' = [query EXCEPT ![t] = query[t]] /\ query[t] \in Asked \cup {None}
        /\ full' = [full EXCEPT ![t] = full[t]] /\ full[t] \in Responses \cup {None}
        /\ sent' = [sent EXCEPT ![t] = sent[t]] /\ sent[t] \in 0 .. 1
    BY <2>1, TaskTypes
  <2>7. FormErr \in Replies \cup {None} /\ "formerr" \in Points
    BY <1>0 DEF Replies
  <2>8. met' = [met EXCEPT ![t] = m]
    BY <2>2
  <2> QED BY <2>1, <2>8, <2>5, <2>6, <2>7, Frame
<1>3. ASSUME NEW q \in Asked, Parsed(t, q) PROVE IInv'
  <2> DEFINE S == {"total_queries", "udp_queries"}
                    \cup (IF q.payload # 0 THEN {"edns_queries"} ELSE {})
  <2>1. /\ pc[t] = "new" /\ pc' = [pc EXCEPT ![t] = "process"] /\ Record(t, S)
        /\ query' = [query EXCEPT ![t] = q] /\ UNCHANGED <<store, full, reply, sent>>
    BY <1>3 DEF Parsed, Goto
  <2>2. PICK m \in [Counters -> Nat] :
          /\ met' = [met EXCEPT ![t] = m] /\ met'[t] = m
          /\ \A k \in Counters : m[k] = IF k \in S THEN met[t][k] + 1 ELSE met[t][k]
    BY <2>1, RecordEffect
  <2>3. Tally(t, 1, 0, 0, 0)'
    BY <2>1, <2>2, TaskTypes, CounterNames DEF TaskInv, Tally
  <2>4. reply[t] = None
    BY <2>1 DEF IInv, TypeOK
  <2>5. TaskInv(t)'
    BY <2>1, <2>3, TaskTypes DEF TaskInv
  <2>6. /\ full' = [full EXCEPT ![t] = full[t]] /\ full[t] \in Responses \cup {None}
        /\ reply' = [reply EXCEPT ![t] = reply[t]] /\ reply[t] \in Replies \cup {None}
        /\ sent' = [sent EXCEPT ![t] = sent[t]] /\ sent[t] \in 0 .. 1
    BY <2>1, TaskTypes
  <2>7. q \in Asked \cup {None} /\ "process" \in Points
    BY <1>0
  <2>8. met' = [met EXCEPT ![t] = m]
    BY <2>2
  <2> QED BY <2>1, <2>8, <2>4, <2>5, <2>6, <2>7, Frame
<1> QED BY <1>1, <1>2, <1>3

LEMMA ProcessStep == ASSUME IInv, NEW t \in Tasks, Process(t) PROVE IInv'
<1> DEFINE r == ProcessQuery(query[t], store)
<1>1. /\ pc[t] = "process" /\ pc' = [pc EXCEPT ![t] = "reply"]
      /\ full' = [full EXCEPT ![t] = r] /\ reply' = [reply EXCEPT ![t] = Encode(r)]
      /\ UNCHANGED <<store, query, sent, met>>
  BY DEF Process, Goto
<1>2. query[t] \in Asked /\ store \in Stores
  BY <1>1 DEF IInv, TypeOK, TaskInv
<1>3. r \in Responses /\ Encode(r) \in Replies /\ "reply" \in Points
  BY <1>2 DEF Responses, Replies, Points
<1> HIDE DEF r
<1>4. Origin(t)'
  <2>1. full'[t] = r /\ reply'[t] = Encode(r) /\ query'[t] = query[t]
    BY <1>1, TaskTypes
  <2>2. \E s \in Stores : r = ProcessQuery(query[t], s)
    BY <1>2 DEF r
  <2> QED BY <1>2, <2>1, <2>2 DEF Origin
<1>5. Tally(t, 1, 0, 0, 0)'
  BY <1>1, TaskTypes DEF TaskInv, Tally
<1>6. TaskInv(t)'
  BY <1>1, <1>4, <1>5, TaskTypes DEF TaskInv
<1>7. /\ query' = [query EXCEPT ![t] = query[t]] /\ query[t] \in Asked \cup {None}
      /\ sent' = [sent EXCEPT ![t] = sent[t]] /\ sent[t] \in 0 .. 1
      /\ met' = [met EXCEPT ![t] = met[t]] /\ met[t] \in [Counters -> Nat]
  BY <1>1, TaskTypes
<1>8. r \in Responses \cup {None} /\ Encode(r) \in Replies \cup {None}
  BY <1>3
<1> QED BY <1>1, <1>3, <1>6, <1>7, <1>8, Frame

LEMMA ProcessFailsStep == ASSUME IInv, NEW t \in Tasks, ProcessFails(t) PROVE IInv'
<1> DEFINE S == {"errors", "latencies"}
<1>1. /\ pc[t] = "process" /\ pc' = [pc EXCEPT ![t] = "done"] /\ Record(t, S)
      /\ UNCHANGED <<store, query, full, reply, sent>>
  BY DEF ProcessFails, Goto
<1>2. PICK m \in [Counters -> Nat] :
        /\ met' = [met EXCEPT ![t] = m] /\ met'[t] = m
        /\ \A k \in Counters : m[k] = IF k \in S THEN met[t][k] + 1 ELSE met[t][k]
  BY <1>1, RecordEffect
<1>3. Tally(t, 1, 1, 0, 1)'
  BY <1>1, <1>2, TaskTypes, CounterNames DEF TaskInv, Tally
<1>4. reply[t] = None
  BY <1>1 DEF IInv, TypeOK
<1>5. TaskInv(t)'
  BY <1>1, <1>3, <1>4, TaskTypes DEF TaskInv
<1>6. /\ query' = [query EXCEPT ![t] = query[t]] /\ query[t] \in Asked \cup {None}
      /\ full' = [full EXCEPT ![t] = full[t]] /\ full[t] \in Responses \cup {None}
      /\ reply' = [reply EXCEPT ![t] = reply[t]] /\ reply[t] \in Replies \cup {None}
      /\ sent' = [sent EXCEPT ![t] = sent[t]] /\ sent[t] \in 0 .. 1
  BY <1>1, TaskTypes
<1>7. /\ met' = [met EXCEPT ![t] = m] /\ "done" \in Points
      /\ "done" \notin {"new", "process"} /\ store' = store
      /\ pc' = [pc EXCEPT ![t] = "done"]
  BY <1>1, <1>2 DEF Points
<1> QED BY <1>5, <1>6, <1>7, Frame

\* A datagram leaves: only the control point, `sent' and the counters change.
LEMMA SentStep ==
  ASSUME IInv, NEW t \in Tasks, RefusalSent(t) \/ FormErrSent(t) \/ ReplySent(t) \/ SendFails(t)
  PROVE  IInv'
<1>1. /\ pc[t] \in {"refused", "formerr", "reply"} /\ pc' = [pc EXCEPT ![t] = "done"]
      /\ "done" \in Points /\ UNCHANGED <<store, query, full, reply>>
  BY DEF RefusalSent, FormErrSent, ReplySent, SendFails, Goto, Points
<1>2. Origin(t)'
  BY <1>1, TaskTypes DEF TaskInv, Origin
<1>3. sent[t] = 0
  BY <1>1, TaskTypes DEF TaskInv
<1>7. /\ query' = [query EXCEPT ![t] = query[t]] /\ query[t] \in Asked \cup {None}
      /\ full' = [full EXCEPT ![t] = full[t]] /\ full[t] \in Responses \cup {None}
      /\ reply' = [reply EXCEPT ![t] = reply[t]] /\ reply[t] \in Replies \cup {None}
  BY <1>1, TaskTypes
<1>4. CASE RefusalSent(t) \/ SendFails(t)
  <2>1. PICK n \in 0 .. 1 :
          /\ sent' = [sent EXCEPT ![t] = n] /\ met' = met /\ (n = 1 => pc[t] = "refused")
    BY <1>3, <1>4, TaskTypes DEF RefusalSent, SendFails
  <2>2. sent'[t] = n /\ met'[t] = met[t] /\ pc'[t] = "done"
    BY <1>1, <2>1, TaskTypes
  <2>3. \A a, b, c, d : Tally(t, a, b, c, d)' <=> Tally(t, a, b, c, d)
    BY <2>2 DEF Tally
  <2>4. TaskInv(t)'
    BY <1>1, <1>2, <2>1, <2>2, <2>3, TaskTypes DEF TaskInv
  <2>5. met' = [met EXCEPT ![t] = met[t]] /\ met[t] \in [Counters -> Nat]
    BY <2>1, TaskTypes
  <2> QED BY <1>1, <1>7, <2>1, <2>4, <2>5, Frame
<1>5. CASE FormErrSent(t)
  <2>1. /\ sent' = [sent EXCEPT ![t] = 1] /\ Record(t, {"latencies"}) /\ pc[t] = "formerr"
    BY <1>3, <1>5, TaskTypes DEF FormErrSent
  <2>2. PICK m \in [Counters -> Nat] :
          /\ met' = [met EXCEPT ![t] = m] /\ met'[t] = m
          /\ \A k \in Counters : m[k] = IF k \in {"latencies"} THEN met[t][k] + 1 ELSE met[t][k]
    BY <2>1, RecordEffect
  <2>3. Tally(t, 0, 1, 0, 1)'
    BY <2>1, <2>2, TaskTypes, CounterNames DEF TaskInv, Tally
  <2>4. TaskInv(t)'
    BY <1>1, <1>2, <2>1, <2>3, TaskTypes DEF TaskInv
  <2>8. met' = [met EXCEPT ![t] = m]
    BY <2>2
  <2>9. sent' = [sent EXCEPT ![t] = 1] /\ 1 \in 0 .. 1 /\ "done" \notin {"new", "process"}
    BY <2>1
  <2> QED BY <1>1, <1>7, <2>8, <2>9, <2>4, Frame
<1>6. CASE ReplySent(t)
  <2> DEFINE S == {reply[t].msg.rcode, "latencies"}
  <2>1. /\ sent' = [sent EXCEPT ![t] = 1] /\ Record(t, S) /\ pc[t] = "reply"
    BY <1>3, <1>6, TaskTypes DEF ReplySent
  <2>2. PICK m \in [Counters -> Nat] :
          /\ met' = [met EXCEPT ![t] = m] /\ met'[t] = m
          /\ \A k \in Counters : m[k] = IF k \in S THEN met[t][k] + 1 ELSE met[t][k]
    BY <2>1, RecordEffect
  <2>3. S \cap {"total_queries", "errors", "rate_limited", "latencies"} = {"latencies"}
    BY <2>1, ReplyCode
  <2>4. Tally(t, 1, 0, 0, 1)'
    <3>1. Tally(t, 1, 0, 0, 0)
      BY <2>1, TaskTypes DEF TaskInv
    <3>2. "latencies" \in S /\ "total_queries" \notin S /\ "errors" \notin S
            /\ "rate_limited" \notin S
      BY <2>3
    <3> HIDE DEF S
    <3> QED BY <2>2, <3>1, <3>2, CounterNames DEF Tally
  <2>5. TaskInv(t)'
    BY <1>1, <1>2, <2>1, <2>4, TaskTypes DEF TaskInv
  <2>8. met' = [met EXCEPT ![t] = m]
    BY <2>2
  <2>9. sent' = [sent EXCEPT ![t] = 1] /\ 1 \in 0 .. 1 /\ "done" \notin {"new", "process"}
    BY <2>1
  <2> QED BY <1>1, <1>7, <2>8, <2>9, <2>5, Frame
<1> QED BY <1>4, <1>5, <1>6

LEMMA StepInv == IInv /\ [Next]_vars => IInv'
<1> SUFFICES ASSUME IInv, [Next]_vars PROVE IInv'
  OBVIOUS
<1>1. CASE UNCHANGED vars \/ \E s \in Stores : Reload(s)
  <2>1. UNCHANGED <<pc, query, full, reply, sent, met>> /\ store' \in Stores
    BY <1>1 DEF Reload, vars, IInv, TypeOK
  <2>2. TypeOK'
    BY <2>1 DEF IInv, TypeOK
  <2>3. \A t \in Tasks : TaskInv(t)'
    BY <2>1 DEF IInv, TaskInv, Origin, Tally
  <2> QED BY <2>2, <2>3 DEF IInv
<1>2. ASSUME NEW t \in Tasks,
             \/ RateLimited(t) \/ ParseFails(t) \/ Process(t) \/ ProcessFails(t)
             \/ \E q \in Asked : Parsed(t, q)
             \/ RefusalSent(t) \/ FormErrSent(t) \/ ReplySent(t) \/ SendFails(t)
      PROVE  IInv'
  BY <1>2, FirstStep, ProcessStep, ProcessFailsStep, SentStep
<1> QED BY <1>1, <1>2 DEF Next

-----------------------------------------------------------------------------
(* Theorems *)

\* The control points, messages and counters of handle_udp_query have the
\* types TypeOK gives them.
THEOREM TypeCorrect == Spec => []TypeOK
<1>1. IInv => TypeOK
  BY DEF IInv
<1> QED BY <1>1, InitInv, StepInv, PTL DEF Spec

\* No UDP reply exceeds the limit the server sets itself (512 bytes, or its own
\* payload size with EDNS), whatever the zones hold: removing the two sections
\* is always enough.
THEOREM DatagramFits == Spec => []FitsAdvertised
<1>1. IInv => FitsAdvertised
  <2> SUFFICES ASSUME IInv, NEW t \in Tasks, reply[t] # None
               PROVE  Size(reply[t].msg) <= MaxUdpSize(reply[t].msg)
    BY DEF FitsAdvertised
  <2>1. Origin(t)
    BY DEF IInv, TypeOK, TaskInv, Points
  <2>2. CASE reply[t] \in {Refusal, FormErr}
    <3>1. Shaped(reply[t].msg) /\ reply[t].msg.answers = {} /\ reply[t].msg.authority = {}
      <4>1. \A c \in Codes : Shaped(Bare(c, FALSE, FALSE))
        BY RecordShaped DEF Bare
      <4>2. \A c : Bare(c, FALSE, FALSE).answers = {} /\ Bare(c, FALSE, FALSE).authority = {}
        BY DEF Bare
      <4>3. \A b : [tc |-> FALSE, msg |-> b].msg = b
        OBVIOUS
      <4>4. \/ reply[t].msg = Bare("REFUSED", FALSE, FALSE)
            \/ reply[t].msg = Bare("FORMERR", FALSE, FALSE)
        BY <2>2, <4>3, Zenon DEF Refusal, FormErr
      <4> QED BY <4>1, <4>2, <4>4 DEF Codes
    <3> QED BY <3>1, MinimalFits
  <2>3. CASE query[t] \in Asked /\ \E s \in Stores : full[t] = ProcessQuery(query[t], s)
                                                 /\ reply[t] = Encode(full[t])
    <3>1. full[t] \in Responses /\ Shaped(full[t])
      BY <2>3, ResponseShaped DEF Responses
    <3> QED BY <2>3, <3>1, EncodeCases
  <2> QED BY <2>1, <2>2, <2>3 DEF Origin
<1> QED BY <1>1, InitInv, StepInv, PTL DEF Spec

\* A reply without TC is the complete answer of one zone store, and a reply
\* with TC was shortened and has no answers.
THEOREM Honest == Spec => []TruncationHonest
<1>1. IInv => TruncationHonest
  <2> SUFFICES ASSUME IInv, NEW t \in Tasks, reply[t] # None, query[t] # None
               PROVE  IF reply[t].tc
                      THEN /\ reply[t].msg.answers = {} /\ reply[t].msg.rcode = full[t].rcode
                           /\ reply[t].msg.question = full[t].question
                           /\ reply[t].msg # full[t]
                      ELSE \E s \in Stores : reply[t].msg = ProcessQuery(query[t], s)
    BY DEF TruncationHonest
  <2>1. Origin(t)
    BY DEF IInv, TypeOK, TaskInv, Points
  <2>2. PICK s \in Stores : full[t] = ProcessQuery(query[t], s) /\ reply[t] = Encode(full[t])
    BY <2>1 DEF Origin
  <2>3. full[t] \in Responses /\ Shaped(full[t])
    BY <2>1, <2>2, ResponseShaped DEF Origin, Responses
  <2> QED BY <2>2, <2>3, EncodeCases
<1> QED BY <1>1, InitInv, StepInv, PTL DEF Spec

\* Every datagram is counted as exactly one of query, error and refusal, and
\* its latency once when a reply other than a refusal left; only a query whose
\* processing fails is counted twice, as a query and as an error.
THEOREM Counting == Spec => []CountedOnce
<1>1. IInv => CountedOnce
  BY DEF IInv, TaskInv, Tally, CountedOnce
<1> QED BY <1>1, InitInv, StepInv, PTL DEF Spec
=============================================================================
