------------------------------- MODULE Metrics -------------------------------
(***************************************************************************)
(* Metrics (metrics.rs) under concurrent use: the handlers of server.rs    *)
(* update one relaxed atomic after another, and get_snapshot, which serves *)
(* GET /metrics (api.rs) and the log, loads them one by one meanwhile.     *)
(*                                                                         *)
(* A handler runs the record_* calls of a request as a script of atomic    *)
(* updates <<operation, counter, amount>>.  Ordering::Relaxed orders the   *)
(* accesses to one atomic and no others, so nothing is assumed of the      *)
(* order of the loads: a snapshot may show of every counter, whatever it   *)
(* shows of the others, any value the counter has between the call of      *)
(* get_snapshot and its return.  This also covers updates of a handler     *)
(* that become visible in another order than that of its script: what is   *)
(* done late in the script may be shown, and what is done early not.       *)
(* query_types, which is cloned under its lock, is given the same freedom. *)
(***************************************************************************)
EXTENDS Integers, SequencesExt

CONSTANTS
  Handlers,     \* tasks that serve requests
  QTypes,       \* query types
  Requests,     \* the scripts of the requests a handler may get
  MaxRequests,  \* bound on the requests of a handler
  U64Max        \* u64::MAX

Plain == {"total_queries", "udp_queries", "tcp_queries", "edns_queries",
          "noerror_responses", "nxdomain_responses", "servfail_responses",
          "refused_responses", "formerr_responses", "total_latency_us",
          "rate_limited", "errors", "tcp_connections", "tcp_queries_per_connection",
          "tcp_connection_timeouts"}
Counters == Plain \cup QTypes \cup {"min_latency_us", "max_latency_us"}

VARIABLES
  val,      \* [Counters -> value of the atomic, or entry of query_types]
  todo,     \* [Handlers -> updates of the request still to do]
  left,     \* [Handlers -> requests to come]
  phase,    \* of get_snapshot: "idle", "loading" or "done"
  snap,     \* [Counters -> the values its load may return]
  inflight, \* history: requests in progress when the snapshot began
  begun     \* history: requests begun before it was done

vars == <<val, todo, left, phase, snap, inflight, begun>>

-----------------------------------------------------------------------------
(* The record_* calls *)

Add(counter, n) == <<"add", counter, n>>

\* Slip: a query over TCP is counted as such only.
RecordQueryTcpApart(protocol, edns) ==
  (IF protocol = "udp_queries" THEN <<Add("total_queries", 1)>> ELSE <<>>)
    \o <<Add(protocol, 1)>> \o (IF edns THEN <<Add("edns_queries", 1)>> ELSE <<>>)

RecordQuery(protocol, edns) ==
  <<Add("total_queries", 1), Add(protocol, 1)>>
    \o (IF edns THEN <<Add("edns_queries", 1)>> ELSE <<>>)

\* Other codes, such as NOTIMP, are not counted.
RecordResponse(rcode) ==
  CASE rcode = "NOERROR" -> <<Add("noerror_responses", 1)>>
    [] rcode = "NXDOMAIN" -> <<Add("nxdomain_responses", 1)>>
    [] rcode = "SERVFAIL" -> <<Add("servfail_responses", 1)>>
    [] rcode = "REFUSED" -> <<Add("refused_responses", 1)>>
    [] rcode = "FORMERR" -> <<Add("formerr_responses", 1)>>
    [] OTHER -> <<>>

\* The map is updated under its write lock; a message without a question has no
\* type.
RecordQueryType(qtype) == IF qtype \in QTypes THEN <<Add(qtype, 1)>> ELSE <<>>

\* Slip: a latency that may be the minimum is not held against the maximum.
RecordLatencyMinOnly(us) ==
  <<Add("total_latency_us", us), <<"min", "min_latency_us", us>> >>

RecordLatency(us) ==
  <<Add("total_latency_us", us), <<"min", "min_latency_us", us>>, <<"max", "max_latency_us", us>> >>

RecordTcpConnection == <<Add("tcp_connections", 1)>>
RecordTcpConnectionClosed(n) == <<Add("tcp_queries_per_connection", n)>>
RecordTcpConnectionTimeout == <<Add("tcp_connection_timeouts", 1)>>
RecordRateLimited == <<Add("rate_limited", 1)>>
RecordError == <<Add("errors", 1)>>

-----------------------------------------------------------------------------
(* The calls the handlers of server.rs make for a request *)

\* A query whose reply cannot be sent is counted as a query and nothing more: the
\* handler ends there.  Otherwise it is answered, or process_query fails.
Unanswered(protocol, edns, qtype) == RecordQuery(protocol, edns) \o RecordQueryType(qtype)
Answered(protocol, edns, qtype, rcode, us) ==
  Unanswered(protocol, edns, qtype) \o RecordResponse(rcode) \o RecordLatency(us)
ProcessingFailed(protocol, edns, qtype, us) ==
  Unanswered(protocol, edns, qtype) \o RecordError \o RecordLatency(us)

\* Slip: a message that cannot be parsed is not counted as an error.
MalformedUncounted == RecordResponse("FORMERR")

\* These are no queries; the response is recorded before it is sent, and the
\* latency after.
Malformed == RecordError \o RecordResponse("FORMERR")
ParseFailed(us) == Malformed \o RecordLatency(us)
Refused == RecordRateLimited \o RecordResponse("REFUSED")
TcpRateLimited(us) == Refused \o RecordLatency(us)

\* Over UDP a refusal is not recorded as a response; over TCP a message of
\* invalid length has none.
UdpRateLimited == RecordRateLimited
InvalidLength == RecordError

\* A TCP connection with one answered query, closed by the idle timeout; and one
\* that breaks while the answer is written.
TcpConnection(qtype, us) ==
  RecordTcpConnection \o Answered("tcp_queries", FALSE, qtype, "NOERROR", us)
    \o RecordTcpConnectionTimeout \o RecordTcpConnectionClosed(1)
TcpConnectionBroken(qtype) == RecordTcpConnection \o Unanswered("tcp_queries", FALSE, qtype)

Protocols == {"udp_queries", "tcp_queries"}
Rcodes == {"NOERROR", "NXDOMAIN", "SERVFAIL", "REFUSED", "FORMERR", "NOTIMP"}
Asked == QTypes \cup {"no question"}
Latencies == 0 .. U64Max - 1

\* The scripts of server.rs.
IsRequest(r) ==
  \/ \E p \in Protocols, e \in BOOLEAN, q \in Asked :
       \/ r = Unanswered(p, e, q)
       \/ \E c \in Rcodes, us \in Latencies : r = Answered(p, e, q, c, us)
       \/ \E us \in Latencies : r = ProcessingFailed(p, e, q, us)
  \/ r \in {Malformed, Refused, UdpRateLimited, InvalidLength}
  \/ \E us \in Latencies : r \in {ParseFailed(us), TcpRateLimited(us)}
  \/ \E q \in Asked : \/ r = TcpConnectionBroken(q)
                      \/ \E us \in Latencies : r = TcpConnection(q, us)

ASSUME MetricsAssumption ==
  /\ MaxRequests \in Nat /\ U64Max \in Nat \ {0}
  /\ IsFiniteSet(Handlers) /\ IsFiniteSet(QTypes)
  /\ QTypes \cap (Plain \cup {"min_latency_us", "max_latency_us"}) = {}
  /\ \A r \in Requests : IsRequest(r)

-----------------------------------------------------------------------------
(* get_snapshot *)

\* Slip: the latencies of all requests are divided by those over UDP.
AverageUdp(s) == IF s["udp_queries"] > 0 THEN s["total_latency_us"] \div s["udp_queries"] ELSE 0

\* The figures derived from the loads, per connection in whole queries.
Average(s) == IF s["total_queries"] > 0 THEN s["total_latency_us"] \div s["total_queries"] ELSE 0
Minimum(s) == IF s["min_latency_us"] = U64Max THEN 0 ELSE s["min_latency_us"]
QueriesPerConnection(s) ==
  IF s["tcp_connections"] > 0
  THEN s["tcp_queries_per_connection"] \div s["tcp_connections"] ELSE 0

\* The figures of a snapshot: what get_metrics answers, and what is logged.  The
\* rate, the total over the uptime, is left out.
GetMetrics(s) ==
  [counts |-> [k \in Plain \cup QTypes |-> s[k]],
   avg |-> Average(s), min |-> Minimum(s), max |-> s["max_latency_us"],
   per_connection |-> QueriesPerConnection(s)]

\* What the snapshot may show of the counters of K.
Reported(K) == {s \in [K -> UNION {snap[k] : k \in K}] : \A k \in K : s[k] \in snap[k]}

-----------------------------------------------------------------------------
\* Metrics::new
Init ==
  /\ val = [k \in Counters |-> IF k = "min_latency_us" THEN U64Max ELSE 0]
  /\ todo = [h \in Handlers |-> <<>>]
  /\ left = [h \in Handlers |-> MaxRequests]
  /\ phase = "idle"
  /\ snap = [k \in Counters |-> {}]
  /\ inflight = 0 /\ begun = 0

Busy == {h \in Handlers : todo[h] # <<>>}

Begin(h, request) ==
  /\ todo[h] = <<>> /\ left[h] > 0
  /\ todo' = [todo EXCEPT ![h] = request]
  /\ left' = [left EXCEPT ![h] = @ - 1]
  /\ begun' = IF phase = "loading" THEN begun + 1 ELSE begun
  /\ UNCHANGED <<val, phase, snap, inflight>>

\* One atomic update: fetch_add, fetch_min or fetch_max.  A snapshot in progress
\* may load the counter before it or after.
Update(h) ==
  /\ todo[h] # <<>>
  /\ LET op == todo[h][1]
     IN  /\ val' = [val EXCEPT ![op[2]] =
              CASE op[1] = "add" -> @ + op[3]
                [] op[1] = "min" -> IF op[3] < @ THEN op[3] ELSE @
                [] op[1] = "max" -> IF op[3] > @ THEN op[3] ELSE @]
         /\ snap' = IF phase = "loading"
                    THEN [snap EXCEPT ![op[2]] = @ \cup {val'[op[2]]}] ELSE snap
  /\ todo' = [todo EXCEPT ![h] = Tail(@)]
  /\ UNCHANGED <<left, phase, inflight, begun>>

\* get_snapshot is called, and it returns.
GetSnapshot ==
  /\ phase = "idle"
  /\ phase' = "loading"
  /\ snap' = [k \in Counters |-> {val[k]}]
  /\ inflight' = Cardinality(Busy)
  /\ UNCHANGED <<val, todo, left, begun>>

Respond ==
  /\ phase = "loading"
  /\ phase' = "done"
  /\ UNCHANGED <<val, todo, left, snap, inflight, begun>>

Next ==
  \/ \E h \in Handlers : Update(h) \/ \E request \in Requests : Begin(h, request)
  \/ GetSnapshot \/ Respond

Spec == Init /\ [][Next]_vars
-----------------------------------------------------------------------------
(* Properties *)

SumOf(f, S) == MapThenSumSet(LAMBDA k : f[k], S)

Overlap == inflight + begun

\* A report of get_snapshot is torn, but never by more than the requests it
\* overlaps, in whatever order its loads are done: the queries and the protocols
\* differ by no more than the requests in progress when it began or begun before
\* it was done, and the types exceed the queries, and EDNS the protocols, by no
\* more.
TornByOverlap ==
  phase = "done" =>
    /\ \A s \in Reported({"total_queries"} \cup Protocols) :
         LET total == s["total_queries"]
             protocols == s["udp_queries"] + s["tcp_queries"]
         IN  total - protocols <= Overlap /\ protocols - total <= Overlap
    /\ \A s \in Reported({"total_queries"} \cup QTypes) :
         SumOf(s, QTypes) - s["total_queries"] <= Overlap
    /\ \A s \in Reported({"edns_queries"} \cup Protocols) :
         s["edns_queries"] - (s["udp_queries"] + s["tcp_queries"]) <= Overlap

Responses == {"noerror_responses", "nxdomain_responses", "servfail_responses",
              "refused_responses", "formerr_responses"}

\* What is loaded where nothing is left to the order of the loads.
Snapshot == [k \in Counters |-> CHOOSE v \in snap[k] : TRUE]

\* A report no request overlaps is exact: it can show one value of each counter,
\* each query has one protocol and at most one type, and each response that was
\* counted belongs to a request that was.
QuietExact ==
  phase = "done" /\ Overlap = 0 =>
    LET r == GetMetrics(Snapshot)
    IN  /\ \A k \in Counters : snap[k] = {Snapshot[k]}
        /\ r.counts["udp_queries"] + r.counts["tcp_queries"] = r.counts["total_queries"]
        /\ SumOf(r.counts, QTypes) <= r.counts["total_queries"]
        /\ SumOf(r.counts, Responses)
             <= r.counts["total_queries"] + r.counts["errors"] + r.counts["rate_limited"]
        /\ r.min <= r.max
        /\ r.per_connection <= r.counts["tcp_queries"]

\* The reported average is not above the reported maximum, unless a request
\* overlaps the snapshot or was timed without being counted as a query; nor below
\* the minimum, unless a query was counted and never answered with a counted code.
AverageWithin ==
  phase = "done" =>
    LET r == GetMetrics(Snapshot)
    IN  Overlap + r.counts["errors"] + r.counts["rate_limited"] = 0
          /\ r.counts["total_queries"] > 0 =>
            /\ r.avg <= r.max
            /\ SumOf(r.counts, Responses) = r.counts["total_queries"] => r.min <= r.avg

\* record_latency is not atomic: the minimum may be known before the maximum,
\* but only while a handler is between the two updates.  (Were the maximum to become
\* visible first, it would be above the minimum all the more.)
ExtremesOrdered ==
  val["min_latency_us"] # U64Max =>
    \/ val["min_latency_us"] <= val["max_latency_us"]
    \/ \E h \in Handlers : todo[h] # <<>> /\ todo[h][1][1] = "max"
=============================================================================
