---------------------------- MODULE TcpConnection ----------------------------
(***************************************************************************)
(* handle_tcp_connection (server.rs): the life of the TCP connections, and *)
(* what each of them adds to the shared counters of metrics.rs.            *)
(*                                                                         *)
(* A message is its kind: one that does not parse, a zone transfer request *)
(* or an ordinary query.  The answer of the rate limiter and the response  *)
(* code are inputs; RateLimiter and ZoneReload model where they come from. *)
(* A counter is the sum over all connections of what each one added.       *)
(*                                                                         *)
(* The zone store's RwLock is here as far as a connection can wait for it: *)
(* a transfer holds the read guard until its last message is written, a    *)
(* reload queues for the write lock, and nobody enters behind a queued     *)
(* writer.  All other readers hold the guard without an await, so for them *)
(* taking and giving it back is one step.                                  *)
(***************************************************************************)
EXTENDS Integers

CONSTANTS
  Conns,        \* TCP connections
  MaxQueries,   \* max_queries_per_connection; 0 closes at once
  IdleTimeout   \* idle_timeout, in ticks

ASSUME TcpAssumption == MaxQueries \in Nat /\ IdleTimeout \in Nat

VARIABLES
  pc,       \* [Conns -> control point]
  handled,  \* [Conns -> queries_handled]
  waited,   \* [Conns -> ticks since the read of the length prefix began]
  replies,  \* history: [Conns -> messages or transfers completely written]
  met,      \* [Conns -> [Counters -> Nat]]; "latencies" counts record_latency calls
  writer    \* "queued" while a reload waits for the write lock of the zone store

vars == <<pc, handled, waited, replies, met, writer>>

Counters == {"tcp_connections", "tcp_queries_per_connection", "tcp_connection_timeouts",
             "total_queries", "tcp_queries", "latencies", "rate_limited", "errors", "noerror_responses",
             "nxdomain_responses", "refused_responses", "formerr_responses"}

\* One point per await: "head" and "body" read, "xferlock" and "lookup" wait for
\* the store's read lock, "final", "xfer" and "process" write.
Points == {"new", "loop", "head", "body", "xferlock", "lookup",
           "final", "xfer", "process", "done"}

\* record_response has a counter for these codes and ignores all others.
Counted == {"noerror_responses", "nxdomain_responses", "refused_responses", "formerr_responses"}
Codes == Counted \cup {"notimp"}

\* record_query; the EDNS and query type counters depend on the message only.
Query == {"total_queries", "tcp_queries"}

Goto(c, point) == pc' = [pc EXCEPT ![c] = point]

\* The record_* calls of one step, each of which adds one.
Record(c, counters) ==
  met' = [met EXCEPT ![c] = [k \in Counters |-> IF k \in counters THEN @[k] + 1 ELSE @[k]]]

\* Slip: the query that never came is counted too.
ClosedCountsCurrent(c, counters) ==
  met' = [met EXCEPT ![c] = [k \in Counters |->
            IF k = "tcp_queries_per_connection" THEN @[k] + handled[c] + 1
            ELSE IF k \in counters THEN @[k] + 1 ELSE @[k]]]

\* record_tcp_connection_closed(queries_handled), after the calls in `counters'.
Closed(c, counters) ==
  met' = [met EXCEPT ![c] = [k \in Counters |->
            IF k = "tcp_queries_per_connection" THEN @[k] + handled[c]
            ELSE IF k \in counters THEN @[k] + 1 ELSE @[k]]]

-----------------------------------------------------------------------------
Init ==
  /\ pc = [c \in Conns |-> "new"]
  /\ handled = [c \in Conns |-> 0]
  /\ waited = [c \in Conns |-> 0]
  /\ replies = [c \in Conns |-> 0]
  /\ met = [c \in Conns |-> [k \in Counters |-> 0]]
  /\ writer = "none"

Accept(c) ==
  /\ pc[c] = "new"
  /\ Record(c, {"tcp_connections"})
  /\ Goto(c, "loop")
  /\ UNCHANGED <<handled, waited, replies, writer>>

LimitReached(c) ==
  /\ pc[c] = "loop" /\ handled[c] >= MaxQueries
  /\ Closed(c, {})
  /\ Goto(c, "done")
  /\ UNCHANGED <<handled, waited, replies, writer>>

\* Slip: one query more than the limit.
AwaitLengthLate(c) ==
  /\ pc[c] = "loop" /\ handled[c] <= MaxQueries
  /\ waited' = [waited EXCEPT ![c] = 0]
  /\ Goto(c, "head")
  /\ UNCHANGED <<handled, replies, met, writer>>

AwaitLength(c) ==
  /\ pc[c] = "loop" /\ handled[c] < MaxQueries
  /\ waited' = [waited EXCEPT ![c] = 0]
  /\ Goto(c, "head")
  /\ UNCHANGED <<handled, replies, met, writer>>

\* Time passes for all connections at once; beyond the timeout it is no
\* longer told apart.
Tick ==
  /\ \E c \in Conns : pc[c] = "head" /\ waited[c] < IdleTimeout
  /\ waited' = [c \in Conns |-> IF pc[c] = "head" /\ waited[c] < IdleTimeout
                                THEN waited[c] + 1 ELSE waited[c]]
  /\ UNCHANGED <<pc, handled, replies, met, writer>>

\* Both bytes of the length prefix have arrived.
ReadLength(c) ==
  /\ pc[c] = "head"
  /\ Goto(c, "body")
  /\ UNCHANGED <<handled, waited, replies, met, writer>>

\* msg_len is 0: an error, and a return without record_tcp_connection_closed.
ReadZeroLength(c) ==
  /\ pc[c] = "head"
  /\ Record(c, {"errors"})
  /\ Goto(c, "done")
  /\ UNCHANGED <<handled, waited, replies, writer>>

\* UnexpectedEof or another read error.
ReadLengthFails(c) ==
  /\ pc[c] = "head"
  /\ Closed(c, {})
  /\ Goto(c, "done")
  /\ UNCHANGED <<handled, waited, replies, writer>>

\* Slip: the timer is never armed.
NoTimeout(c) == pc[c] = "head" /\ waited[c] > IdleTimeout /\ UNCHANGED vars

Timeout(c) ==
  /\ pc[c] = "head" /\ waited[c] >= IdleTimeout
  /\ Closed(c, {"tcp_connection_timeouts"})
  /\ Goto(c, "done")
  /\ UNCHANGED <<handled, waited, replies, writer>>

\* The message is complete but does not parse: FORMERR, counted before it is
\* written.
ReadGarbage(c) ==
  /\ pc[c] = "body"
  /\ Record(c, {"errors", "formerr_responses"})
  /\ Goto(c, "final")
  /\ UNCHANGED <<handled, waited, replies, writer>>

\* The rate limiter says no: REFUSED, counted before it is written.
ReadLimited(c) ==
  /\ pc[c] = "body"
  /\ Record(c, {"rate_limited", "refused_responses"})
  /\ Goto(c, "final")
  /\ UNCHANGED <<handled, waited, replies, writer>>

\* Slip: transfers are not counted as queries.
ReadAxfrUncounted(c) ==
  /\ pc[c] = "body"
  /\ Goto(c, "xferlock")
  /\ UNCHANGED <<handled, waited, replies, met, writer>>

ReadAxfr(c) ==
  /\ pc[c] = "body"
  /\ Record(c, Query)
  /\ Goto(c, "xferlock")
  /\ UNCHANGED <<handled, waited, replies, writer>>

ReadQuery(c) ==
  /\ pc[c] = "body"
  /\ Record(c, Query)
  /\ Goto(c, "lookup")
  /\ UNCHANGED <<handled, waited, replies, writer>>

\* Another opcode (NOTIMP) or no question (FORMERR): process_query answers
\* before it asks for the store.
ReadUnserved(c) ==
  /\ pc[c] = "body"
  /\ Record(c, Query)
  /\ Goto(c, "process")
  /\ UNCHANGED <<handled, waited, replies, writer>>

\* read_exact of the message has no timeout; only the client can end it.
ReadBodyFails(c) ==
  /\ pc[c] = "body"
  /\ Goto(c, "done")
  /\ UNCHANGED <<handled, waited, replies, met, writer>>

-----------------------------------------------------------------------------
(* The read lock of the zone store *)

\* handle_signals has a new store and waits for the write lock.
ReloadQueues ==
  /\ writer = "none"
  /\ writer' = "queued"
  /\ UNCHANGED <<pc, handled, waited, replies, met>>

\* The write lock is granted, the store replaced and the lock given back.
ReloadInstalls ==
  /\ writer = "queued" /\ \A c \in Conns : pc[c] # "xfer"
  /\ writer' = "none"
  /\ UNCHANGED <<pc, handled, waited, replies, met>>

\* The transfer takes the read guard, and keeps it while it writes.
LockForXfer(c) ==
  /\ pc[c] = "xferlock" /\ writer = "none"
  /\ Goto(c, "xfer")
  /\ UNCHANGED <<handled, waited, replies, met, writer>>

\* process_query takes the guard, looks up and gives it back.
Lookup(c) ==
  /\ pc[c] = "lookup" /\ writer = "none"
  /\ Goto(c, "process")
  /\ UNCHANGED <<handled, waited, replies, met, writer>>

\* process_query returns an error, which it never does today.
ProcessFails(c) ==
  /\ pc[c] = "lookup" /\ writer = "none"
  /\ Record(c, {"errors", "latencies"})
  /\ Goto(c, "done")
  /\ UNCHANGED <<handled, waited, replies, writer>>

-----------------------------------------------------------------------------
\* The FORMERR or REFUSED message is written and the handler returns.
FinalWritten(c) ==
  /\ pc[c] = "final"
  /\ replies' = [replies EXCEPT ![c] = @ + 1]
  /\ Record(c, {"latencies"})
  /\ Goto(c, "done")
  /\ UNCHANGED <<handled, waited, writer>>

\* The last transfer message, or the refusal of the transfer, is written.
XferWritten(c, code) ==
  /\ pc[c] = "xfer"
  /\ replies' = [replies EXCEPT ![c] = @ + 1]
  /\ Record(c, {code, "latencies"})
  /\ Goto(c, "done")
  /\ UNCHANGED <<handled, waited, writer>>

\* Slip: queries_handled is never advanced.
ReplyNotCounted(c, code) ==
  /\ pc[c] = "process"
  /\ replies' = [replies EXCEPT ![c] = @ + 1]
  /\ Record(c, ({code} \cap Counted) \cup {"latencies"})
  /\ Goto(c, "loop")
  /\ UNCHANGED <<handled, waited, writer>>

\* The response is written, then counted; the connection stays open.
ReplyWritten(c, code) ==
  /\ pc[c] = "process"
  /\ replies' = [replies EXCEPT ![c] = @ + 1]
  /\ Record(c, ({code} \cap Counted) \cup {"latencies"})
  /\ handled' = [handled EXCEPT ![c] = @ + 1]
  /\ Goto(c, "loop")
  /\ UNCHANGED <<waited, writer>>

\* write_all or to_bytes fails: `?' leaves the handler at once.
WriteFails(c) ==
  /\ pc[c] \in {"final", "xfer", "process"}
  /\ Goto(c, "done")
  /\ UNCHANGED <<handled, waited, replies, met, writer>>

-----------------------------------------------------------------------------
Server(c) == LimitReached(c) \/ AwaitLength(c) \/ Timeout(c)

Body(c) ==
  \/ ReadGarbage(c) \/ ReadLimited(c) \/ ReadAxfr(c) \/ ReadQuery(c)
  \/ ReadUnserved(c) \/ ReadBodyFails(c)

Locked(c) == LockForXfer(c) \/ Lookup(c) \/ ProcessFails(c)

Write(c) ==
  \/ FinalWritten(c) \/ WriteFails(c)
  \/ \E code \in {"noerror_responses", "refused_responses"} : XferWritten(c, code)
  \/ \E code \in Codes : ReplyWritten(c, code)

Next ==
  \/ Tick \/ ReloadQueues \/ ReloadInstalls
  \/ \E c \in Conns :
       \/ Accept(c) \/ Server(c) \/ Body(c) \/ Locked(c) \/ Write(c)
       \/ ReadLength(c) \/ ReadZeroLength(c) \/ ReadLengthFails(c)
  \/ (\A c \in Conns : pc[c] = "done") /\ UNCHANGED vars

\* The task is polled and the timer fires; time passes.  The RwLock is fair: a
\* writer enters once the guards before it are gone, and a reader is not passed
\* over for ever by one reload after another.  Clients promise nothing.
ServerFairness ==
  /\ WF_vars(Tick) /\ WF_vars(ReloadInstalls)
  /\ \A c \in Conns : WF_vars(Server(c)) /\ SF_vars(Locked(c))

Spec == Init /\ [][Next]_vars /\ ServerFairness
-----------------------------------------------------------------------------
(* Properties *)

\* queries_handled stays within the limit and the timer within the timeout.
TypeOK ==
  /\ pc \in [Conns -> Points]
  /\ handled \in [Conns -> 0 .. MaxQueries]
  /\ waited \in [Conns -> 0 .. IdleTimeout]
  /\ replies \in [Conns -> Nat]
  /\ met \in [Conns -> [Counters -> Nat]]
  /\ writer \in {"none", "queued"}

\* A connection never gets more than max_queries_per_connection replies, the
\* final FORMERR, REFUSED or transfer included (config.rs: "Maximum number of
\* queries per TCP connection").
ReplyBound == \A c \in Conns : replies[c] <= MaxQueries

\* tcp_queries_per_connection never overstates: what a connection reports when
\* it closes was counted in tcp_queries and answered on that connection.
NoOvercount ==
  \A c \in Conns :
    /\ met[c]["tcp_queries_per_connection"] <= replies[c]
    /\ met[c]["tcp_queries_per_connection"] <= met[c]["tcp_queries"]

\* Nothing is answered unseen: every reply is a counted query, a counted error
\* or a counted refusal by the rate limiter.
RepliesAccounted ==
  \A c \in Conns :
    replies[c] <= met[c]["tcp_queries"] + met[c]["errors"] + met[c]["rate_limited"]

\* What a client announced and does not send, or a reply it does not read: the
\* idle timeout is around the read of the length prefix only.
HeldByOwnClient(c) == pc[c] \in {"body", "final", "xfer", "process"}

\* The read lock is behind a reload, and that behind a transfer whose client
\* does not read.
HeldByOtherClient(c) ==
  /\ pc[c] \in {"xferlock", "lookup"} /\ writer = "queued"
  /\ \E d \in Conns \ {c} : pc[d] = "xfer"

\* No connection stays open for ever on the server's own account: one that
\* never ends waits in the end for its own client, or for the store behind a
\* reload that another client's unread transfer keeps out (server.rs:499,
\* protocol.rs:83, main.rs:174).  Every other wait ends, however often zones
\* are reloaded.
HeldByClientsOnly ==
  \A c \in Conns :
    <>[](pc[c] \notin {"new", "done"})
      => <>[]HeldByOwnClient(c) \/ <>[]HeldByOtherClient(c)

=============================================================================
