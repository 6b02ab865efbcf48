------------------------ MODULE TcpConnectionProofs ------------------------
(***************************************************************************)
(* Proofs about TcpConnection for every number of connections, every limit *)
(* on queries (0 included) and every idle timeout.                         *)
(***************************************************************************)
EXTENDS TcpConnection, TLAPS

\* How many of c's messages were seen, one way or another.
Seen(c) == met[c]["tcp_queries"] + met[c]["errors"] + met[c]["rate_limited"]

\* At the control points after the read of the length prefix there is room for
\* one more reply.
Inside == {"head", "body", "xferlock", "lookup", "final", "xfer", "process"}

\* How replies, queries_handled and the counters of one connection relate at
\* each control point.  While it is open, every reply is a handled query; the
\* reply that is being written has been counted already.
ConnInv(c) ==
  /\ pc[c] # "done" => /\ replies[c] = handled[c]
                       /\ met[c]["tcp_queries_per_connection"] = 0
  /\ pc[c] \in Inside => handled[c] < MaxQueries
  /\ replies[c] <= MaxQueries
  /\ handled[c] <= met[c]["tcp_queries"]
  /\ replies[c] <= Seen(c)
  /\ pc[c] \in {"xferlock", "lookup", "final", "xfer", "process"} => replies[c] < Seen(c)
  /\ pc[c] \in {"lookup", "process"} => handled[c] < met[c]["tcp_queries"]
  /\ met[c]["tcp_queries_per_connection"] <= replies[c]
  /\ met[c]["tcp_queries_per_connection"] <= met[c]["tcp_queries"]

IInv == TypeOK /\ \A c \in Conns : ConnInv(c)

LEMMA InitInv == Init => IInv
BY TcpAssumption DEF Init, IInv, TypeOK, ConnInv, Seen, Inside, Points, Counters

\* A connection's step touches that connection only.
LEMMA Frame ==
  ASSUME IInv, NEW c \in Conns, NEW point \in Points, NEW h \in 0 .. MaxQueries,
         NEW w \in 0 .. IdleTimeout, NEW r \in Nat, NEW m \in [Counters -> Nat],
         pc' = [pc EXCEPT ![c] = point], handled' = [handled EXCEPT ![c] = h],
         waited' = [waited EXCEPT ![c] = w], replies' = [replies EXCEPT ![c] = r],
         met' = [met EXCEPT ![c] = m], writer' = writer,
         ConnInv(c)'
  PROVE  IInv'
<1>1. TypeOK'
  BY DEF IInv, TypeOK
<1>2. ASSUME NEW d \in Conns, d # c PROVE ConnInv(d)'
  <2>1. /\ pc'[d] = pc[d] /\ handled'[d] = handled[d] /\ replies'[d] = replies[d]
        /\ met'[d] = met[d]
    BY <1>2 DEF IInv, TypeOK
  <2> QED BY <1>2, <2>1 DEF IInv, ConnInv, Seen
<1> QED BY <1>1, <1>2 DEF IInv

\* What TypeOK says of one connection.
LEMMA ConnTypes ==
  ASSUME IInv, NEW c \in Conns
  PROVE  /\ pc[c] \in Points /\ handled[c] \in 0 .. MaxQueries /\ handled[c] \in Nat
         /\ waited[c] \in 0 .. IdleTimeout /\ replies[c] \in Nat
         /\ met[c] \in [Counters -> Nat]
         /\ handled = [handled EXCEPT ![c] = handled[c]]
         /\ waited = [waited EXCEPT ![c] = waited[c]]
         /\ replies = [replies EXCEPT ![c] = replies[c]]
         /\ met = [met EXCEPT ![c] = met[c]]
         /\ DOMAIN pc = Conns /\ DOMAIN handled = Conns /\ DOMAIN waited = Conns
         /\ DOMAIN replies = Conns /\ DOMAIN met = Conns
BY TcpAssumption DEF IInv, TypeOK

\* The same, for a step that changes neither the replies nor queries_handled.
LEMMA CountFrame ==
  ASSUME IInv, NEW c \in Conns, NEW point \in Points, NEW m \in [Counters -> Nat],
         pc' = [pc EXCEPT ![c] = point], met' = [met EXCEPT ![c] = m],
         UNCHANGED <<handled, waited, replies, writer>>, ConnInv(c)'
  PROVE  IInv'
<1>1. /\ handled' = [handled EXCEPT ![c] = handled[c]] /\ handled[c] \in 0 .. MaxQueries
      /\ waited' = [waited EXCEPT ![c] = waited[c]] /\ waited[c] \in 0 .. IdleTimeout
      /\ replies' = [replies EXCEPT ![c] = replies[c]] /\ replies[c] \in Nat
  BY ConnTypes
<1> QED BY <1>1, Frame

\* The counters a step adds to.
LEMMA RecordEffect ==
  ASSUME IInv, NEW c \in Conns, NEW S, Record(c, S)
  PROVE  \E m \in [Counters -> Nat] :
           /\ met' = [met EXCEPT ![c] = m] /\ met'[c] = m
           /\ \A k \in Counters : m[k] = IF k \in S THEN met[c][k] + 1 ELSE met[c][k]
<1> DEFINE m == [k \in Counters |-> IF k \in S THEN met[c][k] + 1 ELSE met[c][k]]
<1>1. m \in [Counters -> Nat]
  BY ConnTypes
<1>2. met' = [met EXCEPT ![c] = m]
  BY DEF Record
<1>3. met'[c] = m
  BY <1>2, ConnTypes
<1> QED BY <1>1, <1>2, <1>3

LEMMA ClosedEffect ==
  ASSUME IInv, NEW c \in Conns, NEW S, Closed(c, S)
  PROVE  \E m \in [Counters -> Nat] :
           /\ met' = [met EXCEPT ![c] = m] /\ met'[c] = m
           /\ \A k \in Counters :
                m[k] = IF k = "tcp_queries_per_connection" THEN met[c][k] + handled[c]
                       ELSE IF k \in S THEN met[c][k] + 1 ELSE met[c][k]
<1> DEFINE m == [k \in Counters |->
                   IF k = "tcp_queries_per_connection" THEN met[c][k] + handled[c]
                   ELSE IF k \in S THEN met[c][k] + 1 ELSE met[c][k]]
<1>1. m \in [Counters -> Nat]
  BY ConnTypes
<1>2. met' = [met EXCEPT ![c] = m]
  BY DEF Closed
<1>3. met'[c] = m
  BY <1>2, ConnTypes
<1> QED BY <1>1, <1>2, <1>3

\* The four counters the invariant speaks of.
LEMMA CounterNames ==
  {"tcp_queries", "errors", "rate_limited", "tcp_queries_per_connection"} \subseteq Counters
BY DEF Counters

\* A step that records the counters in S, moves to `point' and changes neither
\* replies nor queries_handled.
LEMMA RecordMove ==
  ASSUME IInv, NEW c \in Conns, NEW S, NEW point \in Points,
         Record(c, S), pc' = [pc EXCEPT ![c] = point],
         UNCHANGED <<handled, waited, replies, writer>>,
         "tcp_queries_per_connection" \notin S,
         \/ pc[c] = "new" /\ point = "loop"
         \/ pc[c] = "head" /\ point = "done"
         \/ pc[c] = "body" /\ point = "final" /\ "errors" \in S
         \/ pc[c] = "body" /\ point = "final" /\ "rate_limited" \in S
         \/ pc[c] = "body" /\ point \in {"xferlock", "lookup", "process"} /\ "tcp_queries" \in S
         \/ pc[c] = "lookup" /\ point = "done"
  PROVE  IInv'
<1>1. PICK m \in [Counters -> Nat] :
        /\ met' = [met EXCEPT ![c] = m] /\ met'[c] = m
        /\ \A k \in Counters : m[k] = IF k \in S THEN met[c][k] + 1 ELSE met[c][k]
  BY RecordEffect
<1>2. ConnInv(c)'
  <2>1. /\ pc'[c] = point /\ replies'[c] = replies[c] /\ handled'[c] = handled[c]
        /\ handled[c] \in Nat /\ replies[c] \in Nat
    BY ConnTypes
  <2>2. /\ met[c] \in [Counters -> Nat]
        /\ m["tcp_queries_per_connection"] = met[c]["tcp_queries_per_connection"]
        /\ m["tcp_queries"] >= met[c]["tcp_queries"]
        /\ m["errors"] >= met[c]["errors"]
        /\ m["rate_limited"] >= met[c]["rate_limited"]
        /\ "errors" \in S => m["errors"] = met[c]["errors"] + 1
        /\ "rate_limited" \in S => m["rate_limited"] = met[c]["rate_limited"] + 1
        /\ "tcp_queries" \in S => m["tcp_queries"] = met[c]["tcp_queries"] + 1
    BY <1>1, ConnTypes, CounterNames
  <2>3. \A k \in {"tcp_queries", "errors", "rate_limited", "tcp_queries_per_connection"} :
          m[k] \in Nat /\ met[c][k] \in Nat
    BY <1>1, <2>2, CounterNames
  <2> QED
    BY <1>1, <2>1, <2>2, <2>3, TcpAssumption DEF IInv, ConnInv, Seen, Inside
<1> QED
  BY <1>1, <1>2, CountFrame

LEMMA RecordStep ==
  ASSUME IInv, NEW c \in Conns,
         \/ Accept(c) \/ ReadZeroLength(c) \/ ReadGarbage(c) \/ ReadLimited(c)
         \/ ReadAxfr(c) \/ ReadQuery(c) \/ ReadUnserved(c) \/ ProcessFails(c)
  PROVE  IInv'
<1>0. Points = {"new", "loop", "head", "body", "xferlock", "lookup",
                "final", "xfer", "process", "done"}
  BY DEF Points
<1>1. CASE Accept(c)
  <2>1. /\ Record(c, {"tcp_connections"}) /\ pc' = [pc EXCEPT ![c] = "loop"]
        /\ UNCHANGED <<handled, waited, replies, writer>> /\ pc[c] = "new"
    BY <1>1 DEF Accept, Goto
  <2> QED BY <1>0, <2>1, RecordMove
<1>2. CASE ReadZeroLength(c)
  <2>1. /\ Record(c, {"errors"}) /\ pc' = [pc EXCEPT ![c] = "done"]
        /\ UNCHANGED <<handled, waited, replies, writer>> /\ pc[c] = "head"
    BY <1>2 DEF ReadZeroLength, Goto
  <2> QED BY <1>0, <2>1, RecordMove
<1>3. CASE ReadGarbage(c)
  <2>1. /\ Record(c, {"errors", "formerr_responses"}) /\ pc' = [pc EXCEPT ![c] = "final"]
        /\ UNCHANGED <<handled, waited, replies, writer>> /\ pc[c] = "body"
    BY <1>3 DEF ReadGarbage, Goto
  <2> QED BY <1>0, <2>1, RecordMove
<1>4. CASE ReadLimited(c)
  <2>1. /\ Record(c, {"rate_limited", "refused_responses"})
        /\ pc' = [pc EXCEPT ![c] = "final"]
        /\ UNCHANGED <<handled, waited, replies, writer>> /\ pc[c] = "body"
    BY <1>4 DEF ReadLimited, Goto
  <2> QED BY <1>0, <2>1, RecordMove
<1>5. CASE ReadAxfr(c)
  <2>1. /\ Record(c, {"total_queries", "tcp_queries"}) /\ pc' = [pc EXCEPT ![c] = "xferlock"]
        /\ UNCHANGED <<handled, waited, replies, writer>> /\ pc[c] = "body"
    BY <1>5 DEF ReadAxfr, Query, Goto
  <2> QED BY <1>0, <2>1, RecordMove
<1>6. CASE ReadQuery(c)
  <2>1. /\ Record(c, {"total_queries", "tcp_queries"})
        /\ pc' = [pc EXCEPT ![c] = "lookup"]
        /\ UNCHANGED <<handled, waited, replies, writer>> /\ pc[c] = "body"
    BY <1>6 DEF ReadQuery, Query, Goto
  <2> QED BY <1>0, <2>1, RecordMove
<1>7. CASE ReadUnserved(c)
  <2>1. /\ Record(c, {"total_queries", "tcp_queries"})
        /\ pc' = [pc EXCEPT ![c] = "process"]
        /\ UNCHANGED <<handled, waited, replies, writer>> /\ pc[c] = "body"
    BY <1>7 DEF ReadUnserved, Query, Goto
  <2> QED BY <1>0, <2>1, RecordMove
<1>8. CASE ProcessFails(c)
  <2>1. /\ Record(c, {"errors", "latencies"}) /\ pc' = [pc EXCEPT ![c] = "done"]
        /\ UNCHANGED <<handled, waited, replies, writer>> /\ pc[c] = "lookup"
    BY <1>8 DEF ProcessFails, Goto
  <2> QED BY <1>0, <2>1, RecordMove
<1> QED BY <1>1, <1>2, <1>3, <1>4, <1>5, <1>6, <1>7, <1>8

\* Steps that close the connection with record_tcp_connection_closed.
LEMMA ClosedStep ==
  ASSUME IInv, NEW c \in Conns,
         LimitReached(c) \/ ReadLengthFails(c) \/ Timeout(c)
  PROVE  IInv'
<1>1. PICK S \in {{}, {"tcp_connection_timeouts"}} :
        /\ Closed(c, S) /\ pc' = [pc EXCEPT ![c] = "done"] /\ pc[c] \in {"loop", "head"}
        /\ UNCHANGED <<handled, waited, replies, writer>>
  BY DEF LimitReached, ReadLengthFails, Timeout, Goto
<1>2. PICK m \in [Counters -> Nat] :
        /\ met' = [met EXCEPT ![c] = m] /\ met'[c] = m
        /\ \A k \in Counters :
             m[k] = IF k = "tcp_queries_per_connection" THEN met[c][k] + handled[c]
                    ELSE IF k \in S THEN met[c][k] + 1 ELSE met[c][k]
  BY <1>1, ClosedEffect
<1>3. "done" \in Points
  BY DEF Points
<1>4. ConnInv(c)'
  <2>1. /\ pc'[c] = "done" /\ replies'[c] = replies[c] /\ handled'[c] = handled[c]
        /\ handled[c] \in Nat /\ replies[c] \in Nat
    BY <1>1, ConnTypes
  <2>2. /\ m["tcp_queries_per_connection"] = met[c]["tcp_queries_per_connection"] + handled[c]
        /\ m["tcp_queries"] = met[c]["tcp_queries"]
        /\ m["errors"] = met[c]["errors"]
        /\ m["rate_limited"] = met[c]["rate_limited"]
    BY <1>1, <1>2, CounterNames
  <2>3. \A k \in {"tcp_queries", "errors", "rate_limited", "tcp_queries_per_connection"} :
          m[k] \in Nat /\ met[c][k] \in Nat
    BY <1>2, ConnTypes, CounterNames
  <2> QED
    BY <1>1, <1>2, <2>1, <2>2, <2>3, TcpAssumption DEF IInv, ConnInv, Seen, Inside
<1> QED
  BY <1>1, <1>2, <1>3, <1>4, CountFrame

\* Steps that only move the control point.
LEMMA MoveStep ==
  ASSUME IInv, NEW c \in Conns,
         \/ ReadLength(c) \/ ReadBodyFails(c) \/ WriteFails(c)
         \/ LockForXfer(c) \/ Lookup(c)
  PROVE  IInv'
<1>1. PICK point \in {"body", "xfer", "process", "done"} :
        /\ pc' = [pc EXCEPT ![c] = point] /\ UNCHANGED <<handled, waited, replies, met, writer>>
        /\ pc[c] \in Inside
        /\ point = "xfer" => pc[c] = "xferlock"
        /\ point = "process" => pc[c] = "lookup"
  BY DEF ReadLength, ReadBodyFails, WriteFails, LockForXfer, Lookup, Goto, Inside
<1>2. point \in Points /\ met' = [met EXCEPT ![c] = met[c]] /\ met[c] \in [Counters -> Nat]
  BY <1>1, ConnTypes DEF Points
<1>3. ConnInv(c)'
  BY <1>1, ConnTypes DEF IInv, ConnInv, Seen, Inside
<1> QED BY <1>1, <1>2, <1>3, CountFrame

LEMMA AwaitStep == ASSUME IInv, NEW c \in Conns, AwaitLength(c) PROVE IInv'
<1>1. /\ pc' = [pc EXCEPT ![c] = "head"] /\ pc[c] = "loop" /\ handled[c] < MaxQueries
      /\ waited' = [waited EXCEPT ![c] = 0] /\ UNCHANGED <<handled, replies, met, writer>>
  BY DEF AwaitLength, Goto
<1>2. /\ "head" \in Points /\ 0 \in 0 .. IdleTimeout
      /\ handled' = [handled EXCEPT ![c] = handled[c]] /\ handled[c] \in 0 .. MaxQueries
      /\ replies' = [replies EXCEPT ![c] = replies[c]] /\ replies[c] \in Nat
      /\ met' = [met EXCEPT ![c] = met[c]] /\ met[c] \in [Counters -> Nat]
  BY <1>1, ConnTypes, TcpAssumption DEF Points
<1>3. ConnInv(c)'
  BY <1>1, ConnTypes DEF IInv, ConnInv, Seen, Inside
<1> QED BY <1>1, <1>2, <1>3, Frame

\* The three ways a reply is completed.
LEMMA ReplyStep ==
  ASSUME IInv, NEW c \in Conns,
         \/ FinalWritten(c)
         \/ \E code \in {"noerror_responses", "refused_responses"} : XferWritten(c, code)
         \/ \E code \in Codes : ReplyWritten(c, code)
  PROVE  IInv'
<1>1. PICK S \in SUBSET (Counted \cup {"latencies"}) :
        /\ Record(c, S) /\ replies' = [replies EXCEPT ![c] = replies[c] + 1]
        /\ waited' = waited /\ writer' = writer
        /\ \/ /\ pc[c] \in {"final", "xfer"} /\ pc' = [pc EXCEPT ![c] = "done"]
              /\ handled' = handled
           \/ /\ pc[c] = "process" /\ pc' = [pc EXCEPT ![c] = "loop"]
              /\ handled' = [handled EXCEPT ![c] = handled[c] + 1]
  <2>1. CASE FinalWritten(c)
    BY <2>1 DEF FinalWritten, Goto
  <2>2. ASSUME NEW code \in {"noerror_responses", "refused_responses"}, XferWritten(c, code)
        PROVE  /\ Record(c, {code, "latencies"})
               /\ {code, "latencies"} \in SUBSET (Counted \cup {"latencies"})
               /\ replies' = [replies EXCEPT ![c] = replies[c] + 1]
               /\ waited' = waited /\ writer' = writer /\ handled' = handled
               /\ pc[c] = "xfer" /\ pc' = [pc EXCEPT ![c] = "done"]
    BY <2>2 DEF XferWritten, Goto, Counted
  <2>3. ASSUME NEW code \in Codes, ReplyWritten(c, code)
        PROVE  /\ Record(c, ({code} \cap Counted) \cup {"latencies"})
               /\ replies' = [replies EXCEPT ![c] = replies[c] + 1]
               /\ waited' = waited /\ writer' = writer /\ handled' = [handled EXCEPT ![c] = handled[c] + 1]
               /\ pc[c] = "process" /\ pc' = [pc EXCEPT ![c] = "loop"]
    BY <2>3 DEF ReplyWritten, Goto
  <2> QED BY <2>1, <2>2, <2>3
<1>2. PICK m \in [Counters -> Nat] :
        /\ met' = [met EXCEPT ![c] = m] /\ met'[c] = m
        /\ \A k \in Counters : m[k] = IF k \in S THEN met[c][k] + 1 ELSE met[c][k]
  BY <1>1, RecordEffect
<1>3. \A k \in {"tcp_queries", "errors", "rate_limited", "tcp_queries_per_connection"} :
        m[k] = met[c][k] /\ m[k] \in Nat
  BY <1>1, <1>2, CounterNames DEF Counted
<1>4. PICK point \in {"done", "loop"}, h \in 0 .. MaxQueries :
        /\ pc' = [pc EXCEPT ![c] = point] /\ handled' = [handled EXCEPT ![c] = h]
        /\ pc'[c] = point /\ handled'[c] = h
        /\ replies'[c] = replies[c] + 1
        /\ \/ point = "done" /\ h = handled[c] /\ pc[c] \in {"final", "xfer"}
           \/ point = "loop" /\ h = handled[c] + 1 /\ pc[c] = "process"
  <2>1. pc[c] \in {"final", "xfer"} \/ (pc[c] = "process" /\ handled[c] + 1 \in 0 .. MaxQueries)
    BY <1>1, ConnTypes, TcpAssumption DEF IInv, ConnInv, Inside
  <2> QED BY <1>1, <2>1, ConnTypes
<1>5. ConnInv(c)'
  <2>1. replies[c] \in Nat /\ handled[c] \in Nat
    BY ConnTypes
  <2> QED BY <1>2, <1>3, <1>4, <2>1, TcpAssumption DEF IInv, ConnInv, Seen, Inside
<1>6. /\ point \in Points /\ replies[c] + 1 \in Nat
      /\ waited' = [waited EXCEPT ![c] = waited[c]] /\ waited[c] \in 0 .. IdleTimeout
  BY <1>1, ConnTypes DEF Points
<1> QED BY <1>1, <1>2, <1>4, <1>5, <1>6, Frame

LEMMA InvStep == IInv /\ [Next]_vars => IInv'
<1> SUFFICES ASSUME IInv, [Next]_vars PROVE IInv'
  OBVIOUS
<1>1. CASE Tick
  <2>1. waited' \in [Conns -> 0 .. IdleTimeout] /\ UNCHANGED <<pc, handled, replies, met, writer>>
    BY <1>1, TcpAssumption DEF Tick, IInv, TypeOK
  <2> QED BY <2>1 DEF IInv, TypeOK, ConnInv, Seen
<1>2. CASE ReloadQueues \/ ReloadInstalls
  <2>1. writer' \in {"none", "queued"} /\ UNCHANGED <<pc, handled, waited, replies, met>>
    BY <1>2 DEF ReloadQueues, ReloadInstalls
  <2> QED BY <2>1 DEF IInv, TypeOK, ConnInv, Seen
<1>3. CASE UNCHANGED vars
  BY <1>3 DEF vars, IInv, TypeOK, ConnInv, Seen
<1> QED
  BY <1>1, <1>2, <1>3, RecordStep, ClosedStep, MoveStep, AwaitStep, ReplyStep
     DEF Next, Server, Body, Locked, Write

LEMMA Invariance == Spec => []IInv
<1>1. Init => IInv
  BY InitInv
<1>2. IInv /\ [Next]_vars => IInv'
  BY InvStep
<1> QED BY <1>1, <1>2, PTL DEF Spec

\* Every variable keeps its type; in particular queries_handled never passes
\* max_queries_per_connection.
THEOREM TypeCorrect == Spec => []TypeOK
<1>1. IInv => TypeOK
  BY DEF IInv
<1> QED BY <1>1, Invariance, PTL

\* No connection gets more than max_queries_per_connection replies, for every
\* limit, also when its last message is refused, malformed or a transfer.
THEOREM ReplyLimit == Spec => []ReplyBound
<1>1. IInv => ReplyBound
  BY DEF IInv, ConnInv, ReplyBound
<1> QED BY <1>1, Invariance, PTL

\* tcp_queries_per_connection never claims more queries than the connection
\* counted and answered, on whichever path its handler leaves.
THEOREM NoOverclaim == Spec => []NoOvercount
<1>1. IInv => NoOvercount
  BY DEF IInv, ConnInv, Seen, NoOvercount
<1> QED BY <1>1, Invariance, PTL

\* No reply goes unaccounted: each one was counted as a query, an error or a
\* refusal by the rate limiter.
THEOREM EveryReplyCounted == Spec => []RepliesAccounted
<1>1. IInv => RepliesAccounted
  BY DEF IInv, ConnInv, Seen, RepliesAccounted
<1> QED BY <1>1, Invariance, PTL
=============================================================================
