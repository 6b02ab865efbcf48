----------------------------- MODULE MCMetrics -----------------------------
(***************************************************************************)
(* Small instance of Metrics for TLC: a request of every kind, with two    *)
(* latencies.                                                              *)
(***************************************************************************)
EXTENDS Metrics

McRequests ==
  {Answered("udp_queries", TRUE, "A", "NOERROR", 2),
   Answered("udp_queries", FALSE, "NS", "NOTIMP", 5),
   Unanswered("udp_queries", FALSE, "no question"),
   ProcessingFailed("tcp_queries", FALSE, "A", 5),
   TcpConnection("NS", 2), TcpConnectionBroken("A"),
   ParseFailed(5), Malformed, TcpRateLimited(2), Refused, UdpRateLimited, InvalidLength}

Symmetry == Permutations(Handlers)
=============================================================================
