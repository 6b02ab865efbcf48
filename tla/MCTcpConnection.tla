--------------------------- MODULE MCTcpConnection ---------------------------
(* Small instance of TcpConnection for TLC. *)
EXTENDS TcpConnection
=============================================================================
