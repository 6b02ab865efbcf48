---------------------------- MODULE MCRateLimiter ----------------------------
(* Small instance of RateLimiter for TLC. *)
EXTENDS RateLimiter
=============================================================================
