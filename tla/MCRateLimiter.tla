---------------------------- MODULE MCRateLimiter ----------------------------
(* The rate limiter with two addresses, for TLC: at one of them the client *)
(* waits when it is told to.                                               *)
EXTENDS RateLimiter
=============================================================================
