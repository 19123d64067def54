---------------------------- MODULE MCRateLimiter ----------------------------
(* Three callers; a token takes three ticks, two fit into the bucket. *)
EXTENDS RateLimiter
CONSTANTS c1, c2, c3
=============================================================================
