---- MODULE MCRateLimiter ----
(* Two callers, a max_delay that is no power of two, and floats that end at *)
(* 2^4 instead of 2^1024, so that the delay is capped before it overflows. *)
EXTENDS RateLimiter

CONSTANTS k1, k2

MCKey == {k1, k2}
====
