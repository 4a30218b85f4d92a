--------------------------- MODULE MCRateLimiter ----------------------------
(* Small instances of RateLimiter.                                         *)
EXTENDS RateLimiter

CONSTANTS r1, r2, r3, r4, r5
=============================================================================
