---------------------------- MODULE MCRateLimiter ----------------------------
(* A small instance of RateLimiterManager for TLC. *)
EXTENDS RateLimiterManager

CONSTANTS g1, g2

TwoCallers == {g1, g2}
=============================================================================
