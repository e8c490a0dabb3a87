----------------------------- MODULE MCRateLimiter ----------------------------
(* Instances of RateLimiter for TLC.                                       *)
EXTENDS RateLimiter, TLC

Clients == Permutations(Keys)
===============================================================================
