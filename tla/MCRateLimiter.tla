---------------------------- MODULE MCRateLimiter ----------------------------
(* RateLimiter for TLC, in units of half a tenth of a token: a slow limit, *)
(* whose refills are fractions of what a message costs, a fast one with a  *)
(* small burst, and one that blocks.                                       *)
EXTENDS RateLimiter

MCLimits == {[rate |-> 3, size |-> 40], [rate |-> 20, size |-> 20], [rate |-> 0, size |-> 0]}
=============================================================================
