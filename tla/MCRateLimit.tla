---------------------------- MODULE MCRateLimit ----------------------------
(* Instances of RateLimit for TLC. *)
EXTENDS RateLimit, TLC

\* A limit of the route below the global one, as rate_limit_dependency sets it.
MClimit == [k \in Keys |-> IF k = "global" THEN 3 ELSE 2]
=============================================================================
