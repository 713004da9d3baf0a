---------------------------- MODULE MCRateLimiter -----------------------------
(***************************************************************************)
(* RateLimiter on small instances.                                         *)
(***************************************************************************)
EXTENDS RateLimiter, TLC

IpSymmetry == Permutations(Ips)

=============================================================================
