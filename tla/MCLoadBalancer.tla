--------------------------- MODULE MCLoadBalancer ---------------------------
(***************************************************************************)
(* Model checking LoadBalancer.                                            *)
(***************************************************************************)
EXTENDS LoadBalancer
=============================================================================
