----------------------------- MODULE MCElection -----------------------------
(* Two candidates, with or without a session each, and one failed call of   *)
(* any kind: either may lead, wait behind the other and be left behind.     *)
EXTENDS Election
=============================================================================
