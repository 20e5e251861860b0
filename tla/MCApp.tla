------------------------------- MODULE MCApp -------------------------------
(* App with two names, two priorities and two callers, for TLC. *)
EXTENDS App

=============================================================================
