----------------------------- MODULE MCServices -----------------------------
(***************************************************************************)
(* Model checking Services on the mains of the repository.                 *)
(***************************************************************************)
EXTENDS Services, Mains
=============================================================================
