------------------------- MODULE MCEtcdRegistration -------------------------
(***************************************************************************)
(* Model checking EtcdRegistration.                                        *)
(***************************************************************************)
EXTENDS EtcdRegistration
=============================================================================
