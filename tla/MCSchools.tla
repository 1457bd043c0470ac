----------------------------- MODULE MCSchools ------------------------------
(***************************************************************************)
(* Instances of Schools for TLC.                                           *)
(***************************************************************************)
EXTENDS Schools, TLC

=============================================================================
