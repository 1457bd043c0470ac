----------------------------- MODULE MCAiTurns ------------------------------
(***************************************************************************)
(* Instances of AiTurns for TLC.                                           *)
(***************************************************************************)
EXTENDS AiTurns, TLC

=============================================================================
