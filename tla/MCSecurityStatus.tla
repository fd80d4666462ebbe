-------------------------- MODULE MCSecurityStatus --------------------------
(***************************************************************************)
(* Instance of SecurityStatus for TLC.                                     *)
(***************************************************************************)
EXTENDS SecurityStatus
=============================================================================
