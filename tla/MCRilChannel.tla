---------------------------- MODULE MCRilChannel ----------------------------
(***************************************************************************)
(* Model-checking parameters of RilChannel.                                *)
(***************************************************************************)
EXTENDS RilChannel, TLC

=============================================================================
