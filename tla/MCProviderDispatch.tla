-------------------------- MODULE MCProviderDispatch --------------------------
(***************************************************************************)
(* A small instance of ProviderDispatch.                                   *)
(***************************************************************************)
EXTENDS ProviderDispatch
===============================================================================
