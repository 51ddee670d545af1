-------------------------------- MODULE Common --------------------------------
(***************************************************************************)
(* None stands for what is absent: a zero identifier, a NULL column, a row *)
(* that was not inserted.                                                  *)
(***************************************************************************)
EXTENDS Integers

CONSTANT None
===============================================================================
