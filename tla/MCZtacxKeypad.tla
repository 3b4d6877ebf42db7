---------------------------- MODULE MCZtacxKeypad ----------------------------
(***************************************************************************)
(* Small instances of ZtacxKeypad; all its parameters are numbers and      *)
(* names.                                                                  *)
(***************************************************************************)
EXTENDS ZtacxKeypad

=============================================================================
